------------------------- MODULE PlexlogFilesProofs -------------------------
(***************************************************************************)
(* Proofs about the saved files: how many there are, that old ones go      *)
(* first, and that those which stay are the latest.                        *)
(***************************************************************************)
EXTENDS PlexlogProofs

\* The list of files to delete is part of the directory, exists only while
\* Rotate runs, and leaves one place for "current".
Removal_OK(p) ==
  /\ doomed[p] \subseteq saved
  /\ pc[p] # "remove" => doomed[p] = {}
  /\ pc[p] = "remove" /\ Files_Max[p] > 0 =>
       Cardinality(saved \ doomed[p]) <= Files_Max[p] - 1

RotationInv ==
  /\ IsFiniteSet(saved)
  /\ \A p \in Proc : Removal_OK(p)
  /\ SavedFilesBounded

\* Files_Max is one of the numbers that were set.
LEMMA FilesMaxType ==
  ASSUME TypeOK, NEW p \in Proc
  PROVE  Files_Max[p] \in Nat /\ Files_Max[p] \in Files_In_Use
BY FilesAssumption DEF TypeOK, Files_In_Use

\* Three actions change the saved files or the list; every other one keeps
\* them, or drops the list.
LEMMA QuietStep ==
  ASSUME TypeOK, NEW p \in Proc, Removal_OK(p),
         Call(p) \/ Step(p) \/ Kill(p) \/ Restart(p),
         ~Rotate(p), ~Remove_Log(p), ~Rename_Current(p)
  PROVE  UNCHANGED saved /\ Removal_OK(p)'
<1>1. CASE Open(p)
  BY <1>1
  DEF
    Open, Leave, Context_At_Rest, directory, env, config, request, plan,
    TypeOK, Removal_OK
<1>2. CASE Close(p)
  BY <1>2
  DEF
    Close, Leave, Released, directory, env, config, request, plan, TypeOK,
    Removal_OK
<1>3. CASE Set_Maximum_Saved_Files(p)
  BY <1>3
  DEF
    Set_Maximum_Saved_Files, directory, env, handles, request, plan, TypeOK,
    Removal_OK
<1>4. CASE Set_Maximum_File_Size(p)
  BY <1>4
  DEF
    Set_Maximum_File_Size, directory, env, handles, request, plan, TypeOK,
    Removal_OK
<1>5. CASE Set_Unlimited_File_Size(p)
  BY <1>5
  DEF
    Set_Unlimited_File_Size, directory, env, handles, request, plan, TypeOK,
    Removal_OK
<1>6. CASE Write(p)
  BY <1>6
  DEF
    Write, Context_At_Rest, Have_Directory_Lock, directory, env, config,
    handles, plan, TypeOK, Removal_OK
<1>7. CASE Write_Refused(p)
  BY <1>7
  DEF
    Write_Refused, Leave, directory, env, config, handles, request, plan,
    TypeOK, Removal_OK
<1>8. CASE Push_Fails(p)
  BY <1>8
  DEF
    Push_Fails, Raise, directory, env, config, handles, request, plan,
    TypeOK, Removal_OK
<1>9. CASE Lock_Directory(p)
  BY <1>9
  DEF
    Lock_Directory, Goto, directory, env, config, request, plan, TypeOK,
    Removal_OK
<1>10. CASE Create_Fails(p)
  BY <1>10
  DEF
    Create_Fails, Raise, directory, env, config, request, plan, TypeOK,
    Removal_OK
<1>11. CASE Set_Lock(p)
  BY <1>11
  DEF
    Set_Lock, Goto, directory, env, config, handles, request, plan, TypeOK,
    Removal_OK
<1>12. CASE Set_Lock_Fails(p)
  BY <1>12
  DEF
    Set_Lock_Fails, Abandon_Lock, Pop, Raise, directory, env, config,
    request, plan, TypeOK, Removal_OK
<1>13. CASE Open_Current(p)
  BY <1>13
  DEF
    Open_Current, Goto, env, config, request, plan, TypeOK, Removal_OK
<1>14. CASE Open_Current_Fails(p)
  BY <1>14
  DEF
    Open_Current_Fails, Raise, directory, env, config, handles, request,
    plan, TypeOK, Removal_OK
<1>15. CASE Fit(p)
  BY <1>15
  DEF
    Fit, Goto, Raise, directory, env, config, request, plan, TypeOK,
    Removal_OK
<1>16. CASE Exit_Loop(p)
  BY <1>16
  DEF
    Exit_Loop, Goto, directory, env, config, handles, request, plan, TypeOK,
    Removal_OK
<1>17. CASE Write_Chunk(p)
  BY <1>17
  DEF
    Write_Chunk, Goto, Raise, env, config, plan, TypeOK, Must_Split,
    Removal_OK
<1>18. CASE Write_Rest(p)
  BY <1>18
  DEF
    Write_Rest, Goto, Raise, env, config, request, plan, TypeOK, Removal_OK
<1>19. CASE Write_Fails(p)
  BY <1>19
  DEF
    Write_Fails, Raise, env, config, handles, request, plan, TypeOK,
    Must_Split, Removal_OK
<1>20. CASE Remove_Log_Fails(p)
  BY <1>20
  DEF
    Remove_Log_Fails, Raise, End_Rotate, directory, env, config, handles,
    request, TypeOK, Removal_OK
<1>21. CASE Rename_Current_Fails(p)
  BY <1>21
  DEF
    Rename_Current_Fails, Raise, End_Rotate, directory, env, config,
    handles, request, TypeOK, Removal_OK
<1>22. CASE Unlock(p)
  BY <1>22
  DEF
    Unlock, Unlock_Directory, Pop, Raise, Return, Leave, Released,
    directory, env, config, plan, TypeOK, Removal_OK
<1>23. CASE Handler(p)
  BY <1>23
  DEF
    Handler, Handler_Asserts, Unlock_Directory, Pop, Return, Leave,
    Released, Have_Directory_Lock, directory, env, config, plan, TypeOK,
    Removal_OK
<1>24. CASE Kill(p)
  BY <1>24
  DEF
    Kill, End_Rotate, Released, config, TypeOK, Removal_OK
<1>25. CASE Restart(p)
  BY <1>25
  DEF
    Restart, Goto, directory, env, handles, request, plan, TypeOK,
    Removal_OK
<1> QED
  BY <1>1, <1>2, <1>3, <1>4, <1>5, <1>6, <1>7, <1>8, <1>9, <1>10, <1>11, <1>12,
    <1>13, <1>14, <1>15, <1>16, <1>17, <1>18, <1>19, <1>20, <1>21, <1>22,
    <1>23, <1>24, <1>25 DEF Call, Step

\* Rotate_Remove_Old's list leaves at most Files_Max - 1 files.
LEMMA RotateStep ==
  ASSUME TypeOK, NEW p \in Proc, Removal_OK(p), IsFiniteSet(saved), Rotate(p)
  PROVE  UNCHANGED saved /\ Removal_OK(p)'
<1>1. UNCHANGED <<saved, Files_Max>> /\ pc'[p] = "remove"
  BY DEF Rotate, directory, config, Goto, TypeOK
<1>2. CASE Files_Max[p] = 0
  BY <1>1, <1>2 DEF Rotate, Removal_OK, TypeOK
<1>3. CASE Files_Max[p] > 0
  <2>1. PICK K \in Survivors(p) : doomed' = [doomed EXCEPT ![p] = saved \ K]
    BY <1>3 DEF Rotate
  <2>2. K \subseteq saved /\ Cardinality(K) <= Files_Max[p] - 1
    BY <2>1 DEF Survivors
  <2>4. doomed'[p] = saved \ K
    BY <2>1 DEF TypeOK
  <2>3. saved \ (saved \ K) = K
    BY <2>2
  <2> QED
    BY <1>1, <2>2, <2>3, <2>4 DEF Removal_OK
<1> QED
  BY <1>2, <1>3, FilesMaxType

\* Deleting the next file of the list keeps it a list of files that exist.
LEMMA RemoveStep ==
  ASSUME TypeOK, NEW p \in Proc, Removal_OK(p), IsFiniteSet(saved), Remove_Log(p)
  PROVE  /\ Removal_OK(p)'
         /\ IsFiniteSet(saved')
         /\ Cardinality(saved') <= Cardinality(saved)
<1>1. PICK f \in doomed[p] :
        saved' = saved \ {f} /\ doomed' = [doomed EXCEPT ![p] = @ \ {f}]
  BY DEF Remove_Log
<1>2. doomed'[p] = doomed[p] \ {f}
  BY <1>1 DEF TypeOK
<1>3. saved' \ doomed'[p] = saved \ doomed[p]
  BY <1>1, <1>2
<1>4. UNCHANGED <<pc, Files_Max>> /\ pc[p] = "remove"
  BY DEF Remove_Log, config
<1>5. Removal_OK(p)'
  BY <1>1, <1>2, <1>3, <1>4 DEF Removal_OK
<1>6. saved' \subseteq saved
  BY <1>1
<1> QED
  BY <1>5, <1>6, FS_Subset

\* The renamed file takes the place that was left for it.
LEMMA RenameStep ==
  ASSUME TypeOK, NEW p \in Proc, Removal_OK(p), IsFiniteSet(saved),
         Rename_Current(p)
  PROVE  /\ Removal_OK(p)'
         /\ IsFiniteSet(saved')
         /\ Files_Max[p] > 0 => Cardinality(saved') <= Files_Max[p]
<1> DEFINE kept == {f \in saved : f.label # label[p]}
           new  == [label |-> label[p], seq |-> rotations + 1,
                    size |-> current.size, mtime |-> current.mtime,
                    lines |-> current.lines]
<1>1. saved' = kept \union {new} /\ doomed[p] = {} /\ pc[p] = "remove"
  BY DEF Rename_Current
<1>2. kept \subseteq saved
  OBVIOUS
<1> HIDE DEF kept, new
<1>3. IsFiniteSet(kept) /\ Cardinality(kept) <= Cardinality(saved)
  BY <1>2, FS_Subset
<1>4. /\ IsFiniteSet(saved')
      /\ Cardinality(saved') <= Cardinality(kept) + 1
  <2>1. Cardinality(kept) \in Nat
    BY <1>3, FS_CardinalityType
  <2>2. /\ IsFiniteSet(kept \union {new})
        /\ Cardinality(kept \union {new}) =
             IF new \in kept THEN Cardinality(kept) ELSE Cardinality(kept) + 1
    BY <1>3, FS_AddElement
  <2> QED
    BY <1>1, <2>1, <2>2
<1>5. Files_Max[p] > 0 => Cardinality(saved) <= Files_Max[p] - 1
  <2>1. saved \ {} = saved
    OBVIOUS
  <2> QED
    BY <1>1, <2>1 DEF Removal_OK
<1>6. Files_Max[p] > 0 => Cardinality(saved') <= Files_Max[p]
  BY <1>3, <1>4, <1>5, FilesMaxType, FS_CardinalityType
<1>7. doomed'[p] = {} /\ pc'[p] = "reopen"
  BY DEF Rename_Current, End_Rotate, Goto, TypeOK
<1> QED
  BY <1>4, <1>6, <1>7 DEF Removal_OK

\* Only a rename of "current" counts as a rotation.
LEMMA RotationsCounted ==
  ASSUME NEW p \in Proc, rotations' # rotations,
         Call(p) \/ Step(p) \/ Kill(p) \/ Restart(p)
  PROVE  Rename_Current(p)
<1>1. CASE Open(p)
  BY <1>1 DEF Open, directory
<1>2. CASE Close(p)
  BY <1>2 DEF Close, directory
<1>3. CASE Set_Maximum_Saved_Files(p)
  BY <1>3 DEF Set_Maximum_Saved_Files, directory
<1>4. CASE Set_Maximum_File_Size(p)
  BY <1>4 DEF Set_Maximum_File_Size, directory
<1>5. CASE Set_Unlimited_File_Size(p)
  BY <1>5 DEF Set_Unlimited_File_Size, directory
<1>6. CASE Write(p)
  BY <1>6 DEF Write, directory
<1>7. CASE Write_Refused(p)
  BY <1>7 DEF Write_Refused, directory
<1>8. CASE Push_Fails(p)
  BY <1>8 DEF Push_Fails, directory
<1>9. CASE Lock_Directory(p)
  BY <1>9 DEF Lock_Directory, directory
<1>10. CASE Create_Fails(p)
  BY <1>10 DEF Create_Fails, directory
<1>11. CASE Set_Lock(p)
  BY <1>11 DEF Set_Lock, directory
<1>12. CASE Set_Lock_Fails(p)
  BY <1>12 DEF Set_Lock_Fails, directory
<1>13. CASE Open_Current(p)
  BY <1>13 DEF Open_Current
<1>14. CASE Open_Current_Fails(p)
  BY <1>14 DEF Open_Current_Fails, directory
<1>15. CASE Fit(p)
  BY <1>15 DEF Fit, directory
<1>16. CASE Exit_Loop(p)
  BY <1>16 DEF Exit_Loop, directory
<1>17. CASE Write_Chunk(p)
  BY <1>17 DEF Write_Chunk
<1>18. CASE Write_Rest(p)
  BY <1>18 DEF Write_Rest
<1>19. CASE Write_Fails(p)
  BY <1>19 DEF Write_Fails
<1>20. CASE Rotate(p)
  BY <1>20 DEF Rotate, directory
<1>21. CASE Remove_Log(p)
  BY <1>21 DEF Remove_Log
<1>22. CASE Remove_Log_Fails(p)
  BY <1>22 DEF Remove_Log_Fails, directory
<1>23. CASE Rename_Current_Fails(p)
  BY <1>23 DEF Rename_Current_Fails, directory
<1>24. CASE Unlock(p)
  BY <1>24 DEF Unlock, directory
<1>25. CASE Handler(p)
  BY <1>25 DEF Handler, directory
<1>26. CASE Kill(p)
  BY <1>26 DEF Kill
<1>27. CASE Restart(p)
  BY <1>27 DEF Restart, directory
<1> QED
  BY <1>1, <1>2, <1>3, <1>4, <1>5, <1>6, <1>7, <1>8, <1>9, <1>10, <1>11, <1>12,
    <1>13, <1>14, <1>15, <1>16, <1>17, <1>18, <1>19, <1>20, <1>21, <1>22,
    <1>23, <1>24, <1>25, <1>26, <1>27 DEF Call, Step

\* The list and the bound survive every step of every process: nobody else
\* touches the saved files between the listing and the rename.
LEMMA RotationStep ==
  ASSUME TypeOK, LockInv, RotationInv, NEW p \in Proc,
         Call(p) \/ Step(p) \/ Kill(p) \/ Restart(p)
  PROVE  /\ RotationInv'
         /\ rotations' # rotations => Rename_Current(p)
<1>1. IsFiniteSet(saved) /\ Removal_OK(p)
  BY DEF RotationInv
<1>2. Removal_OK(p)'
  BY <1>1, QuietStep, RotateStep, RemoveStep, RenameStep
<1>3. \A q \in Proc \ {p} : Removal_OK(q)'
  <2> SUFFICES ASSUME NEW q \in Proc, q # p PROVE Removal_OK(q)'
    OBVIOUS
  <2>1. UNCHANGED Own(q)
    BY OthersUnchanged
  <2>2. CASE pc[q] = "remove"
    <3>1. UNCHANGED saved
      BY <2>2, OnlyOwnerWrites
      DEF LockInv, Inside, Critical, Rotating, directory
    <3> QED
      BY <2>1, <3>1 DEF RotationInv, Removal_OK, Own
  <2>3. CASE pc[q] # "remove"
    BY <2>1, <2>3 DEF RotationInv, Removal_OK, Own
  <2> QED
    BY <2>2, <2>3
<1>4. IsFiniteSet(saved')
  BY <1>1, QuietStep, RotateStep, RemoveStep, RenameStep
<1>5. SavedFilesBounded'
  <2> SUFFICES ASSUME 0 \notin Files_In_Use
               PROVE  \E n \in Files_In_Use : Cardinality(saved') <= n
    BY DEF SavedFilesBounded, Files_In_Use
  <2>1. PICK n \in Files_In_Use : Cardinality(saved) <= n
    BY DEF RotationInv, SavedFilesBounded
  <2>2. n \in Nat
    BY FilesAssumption DEF Files_In_Use
  <2>3. CASE Rename_Current(p)
    BY <1>1, <2>3, RenameStep, FilesMaxType
  <2>4. CASE ~Rename_Current(p)
    <3>1. Cardinality(saved') <= Cardinality(saved)
      BY <1>1, <2>4, QuietStep, RotateStep, RemoveStep, FS_CardinalityType
    <3> QED
      BY <1>1, <1>4, <2>1, <2>2, <3>1, FS_CardinalityType
  <2> QED
    BY <2>3, <2>4
<1>6. rotations' # rotations => Rename_Current(p)
  BY RotationsCounted
<1> QED
  BY <1>2, <1>3, <1>4, <1>5, <1>6 DEF RotationInv

\* The list of Rotate_Remove_Old is never stale, and the bound holds.
LEMMA RotationInvariant == Spec => [](TypeOK /\ LockInv /\ RotationInv)
<1>1. Init => RotationInv
  <2> SUFFICES ASSUME Init PROVE RotationInv
    OBVIOUS
  <2>1. IsFiniteSet(saved) /\ Cardinality(saved) = 0
    BY FS_EmptySet DEF Init
  <2>2. \A p \in Proc : Removal_OK(p)
    BY DEF Init, Removal_OK
  <2>3. SavedFilesBounded
    BY <2>1, FilesAssumption DEF SavedFilesBounded, Files_In_Use
  <2> QED
    BY <2>1, <2>2, <2>3 DEF RotationInv
<1>2. TypeOK /\ LockInv /\ RotationInv /\ [Next]_vars => RotationInv'
  <2> SUFFICES ASSUME TypeOK, LockInv, RotationInv, [Next]_vars PROVE RotationInv'
    OBVIOUS
  <2>1. CASE Next
    <3>1. PICK p \in Proc : Call(p) \/ Step(p) \/ Kill(p) \/ Restart(p)
      BY <2>1 DEF Next
    <3> QED
      BY <3>1, RotationStep
  <2>2. CASE UNCHANGED vars
    BY <2>2
    DEF vars, directory, config, plan, RotationInv, Removal_OK, SavedFilesBounded
  <2> QED
    BY <2>1, <2>2
<1> QED
  BY <1>1, <1>2, TypeAndLock, PTL DEF Spec

\* Rotate_Remove_Old never comes to a file that has gone since it was listed.
THEOREM ListedFiles == Spec => []ListedFilesExist
<1>1. RotationInv => ListedFilesExist
  BY DEF RotationInv, Removal_OK, ListedFilesExist
<1> QED
  BY <1>1, RotationInvariant, PTL

\* The number of saved files stays bounded through failures and crashes.
THEOREM SavedFiles == Spec => []SavedFilesBounded
<1>1. RotationInv => SavedFilesBounded
  BY DEF RotationInv
<1> QED
  BY <1>1, RotationInvariant, PTL

\* A rotation brings the number of saved files under the limit of the process
\* that rotates.
THEOREM FilesMaxKept == Spec => RotationKeepsFilesMax
<1>1. TypeOK /\ LockInv /\ RotationInv /\ [Next]_vars =>
        [\A p \in Proc : lock_owner = p /\ rotations' # rotations /\ Files_Max[p] > 0
           => Cardinality(saved') <= Files_Max[p]]_vars
  <2> SUFFICES ASSUME TypeOK, LockInv, RotationInv, Next, NEW p \in Proc,
                      lock_owner = p, rotations' # rotations, Files_Max[p] > 0
               PROVE  Cardinality(saved') <= Files_Max[p]
    OBVIOUS
  <2>1. PICK q \in Proc : Call(q) \/ Step(q) \/ Kill(q) \/ Restart(q)
    BY DEF Next
  <2>2. Rename_Current(q)
    BY <2>1, RotationsCounted
  <2>3. q = p
    BY <2>1, OnlyOwnerWrites DEF directory
  <2> QED
    BY <2>2, <2>3, RenameStep DEF RotationInv
<1> QED
  BY <1>1, RotationInvariant, PTL DEF Spec, RotationKeepsFilesMax

-----------------------------------------------------------------------------
(* Old files go first, if modification times can tell two rotations apart.  *)

\* The clock moves from one rotation to the next by what modification times
\* show.
Spread_Clock == \A d \in Clock_Steps : d >= Grain

\* "current" has just been created or written to.
Written_Now == current'.exists /\ current'.mtime = Now

\* Modification times have the order of rotations, and the saved files are
\* older than "current", or than the next one.
Order_OK ==
  /\ \A f \in saved : f.seq <= rotations
  /\ \A f, g \in saved : f.seq = g.seq => f = g
  /\ \A f, g \in saved : f.seq < g.seq => f.mtime < g.mtime
  /\ current.exists => current.mtime <= Now
  /\ \A f \in saved : f.mtime < IF current.exists THEN current.mtime ELSE Now

\* Rotate has moved the clock away from "current", and the files that are not on
\* its list are Files_Max - 1, none of them older than one that is.
Old_First(p) ==
  /\ pc[p] \in Writing \union {"rotate", "remove"} => current.exists
  /\ pc[p] = "remove" => current.mtime < Now
  /\ pc[p] = "remove" /\ doomed[p] # {} =>
       /\ Files_Max[p] > 0
       /\ Cardinality(saved \ doomed[p]) = Files_Max[p] - 1
       /\ \A f \in saved \ doomed[p], g \in doomed[p] : f.mtime >= g.mtime

OrderInv == Order_OK /\ \A p \in Proc : Old_First(p)

LEMMA NowAdvances ==
  ASSUME TypeOK, Spread_Clock, NEW d \in Clock_Steps, clock' = clock + d
  PROVE  Now' > Now
<1>1. clock \in Int /\ d \in Int /\ Grain \in Nat /\ Grain > 0 /\ d >= Grain
  BY EnvironmentAssumption DEF TypeOK, Spread_Clock
<1> DEFINE q == clock \div Grain
           r == (clock + d) \div Grain
<1>2. q \in Int /\ Grain * q <= clock /\ clock < Grain * q + Grain
  BY <1>1
<1>3. r \in Int /\ Grain * r <= clock + d /\ clock + d < Grain * r + Grain
  BY <1>1
<1>4. r > q
  <2> HIDE DEF q, r
  <2> SUFFICES ASSUME r <= q PROVE FALSE
    BY <1>2, <1>3
  <2>1. Grain * r <= Grain * q
    BY <1>1, <1>2, <1>3
  <2>2. Grain * r \in Int /\ Grain * q \in Int
    BY <1>1, <1>2, <1>3
  <2> QED
    BY <1>1, <1>2, <1>3, <2>1, <2>2
<1> QED
  BY <1>4 DEF Now

LEMMA TearNow ==
  ASSUME NEW p \in Proc, Tear_Line(p)
  PROVE  Written_Now
<1>1. PICK e \in 0..data[p].length, k \in Torn : Append_Line(New_Line(p, e, FALSE), k)
  BY DEF Tear_Line
<1> QED
  BY <1>1 DEF Append_Line, Written_Now

\* What a step may do to the files and to the clock.
LEMMA FileSteps ==
  ASSUME TypeOK, NEW p \in Proc, Call(p) \/ Step(p) \/ Kill(p) \/ Restart(p)
  PROVE  \/ UNCHANGED <<directory, clock>>
         \/ Written_Now /\ UNCHANGED <<saved, rotations, clock>>
         \/ Rotate(p) \/ Remove_Log(p) \/ Rename_Current(p)
<1>1. CASE Open(p)
  BY <1>1
     DEF Open, Leave, Context_At_Rest, directory, env, config, request, plan
<1>2. CASE Close(p)
  BY <1>2
     DEF Close, Leave, Released, directory, env, config, request, plan
<1>3. CASE Set_Maximum_Saved_Files(p)
  BY <1>3
     DEF Set_Maximum_Saved_Files, directory, env, handles, request, plan
<1>4. CASE Set_Maximum_File_Size(p)
  BY <1>4
     DEF Set_Maximum_File_Size, directory, env, handles, request, plan
<1>5. CASE Set_Unlimited_File_Size(p)
  BY <1>5
     DEF Set_Unlimited_File_Size, directory, env, handles, request, plan
<1>6. CASE Write(p)
  BY <1>6
     DEF Write, Context_At_Rest, Have_Directory_Lock, directory, env, config,
         handles, plan
<1>7. CASE Write_Refused(p)
  BY <1>7
     DEF Write_Refused, Leave, directory, env, config, handles, request, plan
<1>8. CASE Push_Fails(p)
  BY <1>8
     DEF Push_Fails, Raise, directory, env, config, handles, request, plan
<1>9. CASE Lock_Directory(p)
  BY <1>9
     DEF Lock_Directory, Goto, directory, env, config, request, plan
<1>10. CASE Create_Fails(p)
  BY <1>10
     DEF Create_Fails, Raise, directory, env, config, request, plan
<1>11. CASE Set_Lock(p)
  BY <1>11
     DEF Set_Lock, Goto, directory, env, config, handles, request, plan
<1>12. CASE Set_Lock_Fails(p)
  BY <1>12
     DEF Set_Lock_Fails, Abandon_Lock, Pop, Raise, directory, env, config, request,
         plan
<1>13. CASE Open_Current(p)
  BY <1>13 DEF Open_Current, New_File, Written_Now, directory, env
<1>14. CASE Open_Current_Fails(p)
  BY <1>14
     DEF Open_Current_Fails, Raise, directory, env, config, handles, request, plan
<1>15. CASE Fit(p)
  BY <1>15
     DEF Fit, Goto, Raise, directory, env, config, request, plan
<1>16. CASE Exit_Loop(p)
  BY <1>16
     DEF Exit_Loop, Goto, directory, env, config, handles, request, plan
<1>17. CASE Write_Chunk(p)
  <2>1. Written_Now
    BY <1>17 DEF Write_Chunk, Append_Line, Written_Now
  <2> QED
    BY <1>17, <2>1 DEF Write_Chunk, env
<1>18. CASE Write_Rest(p)
  <2>1. Written_Now \/ UNCHANGED current
    <3>1. CASE Something_To_Write(p)
      <4>1. Append_Line(New_Line(p, data[p].length, TRUE), Line_Length(p, data[p].length))
        BY <1>18, <3>1 DEF Write_Rest
      <4> QED
        BY <4>1 DEF Append_Line, Written_Now
    <3>2. CASE ~Something_To_Write(p)
      BY <1>18, <3>2 DEF Write_Rest
    <3> QED
      BY <3>1, <3>2
  <2> QED
    BY <1>18, <2>1 DEF Write_Rest, directory, env
<1>19. CASE Write_Fails(p)
  <2>1. Written_Now \/ UNCHANGED current
    BY <1>19, TearNow DEF Write_Fails
  <2> QED
    BY <1>19, <2>1 DEF Write_Fails, directory, env
<1>20. CASE Rotate(p)
  BY <1>20
<1>21. CASE Remove_Log(p)
  BY <1>21
<1>22. CASE Remove_Log_Fails(p)
  BY <1>22
     DEF Remove_Log_Fails, Raise, End_Rotate, directory, env, config, handles,
         request
<1>23. CASE Rename_Current(p)
  BY <1>23
<1>24. CASE Rename_Current_Fails(p)
  BY <1>24
     DEF Rename_Current_Fails, Raise, End_Rotate, directory, env, config, handles,
         request
<1>25. CASE Unlock(p)
  BY <1>25
     DEF Unlock, Unlock_Directory, Pop, Raise, Return, Leave, Released, directory,
         env, config, plan
<1>26. CASE Handler(p)
  BY <1>26
     DEF Handler, Handler_Asserts, Unlock_Directory, Pop, Return, Leave, Released,
         Have_Directory_Lock, directory, env, config, plan
<1>27. CASE Kill(p)
  <2>1. Written_Now \/ UNCHANGED current
    BY <1>27, TearNow DEF Kill
  <2> QED
    BY <1>27, <2>1 DEF Kill, directory
<1>28. CASE Restart(p)
  BY <1>28
     DEF Restart, Goto, directory, env, handles, request, plan
<1> QED
  BY <1>1, <1>2, <1>3, <1>4, <1>5, <1>6, <1>7, <1>8, <1>9, <1>10, <1>11, <1>12,
    <1>13, <1>14, <1>15, <1>16, <1>17, <1>18, <1>19, <1>20, <1>21, <1>22,
    <1>23, <1>24, <1>25, <1>26, <1>27, <1>28 DEF Call, Step

LEMMA ListedOldFirst ==
  ASSUME Spread_Clock, TypeOK, NEW p \in Proc, Order_OK, Old_First(p), Rotate(p)
  PROVE  Old_First(p)'
<1>1. UNCHANGED <<current, saved, Files_Max>> /\ pc[p] = "rotate" /\ pc'[p] = "remove"
  BY DEF Rotate, directory, config, Goto, TypeOK
<1>2. Now' > Now /\ current.mtime \in Int /\ Now \in Int /\ Now' \in Int
  <2>1. PICK d \in Clock_Steps : clock' = clock + d
    BY DEF Rotate
  <2>2. clock' \in Int
    BY <2>1, EnvironmentAssumption DEF TypeOK
  <2>3. Now' \in Int
    BY <2>2, EnvironmentAssumption DEF Now
  <2> QED
    BY <2>1, <2>3, NowAdvances, NowIsInt DEF TypeOK, Current_File
<1>3. current.exists /\ current.mtime < Now'
  BY <1>1, <1>2 DEF Old_First, Order_OK
<1>4. ASSUME doomed'[p] # {}
      PROVE  /\ Files_Max[p] > 0
             /\ Cardinality(saved \ doomed'[p]) = Files_Max[p] - 1
             /\ \A f \in saved \ doomed'[p], g \in doomed'[p] : f.mtime >= g.mtime
  <2>1. Files_Max[p] > 0
    BY <1>4 DEF Rotate, TypeOK
  <2>2. PICK K \in Survivors(p) : doomed'[p] = saved \ K
    BY <2>1 DEF Rotate, TypeOK
  <2>3. K \subseteq saved /\ K # saved
    BY <1>4, <2>2 DEF Survivors
  <2>4. saved \ (saved \ K) = K
    BY <2>3
  <2> QED
    BY <2>1, <2>2, <2>3, <2>4 DEF Survivors
<1> QED
  BY <1>1, <1>3, <1>4 DEF Old_First

LEMMA RemovedOldFirst ==
  ASSUME TypeOK, NEW p \in Proc, Old_First(p), Remove_Log(p)
  PROVE  Old_First(p)'
<1>1. PICK f \in doomed[p] :
        saved' = saved \ {f} /\ doomed' = [doomed EXCEPT ![p] = @ \ {f}]
  BY DEF Remove_Log
<1>2. doomed'[p] = doomed[p] \ {f}
  BY <1>1 DEF TypeOK
<1>3. saved' \ doomed'[p] = saved \ doomed[p]
  BY <1>1, <1>2
<1>4. UNCHANGED <<current, clock, pc, Files_Max>> /\ pc[p] = "remove"
  BY DEF Remove_Log, config, env
<1>5. Now' = Now
  BY <1>4 DEF Now
<1> QED
  BY <1>1, <1>2, <1>3, <1>4, <1>5 DEF Old_First

\* A process keeps to the order by its own steps,
LEMMA RemovalOwnStep ==
  ASSUME Spread_Clock, TypeOK, NEW p \in Proc, Order_OK, Old_First(p),
         Call(p) \/ Step(p) \/ Kill(p) \/ Restart(p)
  PROVE  Old_First(p)'
<1>1. CASE Open(p)
  BY <1>1
     DEF Open, Leave, Context_At_Rest, directory, env, config, request, plan,
         Old_First, Writing, TypeOK
<1>2. CASE Close(p)
  BY <1>2
     DEF Close, Leave, Released, directory, env, config, request, plan, Old_First,
         Writing, TypeOK
<1>3. CASE Set_Maximum_Saved_Files(p)
  BY <1>3
     DEF Set_Maximum_Saved_Files, directory, env, handles, request, plan, Old_First,
         Writing, TypeOK
<1>4. CASE Set_Maximum_File_Size(p)
  BY <1>4
     DEF Set_Maximum_File_Size, directory, env, handles, request, plan, Old_First,
         Writing, TypeOK
<1>5. CASE Set_Unlimited_File_Size(p)
  BY <1>5
     DEF Set_Unlimited_File_Size, directory, env, handles, request, plan, Old_First,
         Writing, TypeOK
<1>6. CASE Write(p)
  BY <1>6
     DEF Write, Context_At_Rest, Have_Directory_Lock, directory, env, config,
         handles, plan, Old_First, Writing, TypeOK
<1>7. CASE Write_Refused(p)
  BY <1>7
     DEF Write_Refused, Leave, directory, env, config, handles, request, plan,
         Old_First, Writing, TypeOK
<1>8. CASE Push_Fails(p)
  BY <1>8
     DEF Push_Fails, Raise, directory, env, config, handles, request, plan,
         Old_First, Writing, TypeOK
<1>9. CASE Lock_Directory(p)
  BY <1>9
     DEF Lock_Directory, Goto, directory, env, config, request, plan, Old_First,
         Writing, TypeOK
<1>10. CASE Create_Fails(p)
  BY <1>10
     DEF Create_Fails, Raise, directory, env, config, request, plan, Old_First,
         Writing, TypeOK
<1>11. CASE Set_Lock(p)
  BY <1>11
     DEF Set_Lock, Goto, directory, env, config, handles, request, plan, Old_First,
         Writing, TypeOK
<1>12. CASE Set_Lock_Fails(p)
  BY <1>12
     DEF Set_Lock_Fails, Abandon_Lock, Pop, Raise, directory, env, config, request,
         plan, Old_First, Writing, TypeOK
<1>13. CASE Open_Current(p)
  BY <1>13 DEF Open_Current, New_File, Goto, env, config, request, plan, Old_First,
     Writing, TypeOK
<1>14. CASE Open_Current_Fails(p)
  BY <1>14
     DEF Open_Current_Fails, Raise, directory, env, config, handles, request, plan,
         Old_First, Writing, TypeOK
<1>15. CASE Fit(p)
  BY <1>15
     DEF Fit, Goto, Raise, directory, env, config, request, plan, Old_First,
         Writing, TypeOK
<1>16. CASE Exit_Loop(p)
  BY <1>16
     DEF Exit_Loop, Goto, directory, env, config, handles, request, plan, Old_First,
         Writing, TypeOK
<1>17. CASE Write_Chunk(p)
  BY <1>17 DEF Write_Chunk, Append_Line, Goto, Raise, env, config, plan, Old_First,
     Writing, TypeOK
<1>18. CASE Write_Rest(p)
  BY <1>18 DEF Write_Rest, Goto, Raise, env, config, request, plan, Old_First, Writing,
     TypeOK
<1>19. CASE Write_Fails(p)
  BY <1>19 DEF Write_Fails, Raise, env, config, handles, request, plan, Old_First, Writing,
     TypeOK
<1>20. CASE Rotate(p)
  BY <1>20, ListedOldFirst
<1>21. CASE Remove_Log(p)
  BY <1>21, RemovedOldFirst
<1>22. CASE Remove_Log_Fails(p)
  BY <1>22
     DEF Remove_Log_Fails, Raise, End_Rotate, directory, env, config, handles,
         request, Old_First, Writing, TypeOK
<1>23. CASE Rename_Current(p)
  BY <1>23
     DEF Rename_Current, Goto, End_Rotate, env, config, handles, request, Old_First,
         Writing, TypeOK
<1>24. CASE Rename_Current_Fails(p)
  BY <1>24
     DEF Rename_Current_Fails, Raise, End_Rotate, directory, env, config, handles,
         request, Old_First, Writing, TypeOK
<1>25. CASE Unlock(p)
  BY <1>25
     DEF Unlock, Unlock_Directory, Pop, Raise, Return, Leave, Released, directory,
         env, config, plan, Old_First, Writing, TypeOK
<1>26. CASE Handler(p)
  BY <1>26
     DEF Handler, Handler_Asserts, Unlock_Directory, Pop, Return, Leave, Released,
         Have_Directory_Lock, directory, env, config, plan, Old_First, Writing,
         TypeOK
<1>27. CASE Kill(p)
  BY <1>27
     DEF Kill, End_Rotate, Released, config, Old_First, Writing, TypeOK
<1>28. CASE Restart(p)
  BY <1>28
     DEF Restart, Goto, directory, env, handles, request, plan, Old_First, Writing,
         TypeOK
<1> QED
  BY <1>1, <1>2, <1>3, <1>4, <1>5, <1>6, <1>7, <1>8, <1>9, <1>10, <1>11, <1>12,
    <1>13, <1>14, <1>15, <1>16, <1>17, <1>18, <1>19, <1>20, <1>21, <1>22,
    <1>23, <1>24, <1>25, <1>26, <1>27, <1>28 DEF Call, Step

\* and under the steps of the others, which neither write nor rotate.
LEMMA RemovalStep ==
  ASSUME Spread_Clock, TypeOK, LockInv, OrderInv, NEW p \in Proc,
         Call(p) \/ Step(p) \/ Kill(p) \/ Restart(p)
  PROVE  \A q \in Proc : Old_First(q)'
<1> SUFFICES ASSUME NEW q \in Proc PROVE Old_First(q)'
  OBVIOUS
<1>1. CASE q = p
  BY <1>1, RemovalOwnStep DEF OrderInv
<1>2. CASE q # p
  <2>1. UNCHANGED Own(q)
    BY <1>2, OthersUnchanged
  <2>2. ASSUME pc[q] \in Critical PROVE UNCHANGED <<current, saved, Now>>
    <3>1. lock_owner # p
      BY <1>2, <2>2 DEF LockInv, Inside
    <3>2. UNCHANGED directory
      BY <3>1, OnlyOwnerWrites
    <3>3. ~Rotate(p)
      BY <3>1 DEF LockInv, Inside, Critical, Rotating, Rotate
    <3>4. UNCHANGED clock
      BY <3>2, <3>3, FileSteps DEF directory, Rename_Current, Remove_Log, env
    <3> QED
      BY <3>2, <3>4 DEF directory, Now
  <2> QED
    BY <2>1, <2>2 DEF OrderInv, Old_First, Own, Critical, Writing, Rotating
<1> QED
  BY <1>1, <1>2

\* The order of the files is kept by every step.
LEMMA OrderStep ==
  ASSUME Spread_Clock, TypeOK, LockInv, OrderInv, NEW p \in Proc,
         Call(p) \/ Step(p) \/ Kill(p) \/ Restart(p)
  PROVE  Order_OK'
<1>1. /\ rotations \in Nat /\ Now \in Int /\ current.mtime \in Int
      /\ \A f \in saved : f.seq \in Nat /\ f.mtime \in Int
  BY NowIsInt DEF TypeOK, Current_File, Saved_File
<1>2. CASE UNCHANGED <<directory, clock>>
  BY <1>2 DEF OrderInv, Order_OK, Now, directory
<1>3. CASE Written_Now /\ UNCHANGED <<saved, rotations, clock>>
  <2>1. \A f \in saved : f.mtime < Now
    BY <1>1 DEF OrderInv, Order_OK
  <2>2. Now' = Now
    BY <1>3 DEF Now
  <2> QED
    BY <1>1, <1>3, <2>1, <2>2 DEF OrderInv, Order_OK, Written_Now
<1>4. CASE Rotate(p)
  <2>1. PICK d \in Clock_Steps : clock' = clock + d
    BY <1>4 DEF Rotate
  <2>2. Now' > Now
    BY <2>1, NowAdvances
  <2>3. Now' \in Int
    <3>1. clock' \in Int
      BY <2>1, EnvironmentAssumption DEF TypeOK
    <3> QED
      BY <3>1, EnvironmentAssumption DEF Now
  <2> QED
    BY <1>1, <1>4, <2>2, <2>3 DEF Rotate, OrderInv, Order_OK, directory
<1>5. CASE Remove_Log(p)
  <2>1. saved' \subseteq saved /\ UNCHANGED <<current, rotations, clock>>
    BY <1>5 DEF Remove_Log, env
  <2>2. Now' = Now
    BY <2>1 DEF Now
  <2> QED
    BY <2>1, <2>2 DEF OrderInv, Order_OK
<1>6. CASE Rename_Current(p)
  <2> DEFINE kept == {f \in saved : f.label # label[p]}
             new == [label |-> label[p], seq |-> rotations + 1,
                     size |-> current.size, mtime |-> current.mtime,
                     lines |-> current.lines]
  <2>1. /\ saved' = kept \union {new} /\ rotations' = rotations + 1
        /\ current' = No_File /\ UNCHANGED clock /\ pc[p] = "remove"
    BY <1>6 DEF Rename_Current, env
  <2>2. current.exists /\ current.mtime < Now
    BY <2>1 DEF OrderInv, Old_First
  <2>3. new.seq = rotations + 1 /\ new.mtime = current.mtime
    OBVIOUS
  <2>4. \A f \in kept : /\ f \in saved /\ f.seq <= rotations
                        /\ f.mtime < current.mtime
    BY <2>2 DEF OrderInv, Order_OK
  <2>5. Now' = Now /\ ~current'.exists
    BY <2>1 DEF Now, No_File
  <2> HIDE DEF kept, new
  <2>6. \A f \in saved' : f = new \/ f \in kept
    BY <2>1
  <2>7. \A f \in saved' : f.seq <= rotations'
    BY <1>1, <2>1, <2>3, <2>4, <2>6
  <2>8. \A f, g \in saved' : f.seq = g.seq => f = g
    BY <1>1, <2>3, <2>4, <2>6 DEF OrderInv, Order_OK
  <2>9. \A f, g \in saved' : f.seq < g.seq => f.mtime < g.mtime
    BY <1>1, <2>3, <2>4, <2>6 DEF OrderInv, Order_OK
  <2>10. \A f \in saved' : f.mtime < Now
    BY <1>1, <2>2, <2>3, <2>4, <2>6
  <2> QED
    BY <2>5, <2>7, <2>8, <2>9, <2>10 DEF Order_OK
<1> QED
  BY <1>2, <1>3, <1>4, <1>5, <1>6, FileSteps

\* Modification times tell the order of the saved files, and the list of
\* Rotate_Remove_Old holds the oldest.
LEMMA OrderInvariant ==
  ASSUME Spread_Clock
  PROVE  Spec => [](TypeOK /\ LockInv /\ RotationInv /\ OrderInv)
<1>1. Init => OrderInv
  BY DEF Init, OrderInv, Order_OK, Old_First, No_File, Writing
<1>2. TypeOK /\ LockInv /\ OrderInv /\ [Next]_vars => OrderInv'
  <2> SUFFICES ASSUME TypeOK, LockInv, OrderInv, [Next]_vars PROVE OrderInv'
    OBVIOUS
  <2>1. CASE Next
    <3>1. PICK p \in Proc : Call(p) \/ Step(p) \/ Kill(p) \/ Restart(p)
      BY <2>1 DEF Next
    <3> QED
      BY <3>1, RemovalStep, OrderStep DEF OrderInv
  <2>2. CASE UNCHANGED vars
    BY <2>2 DEF vars, directory, env, config, plan, OrderInv, Order_OK, Old_First, Now
  <2> QED
    BY <2>1, <2>2
<1> QED
  BY <1>1, <1>2, RotationInvariant, PTL DEF Spec

\* The files that stay are numbered after the one that goes, so it is not one of
\* the last Files_Max - 1.
LEMMA RemovedIsOld ==
  ASSUME TypeOK, NEW p \in Proc, Removal_OK(p), Order_OK, Old_First(p),
         IsFiniteSet(saved), pc[p] = "remove", NEW f \in doomed[p]
  PROVE  f.seq <= rotations - (Files_Max[p] - 1)
<1> DEFINE K == saved \ doomed[p]
           number == [g \in K |-> g.seq]
<1>1. /\ rotations \in Nat /\ f \in saved
      /\ \A g \in saved : g.seq \in Nat /\ g.mtime \in Int
  BY DEF TypeOK, Saved_File, Removal_OK
<1>2. Files_Max[p] \in Nat /\ Files_Max[p] > 0 /\ Cardinality(K) = Files_Max[p] - 1
  BY FilesMaxType DEF Old_First
<1>3. \A g \in K : g.seq \in (f.seq + 1)..rotations
  <2> SUFFICES ASSUME NEW g \in K PROVE g.seq \in (f.seq + 1)..rotations
    OBVIOUS
  <2>1. g.seq # f.seq /\ g.mtime >= f.mtime /\ g.seq <= rotations
    BY <1>1 DEF Order_OK, Old_First
  <2>2. ~(g.seq < f.seq)
    BY <1>1, <2>1 DEF Order_OK
  <2> QED
    BY <1>1, <2>1, <2>2
<1>4. number \in Injection(K, (f.seq + 1)..rotations)
  BY <1>1, <1>3 DEF Injection, IsInjective, Order_OK
<1>5. /\ IsFiniteSet((f.seq + 1)..rotations)
      /\ Cardinality((f.seq + 1)..rotations) =
           IF f.seq + 1 > rotations THEN 0 ELSE rotations - (f.seq + 1) + 1
  BY <1>1, FS_Interval, SMTT(20)
<1>6. Cardinality(K) <= Cardinality((f.seq + 1)..rotations)
  BY <1>4, <1>5, FS_Injection
<1>7. f.seq <= rotations
  BY <1>1 DEF Order_OK
<1> QED
  BY <1>1, <1>2, <1>5, <1>6, <1>7

\* Only Remove_Log deletes, and only while no rotation is counted.
LEMMA RemovedByOwner ==
  ASSUME TypeOK, LockInv, RotationInv, OrderInv, NEW p \in Proc, lock_owner = p,
         rotations' = rotations, NEW f \in saved \ saved', NEW q \in Proc,
         Call(q) \/ Step(q) \/ Kill(q) \/ Restart(q)
  PROVE  f.seq <= rotations - (Files_Max[p] - 1)
<1>1. q = p
  BY OnlyOwnerWrites DEF directory
<1>2. ~Rename_Current(q)
  <2>1. rotations # rotations + 1
    BY DEF TypeOK
  <2> QED
    BY <2>1 DEF Rename_Current
<1>3. Remove_Log(q)
  BY <1>2, FileSteps DEF directory, Rotate
<1>4. pc[p] = "remove" /\ f \in doomed[p]
  BY <1>1, <1>3 DEF Remove_Log
<1> QED
  BY <1>4, RemovedIsOld DEF RotationInv, OrderInv

\* Rotate_Remove_Old deletes none of the Files_Max - 1 files saved last, for any
\* limits that change between writes, any deletions that fail and any processes
\* that die between two of them, as long as two rotations never get the same
\* modification time.
THEOREM OldFirst ==
  ASSUME Spread_Clock
  PROVE  Spec => RemovedAreOld
<1>1. TypeOK /\ LockInv /\ RotationInv /\ OrderInv /\ [Next]_vars =>
        [\A p \in Proc : lock_owner = p /\ rotations' = rotations =>
           \A f \in saved \ saved' : f.seq <= rotations - (Files_Max[p] - 1)]_vars
  <2> SUFFICES ASSUME TypeOK, LockInv, RotationInv, OrderInv, Next, NEW p \in Proc,
                      lock_owner = p, rotations' = rotations, NEW f \in saved \ saved'
               PROVE  f.seq <= rotations - (Files_Max[p] - 1)
    OBVIOUS
  <2>1. PICK q \in Proc : Call(q) \/ Step(q) \/ Kill(q) \/ Restart(q)
    BY DEF Next
  <2> QED
    BY <2>1, RemovedByOwner
<1> QED
  BY <1>1, OrderInvariant, PTL DEF Spec, RemovedAreOld

-----------------------------------------------------------------------------
(* The saved files are the latest, if all processes keep as many.           *)

\* Every process keeps as many files as a new context does.
One_Limit == Files_Maxes \subseteq {Files_Default}

\* No saved file has a label later than the clock, and Rotate's is later than
\* all of them.
Fresh_Label(p) ==
  pc[p] = "remove" => label[p] = clock /\ \A f \in saved : f.label < clock

LatestInv ==
  /\ {f.seq : f \in saved} = (rotations - Cardinality(saved) + 1)..rotations
  /\ \A f \in saved : f.label <= clock
  /\ \A p \in Proc : Fresh_Label(p)

\* Only Rotate comes to Rotate_Remove_Old, and only Remove_Log stays there.
LEMMA Removes ==
  ASSUME TypeOK, NEW p \in Proc, pc'[p] = "remove",
         Call(p) \/ Step(p) \/ Kill(p) \/ Restart(p)
  PROVE  Rotate(p) \/ Remove_Log(p)
<1>1. ~Call(p)
  BY DEF Call, Open, Close, Set_Maximum_Saved_Files, Set_Maximum_File_Size,
         Set_Unlimited_File_Size, Write, Write_Refused, Leave, TypeOK
<1>2. ~(Push_Fails(p) \/ Lock_Directory(p) \/ Create_Fails(p))
  BY DEF Push_Fails, Lock_Directory, Create_Fails, Raise, Goto, TypeOK
<1>3. ~(Set_Lock(p) \/ Set_Lock_Fails(p))
  BY DEF Set_Lock, Set_Lock_Fails, Abandon_Lock, Raise, Goto, TypeOK
<1>4. ~(Open_Current(p) \/ Open_Current_Fails(p))
  BY DEF Open_Current, Open_Current_Fails, Raise, Goto, TypeOK
<1>5. ~(Fit(p) \/ Exit_Loop(p))
  BY DEF Fit, Exit_Loop, Raise, Goto, TypeOK
<1>6. ~(Write_Chunk(p) \/ Write_Rest(p) \/ Write_Fails(p))
  BY DEF Write_Chunk, Write_Rest, Write_Fails, Raise, Goto, TypeOK
<1>7. ~(Remove_Log_Fails(p) \/ Rename_Current(p) \/ Rename_Current_Fails(p))
  BY DEF Remove_Log_Fails, Rename_Current, Rename_Current_Fails, Raise, Goto, TypeOK
<1>8. ~(Unlock(p) \/ Handler(p))
  BY DEF Unlock, Handler, Return, Leave, Raise, TypeOK
<1>9. ~(Kill(p) \/ Restart(p))
  BY DEF Kill, Restart, Goto, TypeOK
<1> QED
  BY <1>1, <1>2, <1>3, <1>4, <1>5, <1>6, <1>7, <1>8, <1>9 DEF Step

\* While a process is inside, nobody else changes the files or reads the clock
\* for a rotation.
LEMMA OthersKeepFiles ==
  ASSUME TypeOK, LockInv, NEW p \in Proc, NEW q \in Proc, q # p, pc[q] \in Critical,
         Call(p) \/ Step(p) \/ Kill(p) \/ Restart(p)
  PROVE  UNCHANGED <<directory, clock>>
<1>1. lock_owner # p
  BY DEF LockInv, Inside
<1>2. UNCHANGED directory
  BY <1>1, OnlyOwnerWrites
<1>3. ~Rotate(p)
  BY <1>1 DEF LockInv, Inside, Critical, Rotating, Rotate
<1> QED
  BY <1>2, <1>3, FileSteps DEF directory, Rename_Current, Remove_Log, env

LEMMA RotateFresh ==
  ASSUME TypeOK, Spread_Clock, LatestInv, NEW p \in Proc, Rotate(p)
  PROVE  UNCHANGED <<saved, rotations>> /\ clock' > clock /\ label'[p] = clock'
<1>1. PICK d \in Clock_Steps : clock' = clock + d
  BY DEF Rotate
<1>2. d \in Int /\ d > 0 /\ clock \in Int
  BY EnvironmentAssumption DEF Spread_Clock, TypeOK
<1>3. label' = [label EXCEPT ![p] = clock'] /\ UNCHANGED directory
  BY DEF Rotate
<1> QED
  BY <1>1, <1>2, <1>3 DEF TypeOK, directory

\* The file that goes is the oldest: all saved files but one stay.
LEMMA OldestGoes ==
  ASSUME TypeOK, One_Limit, NEW p \in Proc, Removal_OK(p), Order_OK, Old_First(p),
         RotationInv, LatestInv, Remove_Log(p)
  PROVE  /\ {f.seq : f \in saved'} = (rotations - Cardinality(saved') + 1)..rotations
         /\ \E f \in saved : saved' = saved \ {f} /\ f.seq = rotations - Cardinality(saved) + 1
<1>1. PICK f \in doomed[p] : saved' = saved \ {f}
  BY DEF Remove_Log
<1>2. pc[p] = "remove" /\ f \in saved
  BY DEF Remove_Log, Removal_OK
<1> DEFINE n == Cardinality(saved)
<1>3. n \in Nat /\ Cardinality(saved') = n - 1
  BY <1>1, <1>2, FS_CardinalityType, FS_RemoveElement DEF RotationInv
<1>4. rotations \in Nat /\ \A g \in saved : g.seq \in Nat
  BY DEF TypeOK, Saved_File
<1>5. Files_Max[p] = Files_Default /\ Files_In_Use = {Files_Default}
  BY DEF TypeOK, One_Limit, Files_In_Use
<1>6. Files_Default \in Nat /\ Files_Default > 0 /\ n <= Files_Default
  BY <1>2, <1>5, FilesAssumption DEF Old_First, RotationInv, SavedFilesBounded
<1>7. f.seq <= rotations - (Files_Default - 1)
  BY <1>2, <1>5, RemovedIsOld DEF RotationInv
<1>8. f.seq \in (rotations - n + 1)..rotations
  BY <1>2 DEF LatestInv
<1>9. f.seq = rotations - n + 1
  BY <1>3, <1>4, <1>6, <1>7, <1>8
<1>10. {g.seq : g \in saved'} = {g.seq : g \in saved} \ {f.seq}
  BY <1>1, <1>2 DEF Order_OK
<1> HIDE DEF n
<1>11. ((rotations - n + 1)..rotations) \ {f.seq} = (rotations - (n - 1) + 1)..rotations
  BY <1>3, <1>4, <1>9
<1>12. {g.seq : g \in saved} = (rotations - n + 1)..rotations
  BY DEF LatestInv, n
<1> QED
  BY <1>1, <1>2, <1>3, <1>9, <1>10, <1>11, <1>12 DEF n

\* The renamed file is the next one, and replaces none.
LEMMA RenamedIsNext ==
  ASSUME TypeOK, NEW p \in Proc, RotationInv, LatestInv, Rename_Current(p)
  PROVE  LET new == [label |-> label[p], seq |-> rotations + 1, size |-> current.size,
                     mtime |-> current.mtime, lines |-> current.lines]
         IN  /\ saved' = saved \union {new}
             /\ new \notin saved
             /\ rotations' = rotations + 1
             /\ {f.seq : f \in saved'} = (rotations' - Cardinality(saved') + 1)..rotations'
             /\ \A f \in saved' : f.label <= clock
<1> DEFINE new == [label |-> label[p], seq |-> rotations + 1, size |-> current.size,
                   mtime |-> current.mtime, lines |-> current.lines]
           n == Cardinality(saved)
<1>1. /\ saved' = {f \in saved : f.label # label[p]} \union {new}
      /\ rotations' = rotations + 1 /\ pc[p] = "remove"
  BY DEF Rename_Current
<1>2. label[p] = clock /\ clock \in Int /\ \A f \in saved : f.label \in Int /\ f.label < clock
  BY <1>1 DEF LatestInv, Fresh_Label, TypeOK, Saved_File
<1>3. new.seq = rotations + 1 /\ new.label = label[p]
  OBVIOUS
<1> HIDE DEF new
<1>4. saved' = saved \union {new} /\ new \notin saved
  BY <1>1, <1>2, <1>3
<1>5. n \in Nat /\ Cardinality(saved') = n + 1
  BY <1>4, FS_AddElement, FS_CardinalityType DEF RotationInv
<1>6. {f.seq : f \in saved'} = {f.seq : f \in saved} \union {rotations + 1}
  BY <1>3, <1>4
<1>7. {f.seq : f \in saved} = (rotations - n + 1)..rotations
  BY DEF LatestInv
<1>8. \A f \in saved' : f.label <= clock
  BY <1>2, <1>3, <1>4
<1> HIDE DEF n
<1>9. rotations \in Nat
  BY DEF TypeOK
<1>10. rotations' = rotations + 1 /\ Cardinality(saved') = n + 1
  BY <1>1, <1>5
<1>11. ((rotations - n + 1)..rotations) \union {rotations + 1}
         = (rotations' - Cardinality(saved') + 1)..rotations'
  BY <1>5, <1>9, <1>10
<1>12. {f.seq : f \in saved'} = (rotations' - Cardinality(saved') + 1)..rotations'
  BY <1>6, <1>7, <1>11, Zenon
<1>13. saved' = saved \union {new} /\ new \notin saved /\ rotations' = rotations + 1
  BY <1>4, <1>10
<1> QED
  BY <1>8, <1>12, <1>13, Zenon DEF new

LEMMA LatestStep ==
  ASSUME Spread_Clock, One_Limit, TypeOK, LockInv, RotationInv, OrderInv, LatestInv,
         NEW p \in Proc, Call(p) \/ Step(p) \/ Kill(p) \/ Restart(p)
  PROVE  LatestInv'
<1>1. /\ {f.seq : f \in saved'} = (rotations' - Cardinality(saved') + 1)..rotations'
      /\ \A f \in saved' : f.label <= clock'
  <2>1. CASE UNCHANGED <<saved, rotations, clock>>
    BY <2>1 DEF LatestInv
  <2>2. CASE Rotate(p)
    <3>1. UNCHANGED <<saved, rotations>> /\ clock' > clock
      BY <2>2, RotateFresh
    <3>2. clock \in Int /\ clock' \in Int /\ \A f \in saved : f.label \in Int
      BY <2>2, EnvironmentAssumption DEF TypeOK, Saved_File, Rotate
    <3> QED
      BY <3>1, <3>2 DEF LatestInv
  <2>3. CASE Remove_Log(p)
    <3>1. UNCHANGED <<rotations, clock>>
      BY <2>3 DEF Remove_Log, env
    <3> QED
      BY <2>3, <3>1, OldestGoes DEF RotationInv, OrderInv, LatestInv
  <2>4. CASE Rename_Current(p)
    <3>1. UNCHANGED clock
      BY <2>4 DEF Rename_Current, env
    <3> QED
      BY <2>4, <3>1, RenamedIsNext
  <2> QED
    BY <2>1, <2>2, <2>3, <2>4, FileSteps DEF directory
<1>2. Fresh_Label(p)'
  <2> SUFFICES ASSUME pc'[p] = "remove"
               PROVE  label'[p] = clock' /\ \A f \in saved' : f.label < clock'
    BY DEF Fresh_Label
  <2>1. CASE Rotate(p)
    <3>1. UNCHANGED saved /\ clock' > clock /\ label'[p] = clock'
      BY <2>1, RotateFresh
    <3>2. clock \in Int /\ clock' \in Int /\ \A f \in saved : f.label \in Int
      BY <2>1, EnvironmentAssumption DEF TypeOK, Saved_File, Rotate
    <3> QED
      BY <3>1, <3>2 DEF LatestInv
  <2>2. CASE Remove_Log(p)
    BY <2>2 DEF Remove_Log, env, LatestInv, Fresh_Label
  <2> QED
    BY <2>1, <2>2, Removes
<1>3. ASSUME NEW q \in Proc, q # p PROVE Fresh_Label(q)'
  <2>1. UNCHANGED Own(q)
    BY <1>3, OthersUnchanged
  <2>2. pc[q] = "remove" => UNCHANGED <<directory, clock>>
    BY <1>3, OthersKeepFiles DEF Critical, Rotating
  <2> QED
    BY <2>1, <2>2 DEF Own, directory, LatestInv, Fresh_Label
<1> QED
  BY <1>1, <1>2, <1>3 DEF LatestInv

LEMMA LatestInvariant ==
  ASSUME Spread_Clock, One_Limit
  PROVE  Spec => [](TypeOK /\ LockInv /\ RotationInv /\ OrderInv /\ LatestInv)
<1>1. Init => LatestInv
  <2> SUFFICES ASSUME Init PROVE LatestInv
    OBVIOUS
  <2>1. saved = {} /\ rotations = 0 /\ Cardinality(saved) = 0
    BY FS_EmptySet DEF Init
  <2>2. (rotations - Cardinality(saved) + 1)..rotations = {}
    BY <2>1
  <2> QED
    BY <2>1, <2>2 DEF Init, LatestInv, Fresh_Label
<1>2. TypeOK /\ LockInv /\ RotationInv /\ OrderInv /\ LatestInv /\ [Next]_vars => LatestInv'
  <2> SUFFICES ASSUME TypeOK, LockInv, RotationInv, OrderInv, LatestInv, [Next]_vars
               PROVE  LatestInv'
    OBVIOUS
  <2>1. CASE Next
    <3>1. PICK p \in Proc : Call(p) \/ Step(p) \/ Kill(p) \/ Restart(p)
      BY <2>1 DEF Next
    <3> QED
      BY <3>1, LatestStep
  <2>2. CASE UNCHANGED vars
    BY <2>2 DEF vars, directory, env, plan, LatestInv, Fresh_Label
  <2> QED
    BY <2>1, <2>2
<1> QED
  BY <1>1, <1>2, OrderInvariant, PTL DEF Spec

\* The saved files are the last ones that were rotated, without a gap, whatever
\* fails and whoever is killed in the middle of a removal, if two rotations never
\* get the same modification time and all processes keep the same number of files.
THEOREM TheLatest ==
  ASSUME Spread_Clock, One_Limit
  PROVE  Spec => []SavedFilesAreTheLatest
<1>1. LatestInv => SavedFilesAreTheLatest
  BY DEF LatestInv, SavedFilesAreTheLatest
<1> QED
  BY <1>1, LatestInvariant, PTL
=============================================================================

------------------------------ MODULE Plexlog ------------------------------
(***************************************************************************)
(* Plexlog.API: several processes, each with one Plexlog_t context, append *)
(* log lines to the file "current" of one shared directory, serialised by  *)
(* an fcntl lock on the file "lock".  A write that does not fit renames    *)
(* "current" to "@<TAI64N label>", removes the saved files over the        *)
(* configured number, and splits its message over as many files as needed. *)
(*                                                                         *)
(* Abstractions.  A message is the record of its filtered widths: upto[i]  *)
(* is the length, after Filter_Character, of its first i characters.       *)
(* Time is an integer that moves by a member of Clock_Steps each time      *)
(* Rotate reads the clock; a file's modification time is that integer      *)
(* divided by Grain.  A descriptor is "invalid" (-1), "open", or "stale"   *)
(* (its number is still in the context after close()).                     *)
(***************************************************************************)
EXTENDS Integers, Sequences, FiniteSets

CONSTANTS
  Proc,           \* the processes, each with one Plexlog_t
  NoProc,         \* owner of the directory lock when nobody holds it
  Messages,       \* what Write may be called with
  PID_Digits,     \* [Proc -> 1..10], length of PID_t'Image
  Size_Maxes,     \* arguments of Set_Maximum_File_Size
  Files_Maxes,    \* arguments of Set_Maximum_Saved_Files
  Size_Default,   \* 1 MiB in the source
  Files_Default,  \* 10 in the source
  May_Unlimit,    \* does any process call Set_Unlimited_File_Size?
  Natural_Last,   \* Natural'Last, 2^31-1 in the source's compiler
  Faults,         \* the system calls that may fail
  Torn,           \* how much of a line an interrupted write may leave
  Clock_Steps,    \* how the clock may move between two rotations
  Grain,          \* granularity of file modification times
  MaxWrites,      \* bound: calls of Write per process
  MaxKills        \* bound: processes killed

Size_Min == 50

\* 1 + Label_TAI64N_Size + 1 + 10 + 1 + 7 + 1
Label_Size == 24
Message_Minimum_Length == 1 + Label_Size + 1 + 10 + 1 + 7 + 1

System_Calls == {"opendir", "push", "create", "setlk", "open", "write", "close",
                 "delete", "rename", "fchdir", "closedir", "unlk", "closelk"}

\* Lengths of the Level_Strings: "", "info"/"warn", five letters, "notice".
Level_Lengths == {0, 4, 5, 6}

\* What Filtered_Message_Length can say of the prefixes of a message: every
\* character becomes between one and four.
IsMessage(m) ==
  /\ m = [level |-> m.level, length |-> m.length, upto |-> m.upto]
  /\ m.level \in Level_Lengths
  /\ m.length \in Nat
  /\ m.upto \in [0..m.length -> Nat]
  /\ m.upto[0] = 0
  /\ \A i \in 1..m.length : m.upto[i] - m.upto[i - 1] \in {1, 2, 4}
  /\ \A i, j \in 0..m.length : i <= j => m.upto[i] <= m.upto[j]

File_Size_t == {n \in Nat : n >= Size_Min}

\* What the directory may need with Max_Files saved files of Max_Size.
Space_Requirement(Max_Files, Max_Size) == Max_Files * Max_Size + Max_Size

ASSUME ProcAssumption == NoProc \notin Proc /\ PID_Digits \in [Proc -> 1..10]
ASSUME MessagesAssumption == \A m \in Messages : IsMessage(m)
ASSUME SizesAssumption == Size_Maxes \subseteq File_Size_t /\ Size_Default \in File_Size_t
ASSUME FilesAssumption == Files_Maxes \subseteq Nat /\ Files_Default \in Nat
ASSUME EnvironmentAssumption ==
  /\ May_Unlimit \in BOOLEAN
  /\ Natural_Last \in Nat
  /\ Faults \subseteq System_Calls
  /\ Torn \subseteq Nat \ {0}
  /\ Clock_Steps \subseteq Int
  /\ Grain \in Nat \ {0}
ASSUME BoundsAssumption == MaxWrites \in Nat /\ MaxKills \in Nat

VARIABLES
  \* The log directory
  current,         \* the file "current"
  saved,           \* the files "@<label>"
  rotations,       \* history: renames of "current" so far
  lock_owner,      \* holder of the fcntl write lock on "lock"
  \* The environment
  clock,           \* the time of day
  kills,           \* processes killed so far
  \* The contexts (Plexlog_t)
  Size_Limited, Size_Max, Files_Max,
  Log_Dir_FD, Lock_FD,
  Log_File,        \* Is_Open (Log_File)
  Log_Size,
  Dir_Stack,       \* Size (Dir_Stack); 1 iff inside the log directory
  \* The calls in progress
  pc,              \* where in Write the process is
  exc,             \* the exception being handled, or the last one raised
  calls,           \* calls of Write so far
  data,            \* the message being written
  Current_Offset,  \* characters of it already in the log
  label,           \* Rotate's TAIA_Label
  doomed           \* files Rotate_Remove_Old has yet to delete

directory == <<current, saved, rotations>>
env       == <<clock, kills>>
config    == <<Size_Limited, Size_Max, Files_Max>>
handles   == <<Log_Dir_FD, Lock_FD, Log_File, Log_Size, Dir_Stack>>
request   == <<calls, data, Current_Offset>>
plan      == <<label, doomed>>

vars == <<directory, lock_owner, env, config, handles, pc, exc, request, plan>>

No_Message == [level |-> 0, length |-> 0, upto |-> [i \in 0..0 |-> 0]]

Line == [writer : Proc, call : Nat, from : Nat, to : Nat, whole : BOOLEAN]
Current_File == [exists : BOOLEAN, size : Nat, mtime : Int, lines : Seq(Line)]
Saved_File == [label : Int, seq : Nat, size : Nat, mtime : Int, lines : Seq(Line)]
Descriptor == {"invalid", "open", "stale"}
Exceptions == {"none", "Lock_Error", "Open_Error", "Rotate_Error", "Pop_Error",
               "IO_Error", "Constraint_Error", "Assertion_Error"}

\* Steps of Write made while it must hold the lock, with Log_File open or not.
Writing  == {"fit", "loop", "rest"}
Rotating == {"rotate", "remove", "reopen"}
Critical == {"open", "unlock"} \union Writing \union Rotating
Labels   == {"idle", "push", "lock", "handler", "dead"} \union Critical

No_File == [exists |-> FALSE, size |-> 0, mtime |-> 0, lines |-> << >>]

Init ==
  /\ current = No_File
  /\ saved = {}
  /\ rotations = 0
  /\ lock_owner = NoProc
  /\ clock = 0
  /\ kills = 0
  /\ Size_Limited = [p \in Proc |-> TRUE]
  /\ Size_Max = [p \in Proc |-> Size_Default]
  /\ Files_Max = [p \in Proc |-> Files_Default]
  /\ Log_Dir_FD = [p \in Proc |-> "invalid"]
  /\ Lock_FD = [p \in Proc |-> "invalid"]
  /\ Log_File = [p \in Proc |-> FALSE]
  /\ Log_Size = [p \in Proc |-> 0]
  /\ Dir_Stack = [p \in Proc |-> 0]
  /\ pc = [p \in Proc |-> "idle"]
  /\ exc = [p \in Proc |-> "none"]
  /\ calls = [p \in Proc |-> 0]
  /\ data = [p \in Proc |-> No_Message]
  /\ Current_Offset = [p \in Proc |-> 0]
  /\ label = [p \in Proc |-> 0]
  /\ doomed = [p \in Proc |-> {}]

-----------------------------------------------------------------------------
(* Control: moving on, raising into Write's handler, leaving the call.      *)

Fails(call) == call \in Faults

Goto(p, l) == pc' = [pc EXCEPT ![p] = l] /\ UNCHANGED exc

Raise(p, e) == pc' = [pc EXCEPT ![p] = "handler"] /\ exc' = [exc EXCEPT ![p] = e]

Leave(p, e) == pc' = [pc EXCEPT ![p] = "idle"] /\ exc' = [exc EXCEPT ![p] = e]

\* The parameters and locals of Write go out of scope.
Return(p, e) ==
  /\ Leave(p, e)
  /\ data' = [data EXCEPT ![p] = No_Message]
  /\ Current_Offset' = [Current_Offset EXCEPT ![p] = 0]

Have_Directory_Lock(p) == Lock_FD[p] # "invalid"

\* The assertions at the head of Open and of Write.
Context_At_Rest(p) == ~Have_Directory_Lock(p) /\ ~Log_File[p]

Released(p) == IF lock_owner = p THEN NoProc ELSE lock_owner

-----------------------------------------------------------------------------
(* The calls that do not write.                                             *)

Open(p) ==
  /\ pc[p] = "idle"
  /\ \/ /\ ~Context_At_Rest(p)
        /\ Leave(p, "Assertion_Error")
        /\ UNCHANGED Log_Dir_FD
     \/ /\ Context_At_Rest(p)
        /\ Log_Dir_FD' = [Log_Dir_FD EXCEPT ![p] = "open"]
        /\ Leave(p, "none")
     \/ /\ Context_At_Rest(p)
        /\ Fails("opendir")
        /\ Log_Dir_FD' = [Log_Dir_FD EXCEPT ![p] = "invalid"]
        /\ Leave(p, "Open_Error")
  /\ UNCHANGED <<directory, lock_owner, env, config, Lock_FD, Log_File, Log_Size,
                 Dir_Stack, request, plan>>

Set_Maximum_Saved_Files(p) ==
  /\ pc[p] = "idle"
  /\ \E n \in Files_Maxes : Files_Max' = [Files_Max EXCEPT ![p] = n]
  /\ UNCHANGED <<directory, lock_owner, env, Size_Limited, Size_Max, handles, pc,
                 exc, request, plan>>

Set_Maximum_File_Size(p) ==
  /\ pc[p] = "idle"
  /\ \E n \in Size_Maxes : Size_Max' = [Size_Max EXCEPT ![p] = n]
  /\ Size_Limited' = [Size_Limited EXCEPT ![p] = TRUE]
  /\ UNCHANGED <<directory, lock_owner, env, Files_Max, handles, pc, exc, request,
                 plan>>

Set_Unlimited_File_Size(p) ==
  /\ pc[p] = "idle"
  /\ May_Unlimit
  /\ Size_Limited' = [Size_Limited EXCEPT ![p] = FALSE]
  /\ UNCHANGED <<directory, lock_owner, env, Size_Max, Files_Max, handles, pc, exc,
                 request, plan>>

\* Closes the descriptors and keeps their numbers; a lock still held through
\* Lock_FD goes with it.
Close(p) ==
  /\ pc[p] = "idle"
  /\ Log_Dir_FD' = [Log_Dir_FD EXCEPT ![p] = IF @ = "open" THEN "stale" ELSE @]
  /\ Lock_FD' = [Lock_FD EXCEPT ![p] = IF @ = "open" THEN "stale" ELSE @]
  /\ lock_owner' = IF Lock_FD[p] = "open" THEN Released(p) ELSE lock_owner
  /\ Leave(p, "none")
  /\ UNCHANGED <<directory, env, config, Log_File, Log_Size, Dir_Stack, request, plan>>

-----------------------------------------------------------------------------
(* Write: taking and giving back the directory.                             *)

Write(p) ==
  /\ pc[p] = "idle"
  /\ calls[p] < MaxWrites
  /\ Context_At_Rest(p)
  /\ \E m \in Messages : data' = [data EXCEPT ![p] = m]
  /\ calls' = [calls EXCEPT ![p] = @ + 1]
  /\ Current_Offset' = [Current_Offset EXCEPT ![p] = 0]
  /\ pc' = [pc EXCEPT ![p] = "push"]
  /\ exc' = [exc EXCEPT ![p] = "none"]
  /\ UNCHANGED <<directory, lock_owner, env, config, handles, plan>>

\* Write's assertions fail before its handler is in force.
Write_Refused(p) ==
  /\ pc[p] = "idle"
  /\ ~Context_At_Rest(p)
  /\ Leave(p, "Assertion_Error")
  /\ UNCHANGED <<directory, lock_owner, env, config, handles, request, plan>>

\* Dir_Stack.Pop back to the working directory of the caller.  fchdir fails
\* before, close after, the entry is gone.
Pop(p, ok) ==
  \/ ok /\ Dir_Stack' = [Dir_Stack EXCEPT ![p] = @ - 1]
  \/ ~ok /\ Fails("fchdir") /\ UNCHANGED Dir_Stack
  \/ ~ok /\ Fails("closedir") /\ Dir_Stack' = [Dir_Stack EXCEPT ![p] = @ - 1]

\* Lock_Directory's handler for Lock_Error: close (Lock_FD), Pop, raise again.
Abandon_Lock(p) ==
  \/ Pop(p, TRUE) /\ Raise(p, "Lock_Error")
  \/ Pop(p, FALSE) /\ Raise(p, "Pop_Error")

Push_Fails(p) ==
  /\ pc[p] = "push"
  /\ Dir_Stack[p] = 1 \/ Log_Dir_FD[p] # "open" \/ Fails("push")
  /\ Raise(p, "Lock_Error")
  /\ UNCHANGED <<directory, lock_owner, env, config, handles, request, plan>>

\* Push_FD, then Open_Create ("lock").
Lock_Directory(p) ==
  /\ pc[p] = "push"
  /\ Dir_Stack[p] = 0
  /\ Log_Dir_FD[p] = "open"
  /\ Dir_Stack' = [Dir_Stack EXCEPT ![p] = @ + 1]
  /\ Lock_FD' = [Lock_FD EXCEPT ![p] = "open"]
  /\ Goto(p, "lock")
  /\ UNCHANGED <<directory, lock_owner, env, config, Log_Dir_FD, Log_File, Log_Size,
                 request, plan>>

\* The push succeeds, the open of "lock" does not, and the push is undone,
\* unless undoing it fails as well.
Create_Fails(p) ==
  /\ pc[p] = "push"
  /\ Dir_Stack[p] = 0
  /\ Log_Dir_FD[p] = "open"
  /\ Fails("create")
  /\ \/ Raise(p, "Lock_Error") /\ UNCHANGED Dir_Stack
     \/ /\ Fails("closedir")
        /\ Raise(p, "Pop_Error") /\ UNCHANGED Dir_Stack
     \/ /\ Fails("fchdir")
        /\ Raise(p, "Pop_Error") /\ Dir_Stack' = [Dir_Stack EXCEPT ![p] = @ + 1]
  /\ UNCHANGED <<directory, lock_owner, env, config, Log_Dir_FD, Lock_FD, Log_File,
                 Log_Size, request, plan>>

\* Mutant of Set_Lock: F_SETLK, with its result ignored.
Bug_Set_Lock(p) ==
  /\ pc[p] = "lock"
  /\ lock_owner' = IF lock_owner = NoProc THEN p ELSE lock_owner
  /\ Goto(p, "open")
  /\ UNCHANGED <<directory, env, config, handles, request, plan>>

\* fcntl (F_SETLKW) returns with the lock.
Set_Lock(p) ==
  /\ pc[p] = "lock"
  /\ lock_owner = NoProc
  /\ lock_owner' = p
  /\ Goto(p, "open")
  /\ UNCHANGED <<directory, env, config, handles, request, plan>>

\* fcntl (F_SETLKW) returns -1 (interrupted, no locks left).  The descriptor
\* is closed and its number stays in Lock_FD.
Set_Lock_Fails(p) ==
  /\ pc[p] = "lock"
  /\ Fails("setlk")
  /\ Lock_FD' = [Lock_FD EXCEPT ![p] = "stale"]
  /\ Abandon_Lock(p)
  /\ UNCHANGED <<directory, lock_owner, env, config, Log_Dir_FD, Log_File, Log_Size,
                 request, plan>>

\* Pop, unlock, close, reset: in that order, stopping at the first failure.
Unlock_Directory(p, ok) ==
  \/ /\ ok
     /\ Pop(p, TRUE)
     /\ Lock_FD[p] = "open"
     /\ Lock_FD' = [Lock_FD EXCEPT ![p] = "invalid"]
     /\ lock_owner' = Released(p)
  \/ /\ ~ok
     /\ Pop(p, FALSE)
     /\ UNCHANGED <<Lock_FD, lock_owner>>
  \/ /\ ~ok
     /\ Pop(p, TRUE)
     /\ Lock_FD[p] # "open" \/ Fails("unlk")
     /\ UNCHANGED <<Lock_FD, lock_owner>>
  \/ /\ ~ok
     /\ Pop(p, TRUE)
     /\ Lock_FD[p] = "open"
     /\ Fails("closelk")
     /\ Lock_FD' = [Lock_FD EXCEPT ![p] = "stale"]
     /\ lock_owner' = Released(p)

Unlock(p) ==
  /\ pc[p] = "unlock"
  /\ \/ Unlock_Directory(p, TRUE) /\ Return(p, "none")
     \/ /\ Unlock_Directory(p, FALSE)
        /\ Raise(p, "Lock_Error")
        /\ UNCHANGED <<data, Current_Offset>>
  /\ UNCHANGED <<directory, env, config, Log_Dir_FD, Log_File, Log_Size, calls, plan>>

\* Mutant of Handler_Asserts: Unlock_Directory does not look at the stack.
Bug_Handler_Asserts(p) == ~Log_File[p]

\* Write's "when others": assert that Log_File is closed, give the directory
\* back if it is held, raise again.
Handler_Asserts(p) == ~Log_File[p] /\ (Have_Directory_Lock(p) => Dir_Stack[p] > 0)

\* Mutant of Handler: raises again without giving the directory back.
Bug_Handler(p) ==
  /\ pc[p] = "handler"
  /\ Return(p, exc[p])
  /\ UNCHANGED <<directory, lock_owner, env, config, handles, calls, plan>>

Handler(p) ==
  /\ pc[p] = "handler"
  /\ \/ /\ ~Handler_Asserts(p)
        /\ Return(p, "Assertion_Error")
        /\ UNCHANGED <<lock_owner, Lock_FD, Dir_Stack>>
     \/ /\ Handler_Asserts(p)
        /\ ~Have_Directory_Lock(p)
        /\ Return(p, exc[p])
        /\ UNCHANGED <<lock_owner, Lock_FD, Dir_Stack>>
     \/ /\ Handler_Asserts(p)
        /\ Have_Directory_Lock(p)
        /\ \/ Unlock_Directory(p, TRUE) /\ Return(p, exc[p])
           \/ Unlock_Directory(p, FALSE) /\ Return(p, "Lock_Error")
  /\ UNCHANGED <<directory, env, config, Log_Dir_FD, Log_File, Log_Size, calls, plan>>

-----------------------------------------------------------------------------
(* Write: the file "current".                                               *)

Now == clock \div Grain

New_File == [exists |-> TRUE, size |-> 0, mtime |-> Now, lines |-> << >>]

\* Opens "current" for appending, creating it if there is none.
Open_Current(p) ==
  /\ pc[p] \in {"open", "reopen"}
  /\ current' = IF current.exists THEN current ELSE New_File
  /\ Log_File' = [Log_File EXCEPT ![p] = TRUE]
  /\ Log_Size' = [Log_Size EXCEPT ![p] = current'.size]
  /\ Goto(p, CASE pc[p] = "reopen"  -> "loop"
               [] ~Size_Limited[p] -> "rest"
               [] OTHER            -> "fit")
  /\ UNCHANGED <<saved, rotations, lock_owner, env, config, Log_Dir_FD, Lock_FD,
                 Dir_Stack, request, plan>>

Open_Current_Fails(p) ==
  /\ pc[p] \in {"open", "reopen"}
  /\ Fails("open")
  /\ Raise(p, "IO_Error")
  /\ UNCHANGED <<directory, lock_owner, env, config, handles, request, plan>>

\* Filtered_Message_Length (Data (Data'First + Current_Offset .. Data'Last))
Filtered_Length(p) ==
  data[p].upto[data[p].length] - data[p].upto[Current_Offset[p]]

\* Mutant of Log_Has_Space_For: <= for <.
Bug_Log_Has_Space_For(p, length) ==
  Log_Size[p] + length + Message_Minimum_Length <= Size_Max[p]

Log_Has_Space_For(p, length) ==
  Log_Size[p] + length + Message_Minimum_Length < Size_Max[p]

\* "@" label " " pid " " level ": "
Prefix_Length(p) ==
  1 + Label_Size + 1 + PID_Digits[p] + 1
    + (IF data[p].level > 0 THEN data[p].level + 2 ELSE 0)

\* Write_Line_Prefix and Write_Message for the characters from Current_Offset
\* to e, with the LF.
Line_Length(p, e) ==
  Prefix_Length(p) + (data[p].upto[e] - data[p].upto[Current_Offset[p]]) + 1

New_Line(p, e, whole) ==
  [writer |-> p, call |-> calls[p], from |-> Current_Offset[p], to |-> e, whole |-> whole]

Append_Line(line, length) ==
  current' = [exists |-> TRUE, size |-> current.size + length, mtime |-> Now,
              lines |-> Append(current.lines, line)]

\* Mutant of Max_Length: one less.
Bug_Max_Length(p) == Size_Max[p] - Message_Minimum_Length - 1

Max_Length(p) == Size_Max[p] - Message_Minimum_Length

\* Write_Message with a Limit stops after character e.
Write_Message_Stops(p, limit, e) ==
  LET width(i) == data[p].upto[i] - data[p].upto[Current_Offset[p]]
  IN  /\ e \in Current_Offset[p]..data[p].length
      /\ width(e) < limit
      /\ e < data[p].length => width(e + 1) >= limit

\* Write_With_Rotate up to the loop.  Natural (Context.Size_Max) is evaluated
\* with Log_File open.
Fit(p) ==
  /\ pc[p] = "fit"
  /\ \/ /\ Size_Max[p] > Natural_Last
        /\ Raise(p, "Constraint_Error")
        /\ UNCHANGED Log_File
     \/ /\ Size_Max[p] <= Natural_Last
        /\ Log_Has_Space_For(p, Filtered_Length(p))
        /\ Goto(p, "rest")
        /\ UNCHANGED Log_File
     \/ /\ Size_Max[p] <= Natural_Last
        /\ ~Log_Has_Space_For(p, Filtered_Length(p))
        /\ Log_Size[p] = 0
        /\ Goto(p, "loop")
        /\ UNCHANGED Log_File
     \/ /\ Size_Max[p] <= Natural_Last
        /\ ~Log_Has_Space_For(p, Filtered_Length(p))
        /\ Log_Size[p] # 0
        /\ Log_File' = [Log_File EXCEPT ![p] = FALSE]
        /\ Goto(p, "rotate") \/ (Fails("close") /\ Raise(p, "IO_Error"))
  /\ UNCHANGED <<directory, lock_owner, env, config, Log_Dir_FD, Lock_FD, Log_Size,
                 Dir_Stack, request, plan>>

Must_Split(p) == pc[p] = "loop" /\ ~Log_Has_Space_For(p, Filtered_Length(p))

Exit_Loop(p) ==
  /\ pc[p] = "loop"
  /\ Log_Has_Space_For(p, Filtered_Length(p))
  /\ Goto(p, "rest")
  /\ UNCHANGED <<directory, lock_owner, env, config, handles, request, plan>>

\* Mutant of Write_Chunk: Characters_Processed is not added.
Bug_Write_Chunk(p) ==
  /\ Must_Split(p)
  /\ \E e \in 0..data[p].length :
       /\ Write_Message_Stops(p, Max_Length(p), e)
       /\ Append_Line(New_Line(p, e, TRUE), Line_Length(p, e))
  /\ Log_File' = [Log_File EXCEPT ![p] = FALSE]
  /\ Goto(p, "rotate")
  /\ UNCHANGED <<saved, rotations, lock_owner, env, config, Log_Dir_FD, Lock_FD,
                 Log_Size, Dir_Stack, request, plan>>

\* One turn of Write_Loop up to Rotate: a full line, then close.
Write_Chunk(p) ==
  /\ Must_Split(p)
  /\ \E e \in 0..data[p].length :
       /\ Write_Message_Stops(p, Max_Length(p), e)
       /\ Append_Line(New_Line(p, e, TRUE), Line_Length(p, e))
       /\ Current_Offset' = [Current_Offset EXCEPT ![p] = e]
  /\ Log_File' = [Log_File EXCEPT ![p] = FALSE]
  /\ Goto(p, "rotate") \/ (Fails("close") /\ Raise(p, "IO_Error"))
  /\ UNCHANGED <<saved, rotations, lock_owner, env, config, Log_Dir_FD, Lock_FD,
                 Log_Size, Dir_Stack, calls, data, plan>>

\* Mutant of Something_To_Write: forgets what is left after splitting.
Bug_Something_To_Write(p) == Size_Limited[p] => Current_Offset[p] = 0

\* Write_With_Rotate writes what is left only if something is left; without
\* a size limit Write writes the line whatever the data.
Something_To_Write(p) == Size_Limited[p] => Current_Offset[p] < data[p].length

\* The rest of the message, then close.
Write_Rest(p) ==
  /\ pc[p] = "rest"
  /\ IF Something_To_Write(p)
       THEN Append_Line(New_Line(p, data[p].length, TRUE),
                        Line_Length(p, data[p].length))
       ELSE UNCHANGED current
  /\ Log_File' = [Log_File EXCEPT ![p] = FALSE]
  /\ Goto(p, "unlock") \/ (Fails("close") /\ Raise(p, "IO_Error"))
  /\ UNCHANGED <<saved, rotations, lock_owner, env, config, Log_Dir_FD, Lock_FD,
                 Log_Size, Dir_Stack, request, plan>>

\* Some of the line that Write_Chunk or Write_Rest would write is in the file,
\* without its LF.
Tear_Line(p) ==
  \E e \in 0..data[p].length, k \in Torn :
    /\ \/ Must_Split(p) /\ Write_Message_Stops(p, Max_Length(p), e)
       \/ pc[p] = "rest" /\ Something_To_Write(p) /\ e = data[p].length
    /\ k < Line_Length(p, e)
    /\ Append_Line(New_Line(p, e, FALSE), k)

\* Device_Error from Write_Raw or Flush: Log_File stays open.
Write_Fails(p) ==
  /\ Fails("write")
  /\ Must_Split(p) \/ (pc[p] = "rest" /\ Something_To_Write(p))
  /\ UNCHANGED current \/ Tear_Line(p)
  /\ Raise(p, "IO_Error")
  /\ UNCHANGED <<saved, rotations, lock_owner, env, config, handles, request, plan>>

-----------------------------------------------------------------------------
(* Rotate and Rotate_Remove_Old.                                            *)

\* Mutant of Survivors: keeps Files_Max files beside "current".
Bug_Survivors(p) ==
  {K \in SUBSET saved :
     /\ K = saved \/ Cardinality(K) = Files_Max[p]
     /\ Cardinality(K) <= Files_Max[p]
     /\ \A f \in K, g \in saved \ K : f.mtime >= g.mtime}

\* Mutant of Survivors: sorted oldest first.
Bug_Survivors_Order(p) ==
  {K \in SUBSET saved :
     /\ K = saved \/ Cardinality(K) = Files_Max[p] - 1
     /\ Cardinality(K) <= Files_Max[p] - 1
     /\ \A f \in K, g \in saved \ K : f.mtime <= g.mtime}

\* Sorted by modification time, youngest first, the first Files_Max - 1 files
\* stay.  The order of equal times is the sort's.
Survivors(p) ==
  {K \in SUBSET saved :
     /\ K = saved \/ Cardinality(K) = Files_Max[p] - 1
     /\ Cardinality(K) <= Files_Max[p] - 1
     /\ \A f \in K, g \in saved \ K : f.mtime >= g.mtime}

\* The locals of Rotate and Rotate_Remove_Old go out of scope.
End_Rotate(p) ==
  /\ label' = [label EXCEPT ![p] = 0]
  /\ doomed' = [doomed EXCEPT ![p] = {}]

\* Reads the clock, then collects and sorts the saved files if their number is
\* limited.
Rotate(p) ==
  /\ pc[p] = "rotate"
  /\ \E d \in Clock_Steps : clock' = clock + d
  /\ label' = [label EXCEPT ![p] = clock']
  /\ \/ /\ Files_Max[p] = 0
        /\ doomed' = [doomed EXCEPT ![p] = {}]
     \/ /\ Files_Max[p] > 0
        /\ \E K \in Survivors(p) : doomed' = [doomed EXCEPT ![p] = saved \ K]
  /\ Goto(p, "remove")
  /\ UNCHANGED <<directory, lock_owner, kills, config, handles, request>>

\* Deletes in the sorted order: the youngest file too many goes first.
Remove_Log(p) ==
  /\ pc[p] = "remove"
  /\ \E f \in doomed[p] :
       /\ \A g \in doomed[p] : f.mtime >= g.mtime
       /\ saved' = saved \ {f}
       /\ doomed' = [doomed EXCEPT ![p] = @ \ {f}]
  /\ UNCHANGED <<current, rotations, lock_owner, env, config, handles, pc, exc,
                 request, label>>

Remove_Log_Fails(p) ==
  /\ pc[p] = "remove"
  /\ doomed[p] # {}
  /\ Fails("delete")
  /\ Raise(p, "IO_Error")
  /\ End_Rotate(p)
  /\ UNCHANGED <<directory, lock_owner, env, config, handles, request>>

\* rename ("current", "@label"), which replaces a file of that name.
Rename_Current(p) ==
  /\ pc[p] = "remove"
  /\ doomed[p] = {}
  /\ saved' = {f \in saved : f.label # label[p]} \union
                {[label |-> label[p], seq |-> rotations + 1, size |-> current.size,
                  mtime |-> current.mtime, lines |-> current.lines]}
  /\ current' = No_File
  /\ rotations' = rotations + 1
  /\ Goto(p, "reopen")
  /\ End_Rotate(p)
  /\ UNCHANGED <<lock_owner, env, config, handles, request>>

Rename_Current_Fails(p) ==
  /\ pc[p] = "remove"
  /\ doomed[p] = {}
  /\ Fails("rename")
  /\ Raise(p, "Rotate_Error")
  /\ End_Rotate(p)
  /\ UNCHANGED <<directory, lock_owner, env, config, handles, request>>

-----------------------------------------------------------------------------
(* The operating system: a killed process loses its descriptors and its     *)
(* lock; what it was writing may be torn.  Another process takes its place. *)

Kill(p) ==
  /\ pc[p] # "dead"
  /\ kills < MaxKills
  /\ kills' = kills + 1
  /\ UNCHANGED current \/ Tear_Line(p)
  /\ lock_owner' = Released(p)
  /\ Log_Dir_FD' = [Log_Dir_FD EXCEPT ![p] = "invalid"]
  /\ Lock_FD' = [Lock_FD EXCEPT ![p] = "invalid"]
  /\ Log_File' = [Log_File EXCEPT ![p] = FALSE]
  /\ Log_Size' = [Log_Size EXCEPT ![p] = 0]
  /\ Dir_Stack' = [Dir_Stack EXCEPT ![p] = 0]
  /\ data' = [data EXCEPT ![p] = No_Message]
  /\ Current_Offset' = [Current_Offset EXCEPT ![p] = 0]
  /\ pc' = [pc EXCEPT ![p] = "dead"]
  /\ exc' = [exc EXCEPT ![p] = "none"]
  /\ End_Rotate(p)
  /\ UNCHANGED <<saved, rotations, clock, config, calls>>

Restart(p) ==
  /\ pc[p] = "dead"
  /\ Size_Limited' = [Size_Limited EXCEPT ![p] = TRUE]
  /\ Size_Max' = [Size_Max EXCEPT ![p] = Size_Default]
  /\ Files_Max' = [Files_Max EXCEPT ![p] = Files_Default]
  /\ Goto(p, "idle")
  /\ UNCHANGED <<directory, lock_owner, env, handles, request, plan>>

-----------------------------------------------------------------------------

\* What a process inside Write does next by itself.
Step(p) ==
  \/ Push_Fails(p) \/ Lock_Directory(p) \/ Create_Fails(p)
  \/ Set_Lock(p) \/ Set_Lock_Fails(p)
  \/ Open_Current(p) \/ Open_Current_Fails(p)
  \/ Fit(p) \/ Exit_Loop(p) \/ Write_Chunk(p) \/ Write_Rest(p) \/ Write_Fails(p)
  \/ Rotate(p) \/ Remove_Log(p) \/ Remove_Log_Fails(p)
  \/ Rename_Current(p) \/ Rename_Current_Fails(p)
  \/ Unlock(p) \/ Handler(p)

\* What its program may call when it is not inside Write.
Call(p) ==
  \/ Open(p) \/ Close(p)
  \/ Set_Maximum_Saved_Files(p) \/ Set_Maximum_File_Size(p)
  \/ Set_Unlimited_File_Size(p)
  \/ Write(p) \/ Write_Refused(p)

Next == \E p \in Proc : Call(p) \/ Step(p) \/ Kill(p) \/ Restart(p)

Spec == Init /\ [][Next]_vars

\* A process that is inside Write keeps running; nobody has to call Write,
\* to be killed or to be restarted.  The lock is only weakly fair: fcntl
\* promises no order among the waiting processes.
FairSpec == Spec /\ \A p \in Proc : WF_vars(Step(p))

=============================================================================

------------------------- MODULE PlexlogProperties -------------------------
(***************************************************************************)
(* What Plexlog.API must keep true: its assertions, its size limits, the   *)
(* order in which old messages go, and that a call of Write returns.       *)
(***************************************************************************)
EXTENDS Plexlog

Sizes_In_Use  == Size_Maxes \union {Size_Default}
Files_In_Use  == Files_Maxes \union {Files_Default}

\* Every variable has the type its declaration in Plexlog_t, or in the
\* subprogram that owns it, gives it.
TypeOK ==
  /\ current \in Current_File
  /\ saved \in SUBSET Saved_File
  /\ rotations \in Nat
  /\ lock_owner \in Proc \union {NoProc}
  /\ clock \in Int
  /\ kills \in Nat
  /\ Size_Limited \in [Proc -> BOOLEAN]
  /\ Size_Max \in [Proc -> Sizes_In_Use]
  /\ Files_Max \in [Proc -> Files_In_Use]
  /\ Log_Dir_FD \in [Proc -> Descriptor]
  /\ Lock_FD \in [Proc -> Descriptor]
  /\ Log_File \in [Proc -> BOOLEAN]
  /\ Log_Size \in [Proc -> Nat]
  /\ Dir_Stack \in [Proc -> {0, 1}]
  /\ pc \in [Proc -> Labels]
  /\ exc \in [Proc -> Exceptions]
  /\ calls \in [Proc -> Nat]
  /\ data \in [Proc -> Messages \union {No_Message}]
  /\ Current_Offset \in [Proc -> Nat]
  /\ label \in [Proc -> Int]
  /\ doomed \in [Proc -> SUBSET Saved_File]
  /\ \A p \in Proc : Current_Offset[p] <= data[p].length

-----------------------------------------------------------------------------
(* Safety *)

\* Between opening "current" and giving the directory back a process holds the
\* lock through an open descriptor, is inside the log directory, and has
\* Log_File open exactly while it writes.  This is what the assertions at the
\* head of Open_Current, Write_Raw, Write_Message, Rotate, Rotate_Remove_Old
\* and Unlock_Directory ask; with one lock_owner it makes writers exclusive.
Inside(p) ==
  pc[p] \in Critical =>
    /\ lock_owner = p
    /\ Lock_FD[p] = "open"
    /\ Dir_Stack[p] = 1
    /\ Log_File[p] <=> pc[p] \in Writing

LockHeldInside == \A p \in Proc : Inside(p)

\* A call of Write that has returned, normally or by an exception, has given
\* back all it took: the lock, its descriptor, the log file and the working
\* directory of its caller.  (For failures that Write can recover from.)
AtRestBetweenCalls ==
  \A p \in Proc : pc[p] \in {"idle", "dead"} =>
    /\ lock_owner # p
    /\ Lock_FD[p] = "invalid"
    /\ ~Log_File[p]
    /\ Dir_Stack[p] = 0

\* The assertion in Write's handler: an exception finds Log_File closed.
HandlerFindsLogClosed == \A p \in Proc : pc[p] = "handler" => ~Log_File[p]

\* The assertion of Unlock_Directory when Write's handler calls it: whoever has
\* a lock descriptor has a directory to go back to.
HandlerCanUnlock ==
  \A p \in Proc : pc[p] = "handler" /\ Have_Directory_Lock(p) => Dir_Stack[p] > 0

\* A process with a size limit never makes "current" longer than its limit,
\* whatever lines, whole or torn, the others left in it.
SizeLimitKept ==
  [][\A p \in Proc : lock_owner = p /\ Size_Limited[p] /\ current'.size > current.size
       => current'.size <= Size_Max[p]]_vars

\* After its rotation a process with a limited number of files finds no more
\* than Files_Max saved files, however many the others had left.
RotationKeepsFilesMax ==
  [][\A p \in Proc : lock_owner = p /\ rotations' # rotations /\ Files_Max[p] > 0
       => Cardinality(saved') <= Files_Max[p]]_vars

\* The files Rotate_Remove_Old has listed for deletion are still there when it
\* comes to them: nobody else has removed or replaced one in the meantime.
ListedFilesExist == \A p \in Proc : doomed[p] \subseteq saved

\* If every process limits the number of files, the directory never holds more
\* saved files than one of the limits in use, not even after a crash in the
\* middle of a rotation.
SavedFilesBounded ==
  0 \notin Files_In_Use => \E n \in Files_In_Use : Cardinality(saved) <= n

\* A turn of Write_Loop takes at least one character of the message, and the
\* line it writes begins where the previous one ended: the loop ends, and no
\* character is written twice or skipped.
ChunkProgress ==
  [][\A p \in Proc : pc[p] = "loop" /\ Log_File[p] /\ pc'[p] = "rotate"
       => /\ Current_Offset'[p] > Current_Offset[p]
          /\ current'.lines # << >>
          /\ LET line == current'.lines[Len(current'.lines)]
             IN  line.from = Current_Offset[p] /\ line.to = Current_Offset'[p]]_vars

\* Old messages go first: outside a removal the saved files are the most recent
\* ones, without a gap.
Removing == \E p \in Proc : pc[p] = "remove"

SavedFilesAreTheLatest ==
  ~Removing =>
    {f.seq : f \in saved} = (rotations - Cardinality(saved) + 1)..rotations

\* Even if removals fail half way and leave older files behind, or the limit was
\* lowered in between, a process deletes none of the Files_Max - 1 files that
\* were saved last.
RemovedAreOld ==
  [][\A p \in Proc : lock_owner = p /\ rotations' = rotations =>
       \A f \in saved \ saved' : f.seq <= rotations - (Files_Max[p] - 1)]_vars

\* When Write is about to return normally, "current" ends with the end of its
\* message.
Delivered ==
  \A p \in Proc : pc[p] = "unlock" /\ data[p].length > 0 =>
    /\ current.lines # << >>
    /\ LET line == current.lines[Len(current.lines)]
       IN  /\ line.writer = p /\ line.call = calls[p] /\ line.whole
           /\ line.to = data[p].length

-----------------------------------------------------------------------------
(* Liveness *)

\* A process that called Write leaves it, by returning, by an exception or by
\* being killed: no loop that makes no progress, no wait for a lock that nobody
\* will release.
WriteReturns == \A p \in Proc : pc[p] = "push" ~> pc[p] \in {"idle", "dead"}
=============================================================================

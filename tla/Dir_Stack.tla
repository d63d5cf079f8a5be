----------------------------- MODULE Dir_Stack -----------------------------
(***************************************************************************)
(* Plexlog.Dir_Stack: a stack of open directory descriptors that remembers *)
(* working directories.  Descriptors are modelled because their numbers    *)
(* are: open() returns the lowest free one, so a descriptor closed too     *)
(* early comes back as another directory.  Every system call may fail;     *)
(* close() frees the descriptor even then.                                 *)
(***************************************************************************)
EXTENDS Integers, FiniteSets

CONSTANTS
  Dir,       \* the directories
  Closed,    \* what a free descriptor refers to
  FD_Last,   \* the greatest descriptor the process may have
  Length     \* FD_Array'Length, 2 in the source

ASSUME DirAssumption == Closed \notin Dir
ASSUME LengthAssumption == FD_Last \in Nat /\ Length \in Nat \ {0}

Invalid_FD == -1
FD == 0..FD_Last

VARIABLES
  cwd,       \* the working directory of the process
  desc,      \* its descriptors: [FD -> Dir \union {Closed}]
  Index,     \* Dir_Stack_t
  FD_Array,
  exc,       \* how the last call ended
  owned,     \* descriptors the caller has opened for itself
  leaked     \* descriptors nobody remembers

vars == <<cwd, desc, Index, FD_Array, exc, owned, leaked>>

Outcomes == {"none", "open", "overflow", "chdir", "pop", "Constraint_Error"}

\* Index stays within the array (a Constraint_Error otherwise), and every
\* variable has its declared type.
TypeOK ==
  /\ cwd \in Dir
  /\ desc \in [FD -> Dir \union {Closed}]
  /\ Index \in 1..Length
  /\ FD_Array \in [1..Length -> FD \union {Invalid_FD}]
  /\ exc \in Outcomes
  /\ owned \subseteq FD
  /\ leaked \subseteq FD

Init ==
  /\ cwd \in Dir
  /\ desc = [f \in FD |-> Closed]
  /\ Index = 1
  /\ FD_Array = [i \in 1..Length |-> Invalid_FD]
  /\ exc = "none"
  /\ owned = {}
  /\ leaked = {}

\* The descriptor that open() returns when the open files are those of table.
Lowest_Free(table, f) ==
  table[f] = Closed /\ \A g \in FD : table[g] = Closed => f <= g

Size == Index - 1

\* The descriptors on the stack.
Saved == {FD_Array[i] : i \in 1..Size}

\* Push_FD leaves with an exception, and its handler has closed Current_FD.
\* table is what was open when it was called.
Push_FD_Fails(table) ==
  /\ \/ exc' = "open" /\ UNCHANGED FD_Array
     \/ \E c \in FD : Lowest_Free(table, c) /\ Index = Length
        /\ exc' = "overflow" /\ UNCHANGED FD_Array
     \/ \E c \in FD : Lowest_Free(table, c) /\ Index < Length
        /\ exc' = "chdir" /\ FD_Array' = [FD_Array EXCEPT ![Index] = c]
  /\ UNCHANGED <<cwd, desc, Index>>

\* Mutant of Push_FD_Succeeds: remembers the new directory for the old one.
Bug_Push_FD_Succeeds(table, fd) ==
  \E c \in FD :
    /\ Lowest_Free(table, c)
    /\ Index < Length
    /\ table[fd] # Closed
    /\ FD_Array' = [FD_Array EXCEPT ![Index] = fd]
    /\ Index' = Index + 1
    /\ desc' = table
    /\ cwd' = table[fd]
    /\ exc' = "none"

\* Mutant of Push_FD_Succeeds: room for one more than there is.
Bug_Push_Overflow(table, fd) ==
  \E c \in FD :
    /\ Lowest_Free(table, c)
    /\ Index <= Length
    /\ table[fd] # Closed
    /\ FD_Array' = [FD_Array EXCEPT ![Index] = c]
    /\ Index' = Index + 1
    /\ desc' = [table EXCEPT ![c] = cwd]
    /\ cwd' = table[fd]
    /\ exc' = "none"

\* open ("."), store, fchdir (fd).
Push_FD_Succeeds(table, fd) ==
  \E c \in FD :
    /\ Lowest_Free(table, c)
    /\ Index < Length
    /\ table[fd] # Closed
    /\ FD_Array' = [FD_Array EXCEPT ![Index] = c]
    /\ Index' = Index + 1
    /\ desc' = [table EXCEPT ![c] = cwd]
    /\ cwd' = table[fd]
    /\ exc' = "none"

Push_FD(fd) ==
  /\ Push_FD_Fails(desc) \/ Push_FD_Succeeds(desc, fd)
  /\ UNCHANGED <<owned, leaked>>

\* Push opens the path, calls Push_FD, and closes Path_FD only in its handler.
Push(path) ==
  \/ /\ exc' = "open"
     /\ UNCHANGED <<cwd, desc, Index, FD_Array, owned, leaked>>
  \/ \E f \in FD :
       /\ Lowest_Free(desc, f)
       /\ LET table == [desc EXCEPT ![f] = path]
          IN  \/ Push_FD_Fails(table) /\ UNCHANGED leaked
              \/ Push_FD_Succeeds(table, f) /\ leaked' = leaked \union {f}
       /\ UNCHANGED owned

\* Mutant of Pop: closes before it looks.
Bug_Pop ==
  /\ Index > 1
  /\ desc' = [desc EXCEPT ![FD_Array[Index - 1]] = Closed]
  /\ \/ exc' = "none" /\ cwd' = desc[FD_Array[Index - 1]] /\ Index' = Index - 1
     \/ exc' = "pop" /\ UNCHANGED <<cwd, Index>>
  /\ UNCHANGED <<FD_Array, owned, leaked>>

\* fchdir, then forget, then close; the slot that is cleared is the one above.
Pop ==
  /\ \/ /\ Index = 1
        /\ exc' = "Constraint_Error"
        /\ UNCHANGED <<cwd, desc, Index, FD_Array>>
     \/ /\ Index > 1
        /\ exc' = "pop"
        /\ UNCHANGED <<cwd, desc, Index, FD_Array>>
     \/ /\ Index > 1
        /\ exc' \in {"none", "pop"}
        /\ cwd' = desc[FD_Array[Index - 1]]
        /\ desc' = [desc EXCEPT ![FD_Array[Index - 1]] = Closed]
        /\ FD_Array' = [FD_Array EXCEPT ![Index] = Invalid_FD]
        /\ Index' = Index - 1
  /\ UNCHANGED <<owned, leaked>>

\* Mutant of Pop_All: goes back one directory at most.
Bug_Pop_All ==
  /\ Index > 1
  /\ cwd' = desc[FD_Array[Index - 1]]
  /\ desc' = [f \in FD |-> IF f \in Saved THEN Closed ELSE desc[f]]
  /\ Index' = 1
  /\ exc' = "none"
  /\ UNCHANGED <<FD_Array, owned, leaked>>

\* Pops as often as Index says, which is once too often: k pops succeed, the
\* next one raises, for a failed call or because the stack is empty.  The k-th
\* itself may raise after having taken effect.
Pop_All ==
  /\ \/ Index = 1 /\ exc' = "none" /\ UNCHANGED <<cwd, desc, Index, FD_Array>>
     \/ \E k \in 0..Size :
          /\ Index > 1
          /\ exc' \in IF k = Size THEN {"Constraint_Error", "pop"} ELSE {"pop"}
          /\ cwd' = IF k = 0 THEN cwd ELSE desc[FD_Array[Index - k]]
          /\ desc' = [f \in FD |->
                        IF \E i \in (Index - k)..Size : FD_Array[i] = f
                          THEN Closed ELSE desc[f]]
          /\ FD_Array' = [i \in 1..Length |->
                            IF i \in (Index - k + 1)..Index THEN Invalid_FD
                            ELSE FD_Array[i]]
          /\ Index' = Index - k
  /\ UNCHANGED <<owned, leaked>>

\* The caller opens and closes descriptors of its own, such as Log_Dir_FD.
Caller_Open(d) ==
  \E f \in FD :
    /\ Lowest_Free(desc, f)
    /\ desc' = [desc EXCEPT ![f] = d]
    /\ owned' = owned \union {f}
    /\ UNCHANGED <<cwd, Index, FD_Array, exc, leaked>>

Caller_Close(f) ==
  /\ f \in owned
  /\ desc' = [desc EXCEPT ![f] = Closed]
  /\ owned' = owned \ {f}
  /\ UNCHANGED <<cwd, Index, FD_Array, exc, leaked>>

Next ==
  \/ \E d \in Dir : Push(d) \/ Caller_Open(d)
  \/ \E f \in FD : (f \in owned /\ Push_FD(f)) \/ Caller_Close(f)
  \/ Pop
  \/ Pop_All

Spec == Init /\ [][Next]_vars

-----------------------------------------------------------------------------

\* A remembered descriptor is open, belongs to the stack alone, and no two
\* slots share one: whatever was pushed, popped or failed before.
SavedAreOpen ==
  /\ \A i \in 1..Size : FD_Array[i] # Invalid_FD /\ desc[FD_Array[i]] # Closed
  /\ \A i, j \in 1..Size : FD_Array[i] = FD_Array[j] => i = j
  /\ Saved \intersect (owned \union leaked) = {}

\* Apart from the Path_FD of a successful Push no descriptor is lost: what is
\* open is the caller's, remembered, or one of those.
NothingElseOpen ==
  {f \in FD : desc[f] # Closed} = owned \union Saved \union leaked

\* The stack has room for two directories.
TwoFit == exc = "overflow" => Size >= 2

-----------------------------------------------------------------------------
(* The abstract stack.                                                      *)

Abstract == INSTANCE DirectoryStack WITH
  here  <- cwd,
  depth <- Size,
  past  <- [i \in 1..Size |-> desc[FD_Array[i]]]

\* Push and Pop move through directories as a stack does, and a call that fails
\* either did nothing or did all of it.
ImplementsDirectoryStack == Abstract!Spec
=============================================================================

-------------------------- MODULE Dir_StackProofs --------------------------
(***************************************************************************)
(* For any directories, any number of descriptors and any length of the    *)
(* array: the descriptors of Dir_Stack are those it should have, and it    *)
(* moves through directories as DirectoryStack does.                       *)
(***************************************************************************)
EXTENDS Dir_Stack, TLAPS

\* The descriptors that Push forgets are no longer the caller's.
LeakedIsLost == owned \intersect leaked = {}

DescriptorInv == TypeOK /\ SavedAreOpen /\ NothingElseOpen /\ LeakedIsLost

LEMMA DescriptorInit == Init => DescriptorInv
  <1> SUFFICES ASSUME Init PROVE DescriptorInv
    OBVIOUS
  <1>1. TypeOK
    BY DirAssumption, LengthAssumption DEF Init, TypeOK, Outcomes, FD, Invalid_FD
  <1>2. Saved = {} /\ Size = 0
    BY DEF Init, Saved, Size
  <1>3. SavedAreOpen /\ NothingElseOpen /\ LeakedIsLost
    BY <1>2 DEF Init, SavedAreOpen, NothingElseOpen, LeakedIsLost
  <1> QED
    BY <1>1, <1>3 DEF DescriptorInv

\* A failed push changes at most a slot that is not in use.
LEMMA PushFails ==
  ASSUME DescriptorInv, NEW table \in [FD -> Dir \union {Closed}],
         Push_FD_Fails(table), UNCHANGED <<owned, leaked>>
  PROVE  DescriptorInv' /\ UNCHANGED Abstract!vars
  <1>1. /\ FD_Array' \in [1..Length -> FD \union {Invalid_FD}]
        /\ \A j \in 1..Size : FD_Array'[j] = FD_Array[j]
    BY LengthAssumption DEF DescriptorInv, TypeOK, Push_FD_Fails, Lowest_Free, Size
  <1>2. UNCHANGED <<cwd, desc, Index>> /\ Size' = Size /\ exc' \in Outcomes
    BY DEF Push_FD_Fails, Size, Outcomes
  <1>3. Saved' = Saved
    BY <1>1, <1>2 DEF Saved
  <1>4. TypeOK'
    BY <1>1, <1>2 DEF DescriptorInv, TypeOK
  <1>5. SavedAreOpen' /\ NothingElseOpen' /\ LeakedIsLost'
    BY <1>1, <1>2, <1>3 DEF DescriptorInv, SavedAreOpen, NothingElseOpen, LeakedIsLost
  <1>6. UNCHANGED Abstract!vars
    BY <1>1, <1>2 DEF Abstract!vars
  <1> QED
    BY <1>4, <1>5, <1>6 DEF DescriptorInv

\* A push that succeeds remembers the directory it leaves in a descriptor that
\* was free; opened is what Push has opened before.
LEMMA PushSucceeds ==
  ASSUME DescriptorInv,
         NEW opened \in SUBSET FD,
         NEW table \in [FD -> Dir \union {Closed}],
         \A g \in opened : desc[g] = Closed /\ table[g] # Closed,
         \A g \in FD \ opened : table[g] = desc[g],
         NEW fd \in FD,
         Push_FD_Succeeds(table, fd),
         owned' = owned, leaked' = leaked \union opened
  PROVE  DescriptorInv' /\ Abstract!Next
  <1>1. PICK c \in FD :
          /\ Lowest_Free(table, c) /\ Index < Length /\ table[fd] # Closed
          /\ FD_Array' = [FD_Array EXCEPT ![Index] = c]
          /\ Index' = Index + 1
          /\ desc' = [table EXCEPT ![c] = cwd]
          /\ cwd' = table[fd]
          /\ exc' = "none"
    BY DEF Push_FD_Succeeds
  <1>2. /\ Index \in 1..Length /\ Length \in Nat /\ Size = Index - 1 /\ Size' = Index
        /\ FD_Array \in [1..Length -> FD \union {Invalid_FD}]
        /\ desc \in [FD -> Dir \union {Closed}] /\ cwd \in Dir /\ cwd # Closed
    BY <1>1, LengthAssumption, DirAssumption DEF DescriptorInv, TypeOK, Size
  <1>3. table[c] = Closed /\ c \notin opened /\ desc[c] = Closed
    BY <1>1 DEF Lowest_Free
  <1>4. \A j \in 1..Size : /\ FD_Array[j] \in FD /\ desc[FD_Array[j]] # Closed
                          /\ FD_Array[j] # c /\ FD_Array[j] \notin opened
                          /\ FD_Array'[j] = FD_Array[j]
                          /\ desc'[FD_Array'[j]] = desc[FD_Array[j]]
    <2> SUFFICES ASSUME NEW j \in 1..Size
                 PROVE  /\ FD_Array[j] \in FD /\ desc[FD_Array[j]] # Closed
                        /\ FD_Array[j] # c /\ FD_Array[j] \notin opened
                        /\ FD_Array'[j] = FD_Array[j]
                        /\ desc'[FD_Array'[j]] = desc[FD_Array[j]]
      OBVIOUS
    <2>1. FD_Array[j] \in FD /\ desc[FD_Array[j]] # Closed
      BY <1>2 DEF DescriptorInv, SavedAreOpen
    <2>2. FD_Array[j] # c /\ FD_Array[j] \notin opened
      BY <2>1, <1>3
    <2>3. FD_Array'[j] = FD_Array[j]
      BY <1>1, <1>2
    <2> QED
      BY <1>1, <2>1, <2>2, <2>3
  <1>5. FD_Array'[Index] = c /\ desc'[c] = cwd
    BY <1>1, <1>2
  <1>6. Saved' = Saved \union {c}
    BY <1>2, <1>4, <1>5 DEF Saved
  <1>7. table[fd] \in Dir
    BY <1>1
  <1>8. TypeOK'
    BY <1>1, <1>2, <1>7 DEF DescriptorInv, TypeOK, Outcomes
  <1>9. SavedAreOpen'
    <2>1. \A j \in 1..Size' : FD_Array'[j] # Invalid_FD /\ desc'[FD_Array'[j]] # Closed
      BY <1>2, <1>4, <1>5 DEF FD, Invalid_FD
    <2>2. \A j, k \in 1..Size' : FD_Array'[j] = FD_Array'[k] => j = k
      BY <1>2, <1>4, <1>5 DEF DescriptorInv, SavedAreOpen
    <2>3. c \notin owned \union leaked \union opened
      BY <1>3 DEF DescriptorInv, NothingElseOpen
    <2>4. Saved \intersect opened = {}
      BY <1>4 DEF Saved
    <2>5. Saved' \intersect (owned' \union leaked') = {}
      BY <1>6, <2>3, <2>4 DEF DescriptorInv, SavedAreOpen
    <2> QED
      BY <2>1, <2>2, <2>5 DEF SavedAreOpen
  <1>10. NothingElseOpen'
    <2>1. \A g \in FD : desc'[g] # Closed <=> desc[g] # Closed \/ g \in opened \/ g = c
      BY <1>1, <1>2, <1>3
    <2> QED
      BY <1>6, <2>1 DEF DescriptorInv, NothingElseOpen
  <1>11. LeakedIsLost'
    BY DEF DescriptorInv, NothingElseOpen, LeakedIsLost
  <1>12. Abstract!Next
    BY <1>1, <1>2, <1>4, <1>5, <1>7 DEF Abstract!Next, Abstract!Enter
  <1> QED
    BY <1>8, <1>9, <1>10, <1>11, <1>12 DEF DescriptorInv

LEMMA PushFDStep ==
  ASSUME DescriptorInv, NEW fd \in owned, Push_FD(fd)
  PROVE  DescriptorInv' /\ [Abstract!Next]_(Abstract!vars)
  <1>1. desc \in [FD -> Dir \union {Closed}] /\ fd \in FD
    BY DEF DescriptorInv, TypeOK
  <1>2. CASE Push_FD_Fails(desc)
    BY <1>1, <1>2, PushFails DEF Push_FD
  <1>3. CASE Push_FD_Succeeds(desc, fd)
    <2>1. owned' = owned /\ leaked' = leaked \union {}
      BY DEF Push_FD
    <2>2. /\ {} \in SUBSET FD
          /\ \A g \in {} : desc[g] = Closed /\ desc[g] # Closed
          /\ \A g \in FD \ {} : desc[g] = desc[g]
      OBVIOUS
    <2> QED
      BY <1>1, <1>3, <2>1, <2>2, PushSucceeds
  <1> QED
    BY <1>2, <1>3 DEF Push_FD

LEMMA PushStep ==
  ASSUME DescriptorInv, NEW path \in Dir, Push(path)
  PROVE  DescriptorInv' /\ [Abstract!Next]_(Abstract!vars)
  <1>1. CASE exc' = "open" /\ UNCHANGED <<cwd, desc, Index, FD_Array, owned, leaked>>
    BY <1>1 DEF DescriptorInv, TypeOK, SavedAreOpen, NothingElseOpen, LeakedIsLost,
                Saved, Size, Outcomes, Abstract!vars
  <1>2. ASSUME NEW f \in FD, Lowest_Free(desc, f), owned' = owned,
               \/ Push_FD_Fails([desc EXCEPT ![f] = path]) /\ leaked' = leaked
               \/ Push_FD_Succeeds([desc EXCEPT ![f] = path], f)
                  /\ leaked' = leaked \union {f}
        PROVE  DescriptorInv' /\ [Abstract!Next]_(Abstract!vars)
    <2> DEFINE table == [desc EXCEPT ![f] = path]
    <2>1. /\ table \in [FD -> Dir \union {Closed}]
          /\ \A g \in {f} : desc[g] = Closed /\ table[g] # Closed
          /\ \A g \in FD \ {f} : table[g] = desc[g]
      BY <1>2, DirAssumption DEF DescriptorInv, TypeOK, Lowest_Free
    <2> HIDE DEF table
    <2>2. CASE Push_FD_Fails(table) /\ leaked' = leaked
      BY <1>2, <2>1, <2>2, PushFails
    <2>3. CASE Push_FD_Succeeds(table, f) /\ leaked' = leaked \union {f}
      <3>1. {f} \in SUBSET FD
        OBVIOUS
      <3> QED
        BY <1>2, <2>1, <2>3, <3>1, PushSucceeds
    <2> QED
      BY <1>2, <2>2, <2>3 DEF table
  <1> QED
    BY <1>1, <1>2 DEF Push

\* Leaving k directories: their descriptors are closed, and the working
\* directory is the one before the last k.
LEMMA Leaves ==
  ASSUME DescriptorInv, NEW k \in 1..Size,
         cwd' = desc[FD_Array[Index - k]],
         desc' = [f \in FD |-> IF \E j \in (Index - k)..Size : FD_Array[j] = f
                               THEN Closed ELSE desc[f]],
         FD_Array' \in [1..Length -> FD \union {Invalid_FD}],
         \A j \in 1..(Index - k) : FD_Array'[j] = FD_Array[j],
         Index' = Index - k, exc' \in Outcomes,
         UNCHANGED <<owned, leaked>>
  PROVE  DescriptorInv' /\ Abstract!Next
  <1>1. /\ Index \in 1..Length /\ Length \in Nat /\ Size = Index - 1 /\ Size' = Size - k
        /\ FD_Array \in [1..Length -> FD \union {Invalid_FD}]
        /\ desc \in [FD -> Dir \union {Closed}] /\ cwd \in Dir /\ Size' \in 0..Size
    BY LengthAssumption DEF DescriptorInv, TypeOK, Size
  <1>2. \A j \in 1..Size : FD_Array[j] \in FD /\ desc[FD_Array[j]] \in Dir
    BY <1>1 DEF DescriptorInv, SavedAreOpen
  <1>3. \A j, l \in 1..Size : FD_Array[j] = FD_Array[l] => j = l
    BY DEF DescriptorInv, SavedAreOpen
  <1>4. \A j \in 1..Size' : /\ FD_Array'[j] = FD_Array[j]
                           /\ desc'[FD_Array[j]] = desc[FD_Array[j]]
    <2> SUFFICES ASSUME NEW j \in 1..Size'
                 PROVE  /\ FD_Array'[j] = FD_Array[j]
                        /\ desc'[FD_Array[j]] = desc[FD_Array[j]]
      OBVIOUS
    <2>1. j \in 1..Size /\ j \in 1..(Index - k) /\ j < Index - k
      BY <1>1
    <2>2. ~ \E l \in (Index - k)..Size : FD_Array[l] = FD_Array[j]
      BY <1>1, <1>3, <2>1
    <2> QED
      BY <1>2, <2>1, <2>2
  <1> DEFINE Left == {FD_Array[j] : j \in (Index - k)..Size}
  <1>5. Saved = Saved' \union Left /\ Saved' \intersect Left = {}
    <2>1. Saved' = {FD_Array[j] : j \in 1..Size'}
      BY <1>4 DEF Saved
    <2>2. \A j \in 1..Size : j \in 1..Size' \/ j \in (Index - k)..Size
      BY <1>1
    <2>3. \A j \in 1..Size', l \in (Index - k)..Size : j # l /\ j \in 1..Size /\ l \in 1..Size
      BY <1>1
    <2>4. (\A j \in 1..Size' : j \in 1..Size) /\ (\A j \in (Index - k)..Size : j \in 1..Size)
      BY <1>1
    <2>5. Saved = Saved' \union Left
      BY <2>1, <2>2, <2>4 DEF Saved
    <2>6. Saved' \intersect Left = {}
      BY <1>3, <2>1, <2>3
    <2> QED
      BY <2>5, <2>6
  <1>6. TypeOK'
    BY <1>1, <1>2 DEF DescriptorInv, TypeOK
  <1>7. SavedAreOpen'
    <2>1. \A j \in 1..Size' : FD_Array'[j] # Invalid_FD /\ desc'[FD_Array'[j]] # Closed
      BY <1>1, <1>4 DEF DescriptorInv, SavedAreOpen
    <2>2. \A j, l \in 1..Size' : FD_Array'[j] = FD_Array'[l] => j = l
      BY <1>1, <1>3, <1>4
    <2> QED
      BY <1>5, <2>1, <2>2 DEF DescriptorInv, SavedAreOpen
  <1>8. NothingElseOpen'
    <2>1. {f \in FD : desc'[f] # Closed} = {f \in FD : desc[f] # Closed} \ Left
      OBVIOUS
    <2>2. Left \intersect (owned \union leaked) = {}
      BY <1>5 DEF DescriptorInv, SavedAreOpen
    <2> QED
      BY <1>5, <2>1, <2>2 DEF DescriptorInv, NothingElseOpen
  <1>9. LeakedIsLost'
    BY DEF DescriptorInv, LeakedIsLost
  <1>10. Abstract!Next
    <2>1. Index - k \in 1..Size /\ Index - k = Size - k + 1
      BY <1>1
    <2>2. [j \in 1..Size' |-> desc'[FD_Array'[j]]] =
            [j \in 1..Size' |-> [l \in 1..Size |-> desc[FD_Array[l]]][j]]
      <3> DEFINE past == [l \in 1..Size |-> desc[FD_Array[l]]]
      <3>1. ASSUME NEW j \in 1..Size'
            PROVE  desc'[FD_Array'[j]] = past[j]
        <4>1. j \in 1..Size
          BY <1>1
        <4>2. past[j] = desc[FD_Array[j]]
          BY <4>1
        <4> QED
          BY <1>4, <4>2
      <3> HIDE DEF past
      <3>2. [j \in 1..Size' |-> desc'[FD_Array'[j]]] = [j \in 1..Size' |-> past[j]]
        BY <3>1, Zenon
      <3> QED
        BY <3>2 DEF past
    <2> QED
      BY <1>1, <2>1, <2>2 DEF Abstract!Next, Abstract!Return
  <1> QED
    BY <1>6, <1>7, <1>8, <1>9, <1>10 DEF DescriptorInv

\* A call that leaves the stack and the working directory alone.
LEMMA Stays ==
  ASSUME DescriptorInv, exc' \in Outcomes,
         UNCHANGED <<cwd, desc, Index, FD_Array, owned, leaked>>
  PROVE  DescriptorInv' /\ UNCHANGED Abstract!vars
  BY DEF DescriptorInv, TypeOK, SavedAreOpen, NothingElseOpen, LeakedIsLost,
         Saved, Size, Abstract!vars

LEMMA PopStep ==
  ASSUME DescriptorInv, Pop
  PROVE  DescriptorInv' /\ [Abstract!Next]_(Abstract!vars)
  <1>1. CASE UNCHANGED <<cwd, desc, Index, FD_Array>>
    BY <1>1, Stays DEF Pop, Outcomes
  <1>2. CASE /\ Index > 1
             /\ exc' \in {"none", "pop"}
             /\ cwd' = desc[FD_Array[Index - 1]]
             /\ desc' = [desc EXCEPT ![FD_Array[Index - 1]] = Closed]
             /\ FD_Array' = [FD_Array EXCEPT ![Index] = Invalid_FD]
             /\ Index' = Index - 1
    <2>1. /\ Index \in 1..Length /\ Length \in Nat /\ Size = Index - 1 /\ 1 \in 1..Size
          /\ FD_Array \in [1..Length -> FD \union {Invalid_FD}]
          /\ desc \in [FD -> Dir \union {Closed}]
      BY <1>2, LengthAssumption DEF DescriptorInv, TypeOK, Size
    <2>2. desc' = [f \in FD |-> IF \E j \in (Index - 1)..Size : FD_Array[j] = f
                               THEN Closed ELSE desc[f]]
      <3>1. \A f \in FD : (\E j \in (Index - 1)..Size : FD_Array[j] = f)
                         <=> f = FD_Array[Index - 1]
        BY <2>1
      <3> QED
        BY <1>2, <2>1, <3>1
    <2>3. /\ FD_Array' \in [1..Length -> FD \union {Invalid_FD}]
          /\ \A j \in 1..(Index - 1) : FD_Array'[j] = FD_Array[j]
      BY <1>2, <2>1
    <2>4. UNCHANGED <<owned, leaked>> /\ exc' \in Outcomes
      BY <1>2 DEF Pop, Outcomes
    <2> QED
      BY <1>2, <2>1, <2>2, <2>3, <2>4, Leaves
  <1> QED
    BY <1>1, <1>2 DEF Pop

LEMMA PopAllStep ==
  ASSUME DescriptorInv, Pop_All
  PROVE  DescriptorInv' /\ [Abstract!Next]_(Abstract!vars)
  <1>1. CASE Index = 1 /\ exc' = "none" /\ UNCHANGED <<cwd, desc, Index, FD_Array>>
    BY <1>1, Stays DEF Pop_All, Outcomes
  <1>2. ASSUME NEW k \in 0..Size, Index > 1,
               exc' \in (IF k = Size THEN {"Constraint_Error", "pop"} ELSE {"pop"}),
               cwd' = (IF k = 0 THEN cwd ELSE desc[FD_Array[Index - k]]),
               desc' = [f \in FD |-> IF \E j \in (Index - k)..Size : FD_Array[j] = f
                                     THEN Closed ELSE desc[f]],
               FD_Array' = [j \in 1..Length |->
                              IF j \in (Index - k + 1)..Index THEN Invalid_FD
                              ELSE FD_Array[j]],
               Index' = Index - k
        PROVE  DescriptorInv' /\ [Abstract!Next]_(Abstract!vars)
    <2>1. /\ Index \in 1..Length /\ Length \in Nat /\ Size = Index - 1
          /\ FD_Array \in [1..Length -> FD \union {Invalid_FD}]
          /\ desc \in [FD -> Dir \union {Closed}]
      BY LengthAssumption DEF DescriptorInv, TypeOK, Size
    <2>2. UNCHANGED <<owned, leaked>> /\ exc' \in Outcomes
      BY <1>2 DEF Pop_All, Outcomes
    <2>3. CASE k = 0
      <3>1. desc' = desc /\ FD_Array' = FD_Array /\ cwd' = cwd /\ Index' = Index
        BY <1>2, <2>1, <2>3
      <3> QED
        BY <2>2, <3>1, Stays
    <2>4. CASE k \in 1..Size
      <3>1. /\ FD_Array' \in [1..Length -> FD \union {Invalid_FD}]
            /\ \A j \in 1..(Index - k) : FD_Array'[j] = FD_Array[j]
        BY <1>2, <2>1, <2>4
      <3> QED
        BY <1>2, <2>2, <2>4, <3>1, Leaves
    <2> QED
      BY <1>2, <2>1, <2>3, <2>4
  <1> QED
    BY <1>1, <1>2 DEF Pop_All

LEMMA CallerStep ==
  ASSUME DescriptorInv,
         (\E d \in Dir : Caller_Open(d)) \/ (\E f \in FD : Caller_Close(f))
  PROVE  DescriptorInv' /\ UNCHANGED Abstract!vars
  <1>1. PICK f \in FD, opened \in BOOLEAN :
          /\ UNCHANGED <<cwd, Index, FD_Array, exc, leaked>>
          /\ owned' = (IF opened THEN owned \union {f} ELSE owned \ {f})
          /\ IF opened THEN desc[f] = Closed ELSE f \in owned
          /\ \E d \in Dir \union {Closed} :
               desc' = [desc EXCEPT ![f] = d] /\ (opened <=> d # Closed)
    <2>1. CASE \E d \in Dir : Caller_Open(d)
      <3>1. PICK f \in FD, d \in Dir :
              /\ Lowest_Free(desc, f)
              /\ desc' = [desc EXCEPT ![f] = d]
              /\ owned' = owned \union {f}
              /\ UNCHANGED <<cwd, Index, FD_Array, exc, leaked>>
        BY <2>1 DEF Caller_Open
      <3>2. desc[f] = Closed /\ d # Closed
        BY <3>1, DirAssumption DEF Lowest_Free
      <3> WITNESS f \in FD, TRUE \in BOOLEAN
      <3> QED
        BY <3>1, <3>2
    <2>2. CASE \E f \in FD : Caller_Close(f)
      <3>1. PICK f \in FD :
              /\ f \in owned
              /\ desc' = [desc EXCEPT ![f] = Closed]
              /\ owned' = owned \ {f}
              /\ UNCHANGED <<cwd, Index, FD_Array, exc, leaked>>
        BY <2>2 DEF Caller_Close
      <3> WITNESS f \in FD, FALSE \in BOOLEAN
      <3> QED
        BY <3>1
    <2> QED
      BY <2>1, <2>2
  <1>2. f \notin Saved /\ f \notin leaked
    BY <1>1 DEF DescriptorInv, SavedAreOpen, NothingElseOpen, LeakedIsLost
  <1>3. /\ Size' = Size /\ Saved' = Saved
        /\ \A j \in 1..Size : desc'[FD_Array'[j]] = desc[FD_Array[j]]
    BY <1>1, <1>2 DEF Size, Saved, DescriptorInv, TypeOK
  <1>4. desc' \in [FD -> Dir \union {Closed}]
        /\ (\A g \in FD \ {f} : desc'[g] = desc[g])
        /\ (desc'[f] # Closed <=> opened)
    BY <1>1 DEF DescriptorInv, TypeOK
  <1>5. TypeOK'
    BY <1>1, <1>4 DEF DescriptorInv, TypeOK
  <1>6. SavedAreOpen' /\ NothingElseOpen' /\ LeakedIsLost'
    BY <1>1, <1>2, <1>3, <1>4
    DEF DescriptorInv, SavedAreOpen, NothingElseOpen, LeakedIsLost
  <1>7. UNCHANGED Abstract!vars
    BY <1>1, <1>3 DEF Abstract!vars
  <1> QED
    BY <1>5, <1>6, <1>7 DEF DescriptorInv

LEMMA DescriptorStep ==
  DescriptorInv /\ [Next]_vars => DescriptorInv' /\ [Abstract!Next]_(Abstract!vars)
  <1> SUFFICES ASSUME DescriptorInv, [Next]_vars
               PROVE  DescriptorInv' /\ [Abstract!Next]_(Abstract!vars)
    OBVIOUS
  <1>1. CASE UNCHANGED vars
    <2>1. exc' \in Outcomes /\ UNCHANGED <<cwd, desc, Index, FD_Array, owned, leaked>>
      BY <1>1 DEF vars, DescriptorInv, TypeOK
    <2> QED
      BY <2>1, Stays
  <1>2. CASE Next
    BY <1>2, PushStep, PushFDStep, PopStep, PopAllStep, CallerStep DEF Next
  <1> QED
    BY <1>1, <1>2

THEOREM DescriptorAlways == Spec => []DescriptorInv
  <1> QED
    BY DescriptorInit, DescriptorStep, PTL DEF Spec

\* The index never leaves the array, of whatever length, and no variable its
\* type (Push_FD's check of Index, the slices of Pop and Pop_All).
THEOREM StackTypes == Spec => []TypeOK
  <1>1. DescriptorInv => TypeOK
    BY DEF DescriptorInv
  <1> QED
    BY <1>1, DescriptorAlways, PTL

\* The descriptors on the stack are open and belong to it alone, after any
\* sequence of calls and failures.
THEOREM StackDescriptors == Spec => []SavedAreOpen
  <1>1. DescriptorInv => SavedAreOpen
    BY DEF DescriptorInv
  <1> QED
    BY <1>1, DescriptorAlways, PTL

\* No descriptor is lost but the one that every successful Push forgets.
THEOREM NoneElseOpen == Spec => []NothingElseOpen
  <1>1. DescriptorInv => NothingElseOpen
    BY DEF DescriptorInv
  <1> QED
    BY <1>1, DescriptorAlways, PTL

\* Every call of Dir_Stack enters a directory, returns over one or more, or does
\* nothing.
THEOREM StackImplements == Spec => ImplementsDirectoryStack
  <1>1. Init => Abstract!Init
    BY DEF Init, Abstract!Init, Size
  <1> QED
    BY <1>1, DescriptorInit, DescriptorStep, DescriptorAlways, PTL
    DEF Spec, ImplementsDirectoryStack, Abstract!Spec
=============================================================================

---------------------------- MODULE ItemsProofs ----------------------------
(***************************************************************************)
(* What the operators of the installer do, for every table, every tree and *)
(* any number of failures: which files they work on (OperandsAsListed),    *)
(* what instchk accepts (AcceptedMatches), when and by how much a static   *)
(* array is overrun (TypeOK), and what becomes of the ids that are looked  *)
(* up and read (IdsAreLive and IdsAreGivenBack).                           *)
(***************************************************************************)
EXTENDS Items, TLAPS, Induction

(***************************************************************************)
(* The ids of users and groups.                                            *)
(***************************************************************************)
Held == {uid.object, gid.object, uid_got.object, gid_got.object} \ {<<>>}

\* An object is named after its variable, so that no two variables share one.
Named ==
  /\ uid.object \in {<<>>, <<i, "uid">>}
  /\ gid.object \in {<<>>, <<i, "gid">>}
  /\ uid_got.object \in {<<>>, <<i, "uid_got">>}
  /\ gid_got.object \in {<<>>, <<i, "gid_got">>}

\* Where a variable holds nothing.
NoIds ==
  /\ pc \in {"init", "item", "translate", "uid", "exit"} => uid.object = <<>>
  /\ pc \in {"init", "item", "translate", "uid", "gid", "exit"} => gid.object = <<>>
  /\ (pc = "operate" /\ ~Looks_Up) \/ pc = "copy" \/ (pc = "ownership" /\ prog = "installer")
     => uid.object = <<>> /\ gid.object = <<>>
  /\ pc \notin {"copy", "compare", "end"} => uid_got.object = <<>> /\ gid_got.object = <<>>

\* Where the ids of the operator have values.
Looked_Up ==
  /\ pc \in {"check", "compare", "end", "release"}
     \/ (pc = "operate" /\ Looks_Up) \/ (pc = "ownership" /\ prog # "installer")
     => uid.account # "" /\ gid.account # ""
  /\ pc = "gid" => uid.account # ""
  /\ pc \in {"uid", "gid"} => Looks_Up
  /\ pc = "check" => prog = "instchk"
  /\ pc = "compare" => uid_got.account # "" /\ gid_got.account # ""

\* All that is allocated is held or lost, and what is held is allocated.
HeapInv ==
  /\ system \in {"posix", "win32"}
  /\ files \in Worlds
  /\ ~undefined_freed =>
       /\ Named /\ NoIds /\ Looked_Up
       /\ Held \subseteq live
       /\ live \subseteq Held \union lost

\* The program starts with nothing.
LEMMA HeapInit == Init => HeapInv
  <1> SUFFICES ASSUME Init PROVE HeapInv
    OBVIOUS
  <1>1. system \in {"posix", "win32"} /\ files \in Worlds
    BY SystemsAssumption DEF Init
  <1>2. Named /\ NoIds /\ Looked_Up /\ Held = {} /\ live = {}
    BY DEF Init, Named, NoIds, Looked_Up, Held, Undefined
  <1> QED
    BY <1>1, <1>2 DEF HeapInv

\* The end of an operator forgets its ids: nothing but what is lost may be left.
LEMMA EndsKeeps ==
  ASSUME HeapInv, NEW status, Ends(status), UNCHANGED of_program,
         ~undefined_freed' => live' \subseteq lost'
  PROVE  HeapInv'
  <1>1. pc' \in {"item", "exit"}
    BY DEF Ends, Exits
  <1>2. /\ uid'.object = <<>> /\ gid'.object = <<>>
        /\ uid_got'.object = <<>> /\ gid_got'.object = <<>>
    BY DEF Ends, Forgotten, Undefined
  <1>3. Named' /\ NoIds' /\ Held' = {}
    BY <1>1, <1>2 DEF Named, NoIds, Held
  <1>4. Looked_Up'
    BY <1>1 DEF Looked_Up
  <1>5. system' = system /\ files' = files
    BY DEF of_program
  <1> QED
    BY <1>3, <1>4, <1>5 DEF HeapInv

\* What an account is called: never nothing.
LEMMA AccountNamed ==
  ASSUME system \in {"posix", "win32"}, NEW name, NEW default, default # ""
  PROVE  Account(name, default) # ""
  <1>1. CASE name # ""
    BY <1>1 DEF Account
  <1>2. CASE name = "" /\ system = "posix"
    BY <1>2 DEF Account
  <1>3. CASE name = "" /\ system = "win32"
    BY <1>3 DEF Account
  <1> QED
    BY <1>1, <1>2, <1>3

\* Until an item is translated there are no ids.
LEMMA TranslationKeeps ==
  ASSUME HeapInv, Install_Init \/ Begin \/ Begin_Fails \/ Translate
                  \/ Translate_Overruns \/ Translate_Fails \/ Translated
  PROVE  HeapInv'
  <1>1. CASE Begin_Fails \/ Translate_Fails
    <2>1. UNCHANGED of_program /\ UNCHANGED heap /\ Ends("fatal")
      BY <1>1 DEF Begin_Fails, Translate_Fails, Fatal
    <2>2. ~undefined_freed => live \subseteq lost
      BY <1>1 DEF Begin_Fails, Translate_Fails, Translating, HeapInv, NoIds, Held
    <2> QED
      BY <2>1, <2>2, EndsKeeps DEF heap
  <1>2. CASE Install_Init \/ Begin \/ Translate \/ Translate_Overruns \/ Translated
    <2>1. /\ UNCHANGED of_program /\ UNCHANGED ids /\ UNCHANGED heap /\ i' = i
          /\ pc \in {"init", "item", "translate"}
          /\ \/ pc' \in {"item", "translate", "exit"}
             \/ pc' = "uid" /\ Looks_Up
             \/ pc' = "operate" /\ ~Looks_Up
      BY <1>2 DEF Install_Init, Begin, Translate, Translate_Overruns, Translated,
                  Translating, Exits, outcome, ids
    <2>2. Looks_Up' = Looks_Up
      BY <2>1 DEF Looks_Up, Item, of_program
    <2> QED
      BY <2>1, <2>2 DEF HeapInv, Named, NoIds, Looked_Up, Held, of_program, ids, heap
  <1> QED
    BY <1>1, <1>2

\* A successful lookup holds one object more.
LEMMA LookUpKeeps ==
  ASSUME HeapInv, Look_Up_User \/ Look_Up_Group
  PROVE  HeapInv'
  <1>1. UNCHANGED of_program /\ i' = i /\ Looks_Up' = Looks_Up
    BY DEF Look_Up_User, Look_Up_Group, outcome, of_program, Looks_Up, Item
  <1>2. lost' = lost /\ undefined_freed' = undefined_freed
        /\ uid_got' = uid_got /\ gid_got' = gid_got
    BY DEF Look_Up_User, Look_Up_Group
  <1>3. CASE Look_Up_User
    <2>1. /\ pc = "uid" /\ pc' = "gid" /\ gid' = gid
          /\ uid' = Id("uid", Owner(Item)) /\ live' = live \union Allocated("uid")
      BY <1>3 DEF Look_Up_User
    <2>2. uid'.account # ""
      BY <2>1, AccountNamed DEF Owner, Id, HeapInv
    <2>3. /\ uid'.object \in {<<>>, <<i, "uid">>}
          /\ Allocated("uid") = {uid'.object} \ {<<>>}
      BY <2>1 DEF Id, Object, Allocated
    <2> QED
      BY <1>1, <1>2, <2>1, <2>2, <2>3
      DEF HeapInv, Named, NoIds, Looked_Up, Held, of_program
  <1>4. CASE Look_Up_Group
    <2>1. /\ pc = "gid" /\ pc' = (IF prog = "instchk" THEN "check" ELSE "operate")
          /\ uid' = uid
          /\ gid' = Id("gid", Group(Item)) /\ live' = live \union Allocated("gid")
      BY <1>4 DEF Look_Up_Group
    <2>2. gid'.account # ""
      BY <2>1, AccountNamed DEF Group, Id, HeapInv
    <2>3. /\ gid'.object \in {<<>>, <<i, "gid">>}
          /\ Allocated("gid") = {gid'.object} \ {<<>>}
      BY <2>1 DEF Id, Object, Allocated
    <2>4. ~undefined_freed => Looks_Up
      BY <2>1 DEF HeapInv, Looked_Up
    <2> QED
      BY <1>1, <1>2, <2>1, <2>2, <2>3, <2>4
      DEF HeapInv, Named, NoIds, Looked_Up, Held, of_program
  <1> QED
    BY <1>3, <1>4

\* A failed one holds nothing: the user id is given back, and what the lookup
\* has allocated is lost.
LEMMA LookUpFailsKeeps ==
  ASSUME HeapInv, Look_Up_User_Fails \/ Look_Up_Group_Fails
  PROVE  HeapInv'
  <1>1. PICK objects, freed :
          /\ UNCHANGED of_program /\ Ends("error")
          /\ undefined_freed' = undefined_freed
          /\ live' = (live \ freed) \union objects /\ lost' = lost \union objects
          /\ \/ pc = "uid" /\ freed = {}
             \/ pc = "gid" /\ freed = Freed({uid})
    BY DEF Look_Up_User_Fails, Look_Up_Group_Fails, Look_Up_Fails
  <1>2. Freed({uid}) = {uid.object}
    BY DEF Freed
  <1>3. ~undefined_freed => live \ freed \subseteq lost
    BY <1>1, <1>2 DEF HeapInv, NoIds, Held
  <1> QED
    BY <1>1, <1>3, EndsKeeps

\* The steps of the installer and the deinstaller.
LEMMA OperatorsKeep ==
  ASSUME HeapInv, Install \/ Link_By_Copy \/ Operate \/ End_Link
  PROVE  HeapInv'
  <1>1. CASE Install \/ Link_By_Copy
    <2>1. /\ UNCHANGED of_program /\ UNCHANGED ids /\ UNCHANGED heap /\ i' = i
          /\ pc = "operate"
          /\ \/ Looks_Up /\ pc' = "release"
             \/ ~Looks_Up /\ prog = "installer" /\ pc' = "ownership"
      BY <1>1 DEF Install, Link_By_Copy, Copies_Link, Looks_Up, outcome, Links
    <2> QED
      BY <2>1 DEF HeapInv, Named, NoIds, Looked_Up, Held, of_program, ids, heap
  <1>2. CASE Operate
    <2>1. /\ UNCHANGED of_program /\ UNCHANGED heap /\ pc = "operate" /\ ~Looks_Up
      BY <1>2 DEF Operate
    <2>2. PICK status : Ends(status)
      BY <1>2 DEF Operate
    <2>3. ~undefined_freed => live \subseteq lost
      BY <2>1 DEF HeapInv, NoIds, Held
    <2> QED
      BY <2>1, <2>2, <2>3, EndsKeeps DEF heap
  <1>3. CASE End_Link
    <2>1. /\ UNCHANGED of_program /\ pc = "copy"
          /\ live' = live /\ undefined_freed' = undefined_freed
          /\ lost' = lost \union ({uid_got.object, gid_got.object} \ {<<>>})
      BY <1>3 DEF End_Link
    <2>2. PICK status : Ends(status)
      BY <1>3 DEF End_Link
    <2>3. ~undefined_freed => live \subseteq lost'
      BY <2>1 DEF HeapInv, NoIds, Held
    <2> QED
      BY <2>1, <2>2, <2>3, EndsKeeps
  <1> QED
    BY <1>1, <1>2, <1>3

\* What is read from a file is held from then on, whether it could be read or
\* not; an id that was read has a name.
LEMMA GetOwnershipKeeps ==
  ASSUME HeapInv, Get_Ownership
  PROVE  HeapInv'
  <1>1. PICK owner \in Results, group \in Results :
          /\ uid_got' = Read("uid_got", Of_File("owner"), owner)
          /\ gid_got' = Read("gid_got", Of_File("group"), group)
          /\ live' = live \union ({uid_got'.object, gid_got'.object} \ {<<>>})
          /\ failed' = ~Owned(owner, group)
    BY DEF Get_Ownership
  <1>2. /\ UNCHANGED of_program /\ uid' = uid /\ gid' = gid
        /\ lost' = lost /\ undefined_freed' = undefined_freed /\ i' = i
        /\ pc = "ownership"
        /\ pc' = (IF prog = "installer" THEN "copy" ELSE IF failed' THEN "end" ELSE "compare")
    BY DEF Get_Ownership
  <1>3. /\ uid_got'.object \in {<<>>, <<i, "uid_got">>}
        /\ gid_got'.object \in {<<>>, <<i, "gid_got">>}
    <2>1. ASSUME NEW var, NEW account, NEW result \in Results
          PROVE  Read(var, account, result).object \in {<<>>, <<i, var>>}
      <3>1. result \in {"ok", "unset", "no_memory", "not_copied"}
        BY DEF Results
      <3> QED
        BY <3>1 DEF Read, Id, Object, Undefined, Null
    <2> QED
      BY <1>1, <2>1
  <1>4. pc' = "compare" => uid_got'.account # "" /\ gid_got'.account # ""
    <2>1. SUFFICES ASSUME pc' = "compare"
                   PROVE  uid_got'.account # "" /\ gid_got'.account # ""
      OBVIOUS
    <2>2. owner = "ok" /\ group = "ok"
      BY <1>1, <1>2, <2>1 DEF Owned
    <2>3. Of_File("owner") # "" /\ Of_File("group") # ""
      BY WorldsAssumption DEF Of_File, HeapInv
    <2> QED
      BY <1>1, <2>2, <2>3 DEF Read, Id
  <1> QED
    BY <1>1, <1>2, <1>3, <1>4
    DEF HeapInv, Named, NoIds, Looked_Up, Held, of_program

\* The steps of instchk.
LEMMA ChecksKeep ==
  ASSUME HeapInv, Check \/ Compare \/ End_Check
  PROVE  HeapInv'
  <1>1. CASE Check \/ Compare
    <2>1. /\ UNCHANGED of_program /\ UNCHANGED ids /\ UNCHANGED heap /\ i' = i
          /\ \/ pc = "check" /\ pc' \in {"release", "ownership"}
             \/ pc = "compare" /\ pc' = "end"
      BY <1>1 DEF Check, Compare
    <2> QED
      BY <2>1 DEF HeapInv, Named, NoIds, Looked_Up, Held, of_program, ids, heap
  <1>2. CASE End_Check
    <2>1. UNCHANGED of_program /\ lost' = lost /\ pc = "end"
      BY <1>2 DEF End_Check
    <2>2. CASE undefined_freed'
      BY <2>1, <2>2 DEF HeapInv, of_program
    <2>3. CASE ~undefined_freed'
      <3>1. /\ ~undefined_freed /\ pc' = "release" /\ i' = i
            /\ live' = live \ Freed({uid_got, gid_got})
            /\ uid' = uid /\ gid' = gid /\ uid_got' = Undefined /\ gid_got' = Undefined
        BY <1>2, <2>3 DEF End_Check
      <3>2. Freed({uid_got, gid_got}) = {uid_got.object, gid_got.object}
        BY DEF Freed
      <3>3. /\ Named' /\ NoIds' /\ Looked_Up'
        BY <2>1, <3>1 DEF HeapInv, Named, NoIds, Looked_Up, Undefined
      <3>4. Held' = {uid.object, gid.object} \ {<<>>}
        BY <3>1 DEF Held, Undefined
      <3>5. {uid.object, gid.object} \intersect {uid_got.object, gid_got.object} \subseteq {<<>>}
        BY <3>1 DEF HeapInv, Named
      <3> QED
        BY <2>1, <3>1, <3>2, <3>3, <3>4, <3>5 DEF HeapInv, Held, of_program
    <2> QED
      BY <2>2, <2>3
  <1> QED
    BY <1>1, <1>2

LEMMA ReleaseKeeps ==
  ASSUME HeapInv, Release
  PROVE  HeapInv'
  <1>1. /\ UNCHANGED of_program /\ pc = "release" /\ live' = live \ Freed({uid, gid})
        /\ lost' = lost /\ undefined_freed' = undefined_freed
        /\ Ends(IF failed THEN "error" ELSE "ok")
    BY DEF Release
  <1>2. Freed({uid, gid}) = {uid.object, gid.object}
    BY DEF Freed
  <1>3. ~undefined_freed => live' \subseteq lost
    BY <1>1, <1>2 DEF HeapInv, NoIds, Held
  <1> QED
    BY <1>1, <1>3, EndsKeeps

LEMMA HeapStep == HeapInv /\ [Next]_vars => HeapInv'
  <1> SUFFICES ASSUME HeapInv, [Next]_vars PROVE HeapInv'
    OBVIOUS
  <1>1. CASE UNCHANGED vars
    <2>1. /\ UNCHANGED of_program /\ UNCHANGED ids /\ UNCHANGED heap
          /\ i' = i /\ pc' = pc
      BY <1>1 DEF vars, outcome
    <2>2. Looks_Up' = Looks_Up
      BY <2>1 DEF Looks_Up, Item, of_program
    <2> QED
      BY <2>1, <2>2, ZenonT(30) DEF HeapInv, Named, NoIds, Looked_Up, Held, of_program, ids, heap
  <1>2. CASE Next
    BY <1>2, TranslationKeeps, LookUpKeeps, LookUpFailsKeeps, OperatorsKeep,
       GetOwnershipKeeps, ChecksKeep, ReleaseKeeps DEF Next
  <1> QED
    BY <1>1, <1>2

THEOREM HeapAlways == Spec => []HeapInv
  <1> QED
    BY HeapInit, HeapStep, PTL DEF Spec

\* No id is used before it has a value or after it was given back, whatever
\* fails, for every table and tree (install_uidgid_lookup, install_file_check).
THEOREM LiveIds == Spec => []IdsAreLive
  <1>1. HeapInv => IdsAreLive
    BY DEF HeapInv, Looked_Up, Held, IdsAreLive
  <1> QED
    BY <1>1, HeapAlways, PTL

\* Nothing stays allocated from one item to the next, but for what is lost on
\* the way (iwin32_get_sid, iwin32_file_link).
THEOREM IdsGivenBack == Spec => []IdsAreGivenBack
  <1>1. HeapInv => IdsAreGivenBack
    BY DEF HeapInv, NoIds, Held, IdsAreGivenBack
  <1> QED
    BY <1>1, HeapAlways, PTL

(***************************************************************************)
(* Texts.                                                                  *)
(***************************************************************************)
\* The characters are strings: the provers have to be told of these.
Char == STRING \union {"/", ".", ".exe"}
Text == Seq(Char)

\* A character is a text.
LEMMA CharIs ==
  ASSUME NEW c \in Char
  PROVE  <<c>> \in Text /\ Len(<<c>>) = 1
  BY DEF Text

\* The characters that the program itself puts into names.
LEMMA CharsAre ==
  /\ <<"/">> \in Text /\ Len(<<"/">>) = 1
  /\ <<".">> \in Text /\ Len(<<".">>) = 1
  /\ <<".exe">> \in Text /\ Len(<<".exe">>) = 1
<1>1. "/" \in Char /\ "." \in Char /\ ".exe" \in Char
  BY DEF Char
<1> QED  BY <1>1, CharIs

\* A set of numbers has a least one.
LEMMA LeastIs ==
  ASSUME NEW S, S \subseteq Nat, S # {}
  PROVE  Least(S) \in S /\ \A l \in S : Least(S) <= l
<1>1. \E k \in S : \A l \in S : k <= l
  BY LeastNatural
<1> QED  BY <1>1 DEF Least

\* A bounded set of numbers has a greatest one.
LEMMA GreatestIs ==
  ASSUME NEW n \in Nat, NEW S, S \subseteq 0..n, S # {}
  PROVE  Greatest(S) \in S /\ \A l \in S : Greatest(S) >= l
<1> DEFINE T == {n - k : k \in S}
<1>1. T \subseteq Nat /\ T # {}
  OBVIOUS
<1>2. PICK t \in T : \A u \in T : t <= u
  BY <1>1, LeastNatural
<1>3. PICK k \in S : t = n - k
  BY <1>2
<1>4. \A l \in S : k >= l
  <2> SUFFICES ASSUME NEW l \in S PROVE k >= l
    OBVIOUS
  <2>1. n - k <= n - l
    BY <1>2, <1>3
  <2>2. k \in Nat /\ l \in Nat
    OBVIOUS
  <2> QED  BY <2>1, <2>2
<1>5. \E m \in S : \A l \in S : m >= l
  BY <1>4
<1> QED  BY <1>5 DEF Greatest

\* A part of a text is a text and no longer.
LEMMA PartIs ==
  ASSUME NEW text \in Text, NEW m \in Nat \ {0}, NEW n \in 0..Len(text)
  PROVE  /\ SubSeq(text, m, n) \in Text
         /\ Len(SubSeq(text, m, n)) <= Len(text) /\ Len(SubSeq(text, m, n)) <= n
<1>1. Len(text) \in Nat /\ m \in Int /\ n \in Int /\ m >= 1 /\ n <= Len(text)
  BY DEF Text
<1>2. \A k \in m..n : text[k] \in Char
  BY <1>1 DEF Text
<1>3. /\ SubSeq(text, m, n) \in Seq(Char)
      /\ Len(SubSeq(text, m, n)) = IF m <= n THEN n - m + 1 ELSE 0
  BY <1>1, <1>2, SubSeqProperties
<1> QED  BY <1>1, <1>3 DEF Text

\* The start of a text has its characters.
LEMMA StartIs ==
  ASSUME NEW text \in Text, NEW n \in 0..Len(text)
  PROVE  /\ SubSeq(text, 1, n) \in Text /\ Len(SubSeq(text, 1, n)) = n
         /\ \A k \in 1..n : SubSeq(text, 1, n)[k] = text[k]
<1>1. Len(text) \in Nat /\ n \in Int /\ 1 \in Int /\ n \in Nat /\ n <= Len(text)
  BY DEF Text
<1>2. \A k \in 1..n : text[k] \in Char
  BY <1>1 DEF Text
<1>3. /\ SubSeq(text, 1, n) \in Seq(Char)
      /\ Len(SubSeq(text, 1, n)) = IF 1 <= n THEN n - 1 + 1 ELSE 0
      /\ \A k \in 1..(n - 1 + 1) : SubSeq(text, 1, n)[k] = text[1 + k - 1]
  BY <1>1, <1>2, SubSeqProperties
<1>4. \A k \in 1..n : k \in 1..(n - 1 + 1) /\ 1 + k - 1 = k
  BY <1>1
<1> QED  BY <1>1, <1>3, <1>4 DEF Text

\* What stands before the first character of some, as libname finds it, is text.
LEMMA FirstIs ==
  ASSUME NEW stop, NEW text \in Text
  PROVE  \E a \in 1..(Len(text) + 1) :
           /\ \A k \in 1..(a - 1) : text[k] \notin stop
           /\ a # Len(text) + 1 => text[a] \in stop
           /\ Up_To(stop, text) \in Text /\ Len(Up_To(stop, text)) = a - 1
           /\ \A k \in 1..(a - 1) : Up_To(stop, text)[k] = text[k]
<1> DEFINE S == {k \in DOMAIN text : text[k] \in stop} \union {Len(text) + 1}
<1>1. Len(text) \in Nat /\ DOMAIN text = 1..Len(text)
  BY DEF Text
<1>2. S \subseteq 1..(Len(text) + 1) /\ S # {}
  BY <1>1
<1>3. S \subseteq Nat
  BY <1>1, <1>2
<1>4. PICK a : a = Least(S)
  OBVIOUS
<1>5. a \in S /\ \A k \in S : a <= k
  <2> HIDE DEF S
  <2> QED  BY <1>2, <1>3, <1>4, LeastIs
<1>6. a \in 1..(Len(text) + 1)
  BY <1>2, <1>5
<1>7. a # Len(text) + 1 => text[a] \in stop
  BY <1>5
<1>8. ASSUME NEW k \in 1..(a - 1) PROVE text[k] \notin stop
  <2>1. k \in 1..Len(text) /\ ~(a <= k)
    BY <1>1, <1>6
  <2> QED  BY <1>1, <1>5, <2>1
<1>9. Up_To(stop, text) = SubSeq(text, 1, a - 1)
  BY <1>4 DEF Up_To
<1>10. a - 1 \in 0..Len(text)
  BY <1>1, <1>6
<1> HIDE DEF S
<1> QED  BY <1>6, <1>7, <1>8, <1>9, <1>10, StartIs

LEMMA UpToIs ==
  ASSUME NEW stop, NEW text \in Text
  PROVE  /\ Up_To(stop, text) \in Text
         /\ Len(Up_To(stop, text)) <= Len(text)
<1>1. Len(text) \in Nat
  BY DEF Text
<1>2. PICK a \in 1..(Len(text) + 1) :
        Up_To(stop, text) \in Text /\ Len(Up_To(stop, text)) = a - 1
  BY FirstIs
<1> QED  BY <1>1, <1>2

\* What fread brings fits the buffer, and is all if there is less.
LEMMA ReadInIs ==
  ASSUME NEW n \in Nat, NEW text \in Text
  PROVE  \E m \in 0..Len(text) :
           /\ m <= n /\ (m < n => m = Len(text))
           /\ Read_In(n, text) = SubSeq(text, 1, m)
           /\ Read_In(n, text) \in Text /\ Len(Read_In(n, text)) = m
           /\ \A k \in 1..m : Read_In(n, text)[k] = text[k]
<1>1. Len(text) \in Nat
  BY DEF Text
<1>2. PICK m : m = Least({n, Len(text)})
  OBVIOUS
<1>3. /\ m \in {n, Len(text)} /\ m <= n /\ m <= Len(text)
  BY <1>1, <1>2, LeastIs
<1>4. m \in 0..Len(text) /\ m <= n /\ (m < n => m = Len(text))
  BY <1>1, <1>3
<1>5. Read_In(n, text) = SubSeq(text, 1, m)
  BY <1>2 DEF Read_In
<1> QED  BY <1>4, <1>5, StartIs

\* What libname takes for the first word is the word, or fills the buffer, and
\* then the word does so too.
LEMMA ReadWordIs ==
  ASSUME NEW text \in Text
  PROVE  /\ Read_Word(text) \in Text
         /\ Len(Read_Word(text)) <= Max_PathLen
         /\ Len(Read_Word(text)) < Max_PathLen => Read_Word(text) = Word(text)
         /\ Len(Read_Word(text)) >= Max_PathLen => Len(Word(text)) >= Max_PathLen
<1>1. PICK n, l, r : n = Max_PathLen /\ l = Len(text) /\ r = Read_In(n, text)
  OBVIOUS
<1>2. n \in Nat /\ l \in Nat
  BY <1>1, PathLenAssumption DEF PathLenAssumption, Text
<1>3. PICK m \in 0..l :
        /\ m <= n /\ (m < n => m = l)
        /\ r \in Text /\ Len(r) = m /\ \A k \in 1..m : r[k] = text[k]
  BY <1>1, <1>2, ReadInIs
<1>4. PICK v, w : v = Word(text) /\ w = Word(r)
  OBVIOUS
<1>5. w = Read_Word(text)
  BY <1>1, <1>4 DEF Read_Word
<1>6. PICK a \in 1..(l + 1) :
        /\ \A k \in 1..(a - 1) : text[k] \notin Blanks
        /\ a # l + 1 => text[a] \in Blanks
        /\ v \in Text /\ Len(v) = a - 1 /\ \A k \in 1..(a - 1) : v[k] = text[k]
  BY <1>1, <1>4, FirstIs DEF Word
<1>7. PICK b \in 1..(m + 1) :
        /\ \A k \in 1..(b - 1) : r[k] \notin Blanks
        /\ b # m + 1 => r[b] \in Blanks
        /\ w \in Text /\ Len(w) = b - 1 /\ \A k \in 1..(b - 1) : w[k] = r[k]
  BY <1>3, <1>4, FirstIs DEF Word
<1>8. a \in Nat /\ b \in Nat /\ m \in Nat /\ m <= l
      /\ 1 <= a /\ a <= l + 1 /\ 1 <= b /\ b <= m + 1
  BY <1>2, <1>3, <1>6, <1>7
<1>9. ASSUME a <= m PROVE b = a
  <2>1. r[a] = text[a] /\ text[a] \in Blanks
    <3>1. a \in 1..m /\ a # l + 1
      BY <1>2, <1>8, <1>9
    <3> QED  BY <1>3, <1>6, <3>1
  <2>2. b <= a
    <3>1. a \notin 1..(b - 1)
      BY <1>7, <2>1
    <3> QED  BY <1>8, <3>1
  <2>3. ASSUME b < a PROVE FALSE
    <3>1. b \in 1..m /\ b \in 1..(a - 1) /\ b # m + 1
      BY <1>8, <1>9, <2>3
    <3>2. r[b] \in Blanks /\ r[b] = text[b] /\ text[b] \notin Blanks
      BY <1>3, <1>6, <1>7, <3>1
    <3> QED  BY <3>2
  <2> QED  BY <1>8, <2>2, <2>3
<1>10. ASSUME a > m PROVE b = m + 1
  <2>1. ASSUME b # m + 1 PROVE FALSE
    <3>1. b \in 1..m /\ b \in 1..(a - 1)
      BY <1>8, <1>10, <2>1
    <3>2. r[b] \in Blanks /\ r[b] = text[b] /\ text[b] \notin Blanks
      BY <1>3, <1>6, <1>7, <2>1, <3>1
    <3> QED  BY <3>2
  <2> QED  BY <2>1
<1>11. a = b => v = w
  <2> SUFFICES ASSUME a = b PROVE v = w
    OBVIOUS
  <2>1. ASSUME NEW k \in 1..(a - 1) PROVE v[k] = w[k]
    <3>1. k \in 1..m
      BY <1>8
    <3> QED  BY <1>3, <1>6, <1>7, <3>1
  <2>2. Len(v) = Len(w) /\ Len(v) = a - 1
    BY <1>6, <1>7
  <2> QED  BY <1>6, <1>7, <2>1, <2>2 DEF Text
<1>12. b - 1 < n => a = b
  BY <1>2, <1>3, <1>8, <1>9, <1>10
<1>13. b - 1 <= n /\ (b - 1 >= n => a - 1 >= n)
  BY <1>2, <1>3, <1>8, <1>9, <1>10
<1> QED  BY <1>1, <1>4, <1>5, <1>6, <1>7, <1>11, <1>12, <1>13

\* A base name is no longer than the name, or one character long.
LEMMA BaseNameIs ==
  ASSUME NEW text \in Text
  PROVE  /\ Base_Name(text) \in Text
         /\ Len(Base_Name(text)) <= Len(text) \/ Len(Base_Name(text)) = 1
<1> DEFINE letters == {k \in DOMAIN text : text[k] # "/"}
           slashes == {k \in DOMAIN text : text[k] = "/" /\ k < Greatest(letters)}
<1>1. Len(text) \in Nat /\ DOMAIN text = 1..Len(text)
  BY DEF Text
<1>2. CASE text = <<>>
  <2>1. letters = {}
    BY <1>1, <1>2
  <2>2. Base_Name(text) = <<".">>
    BY <1>2, <2>1 DEF Base_Name
  <2> QED  BY <2>2, CharsAre
<1>3. CASE text # <<>> /\ letters = {}
  <2>1. Base_Name(text) = <<"/">>
    BY <1>3 DEF Base_Name
  <2> QED  BY <2>1, CharsAre
<1>4. CASE text # <<>> /\ letters # {}
  <2> DEFINE first == Greatest(slashes \union {0}) + 1
             last == Greatest(letters)
  <2>1. Base_Name(text) = SubSeq(text, first, last)
    BY <1>4 DEF Base_Name
  <2>2. letters \subseteq 0..Len(text) /\ letters \subseteq 1..Len(text)
    BY <1>1
  <2>3. slashes \union {0} \subseteq 0..Len(text) /\ slashes \union {0} # {}
    BY <1>1
  <2> HIDE DEF letters, slashes
  <2>4. last \in 1..Len(text)
    BY <1>1, <1>4, <2>2, GreatestIs
  <2>5. Greatest(slashes \union {0}) \in 0..Len(text)
    BY <1>1, <2>3, GreatestIs
  <2>6. first \in Nat \ {0} /\ last \in 0..Len(text)
    BY <1>1, <2>4, <2>5
  <2> HIDE DEF first, last
  <2> QED  BY <2>1, <2>6, PartIs
<1> QED  BY <1>2, <1>3, <1>4

\* What is formatted into a static buffer is cut so that its end fits, and is
\* left as it is if it fits.
LEMMA FormattedIs ==
  ASSUME NEW text \in Text
  PROVE  /\ Formatted(text) \in Text /\ Len(Formatted(text)) < Max_PathLen
         /\ Len(text) < Max_PathLen => Formatted(text) = text
<1>1. Len(text) \in Nat /\ Max_PathLen \in Nat \ {0, 1}
  BY PathLenAssumption DEF PathLenAssumption, Text
<1>2. CASE Len(text) < Max_PathLen
  BY <1>2 DEF Formatted
<1>3. CASE ~(Len(text) < Max_PathLen)
  <2>1. Max_PathLen - 1 \in 0..Len(text) /\ 1 \in Nat \ {0}
    BY <1>1, <1>3
  <2>2. /\ SubSeq(text, 1, Max_PathLen - 1) \in Text
        /\ Len(SubSeq(text, 1, Max_PathLen - 1)) <= Max_PathLen - 1
    BY <2>1, PartIs
  <2>3. \A l \in Nat : l <= Max_PathLen - 1 => l < Max_PathLen
    BY <1>1
  <2>4. Len(SubSeq(text, 1, Max_PathLen - 1)) \in Nat
    BY <2>2 DEF Text
  <2> QED  BY <1>3, <2>2, <2>3, <2>4 DEF Formatted
<1> QED  BY <1>2, <1>3

\* Two texts one after the other.
LEMMA JoinedIs ==
  ASSUME NEW a \in Text, NEW b \in Text
  PROVE  a \o b \in Text /\ Len(a \o b) = Len(a) + Len(b) /\ Len(a) \in Nat /\ Len(b) \in Nat
<1>1. a \in Seq(Char) /\ b \in Seq(Char)
  BY DEF Text
<1>2. a \o b \in Seq(Char) /\ Len(a \o b) = Len(a) + Len(b)
  BY <1>1, ConcatProperties
<1> QED  BY <1>1, <1>2 DEF Text

\* The name of a file in a directory is no shorter than its own name.
LEMMA InIs ==
  ASSUME NEW dir \in Text, NEW name \in Text
  PROVE  In(dir, name) \in Text /\ Len(name) <= Len(In(dir, name))
<1>1. <<"/">> \in Text /\ Len(<<"/">>) = 1
  BY CharsAre
<1> DEFINE slash == <<"/">>
<1> HIDE DEF slash
<1>2. slash \in Text /\ Len(slash) = 1
  BY <1>1 DEF slash
<1>3. dir \o slash \in Text /\ Len(dir \o slash) = Len(dir) + 1 /\ Len(dir) \in Nat
  <2>1. /\ dir \o slash \in Text /\ Len(dir \o slash) = Len(dir) + Len(slash)
        /\ Len(dir) \in Nat
    BY <1>2, JoinedIs, Zenon
  <2> QED  BY <1>2, <2>1
<1>4. /\ (dir \o slash) \o name \in Text
      /\ Len((dir \o slash) \o name) = Len(dir \o slash) + Len(name)
      /\ Len(name) \in Nat
  BY <1>3, JoinedIs
<1>5. In(dir, name) = (dir \o slash) \o name
  BY DEF In, slash
<1> QED  BY <1>3, <1>4, <1>5

\* A suffix put to a file's name is put to its place.
LEMMA InJoined ==
  ASSUME NEW dir \in Text, NEW a \in Text, NEW b \in Text
  PROVE  In(dir, a \o b) = In(dir, a) \o b
<1>1. <<"/">> \in Text
  BY CharsAre
<1> DEFINE slash == <<"/">>
<1> HIDE DEF slash
<1>2. dir \o slash \in Text
  BY <1>1, JoinedIs DEF slash
<1>3. ASSUME NEW at \in Text PROVE (at \o a) \o b = at \o (a \o b)
  BY ConcatAssociative, SMTT(20) DEF Text
<1>4. ((dir \o slash) \o a) \o b = (dir \o slash) \o (a \o b)
  BY <1>2, <1>3, Zenon
<1> QED  BY <1>4 DEF In, slash

(***************************************************************************)
(* The calls of a translation.                                             *)
(***************************************************************************)
Call_Names == {"libname", "base_name", "memcpy", "in_dir", "exec_suffix", "dlib_suffix"}

\* The arrays that libname writes to.
Word_Buffers == {"copy.src_name", "copy.dst_name", "liblink.src_tmp"}

A_Call ==
  {call \in [name : Call_Names, field : {"src", "dst"}, to : Buffers] :
     call.name = "libname" => call.to \in Word_Buffers}

Reads(text) == IF Is_Library(text) THEN 1 ELSE 0

\* The elements of two sequences one after the other.
LEMMA FollowedBy ==
  ASSUME NEW S, NEW p \in Seq(S), NEW q \in Seq(S)
  PROVE  /\ p \o q \in Seq(S) /\ Len(p \o q) = Len(p) + Len(q)
         /\ \A k \in 1..Len(p) : (p \o q)[k] = p[k]
         /\ \A k \in 1..Len(q) : (p \o q)[Len(p) + k] = q[k]
<1>1. /\ p \o q \in Seq(S) /\ Len(p \o q) = Len(p) + Len(q)
      /\ \A k \in 1..Len(p) + Len(q) : (p \o q)[k] = IF k <= Len(p) THEN p[k] ELSE q[k - Len(p)]
  BY ConcatProperties
<1>2. Len(p) \in Nat /\ Len(q) \in Nat
  OBVIOUS
<1> DEFINE w == p \o q
<1>3. \A k \in 1..Len(p) + Len(q) : w[k] = IF k <= Len(p) THEN p[k] ELSE q[k - Len(p)]
  BY <1>1
<1> HIDE DEF w
<1>4. \A k \in 1..Len(p) : w[k] = p[k]
  BY <1>2, <1>3
<1>5. ASSUME NEW k \in 1..Len(q) PROVE w[Len(p) + k] = q[k]
  <2>1. Len(p) + k \in 1..Len(p) + Len(q) /\ ~(Len(p) + k <= Len(p)) /\ Len(p) + k - Len(p) = k
    BY <1>2
  <2> QED  BY <1>3, <2>1
<1> QED  BY <1>1, <1>4, <1>5 DEF w

\* An optional call.
LEMMA OneIs ==
  ASSUME NEW S, NEW x \in S, NEW b \in BOOLEAN
  PROVE  /\ If(b, <<x>>) \in Seq(S)
         /\ Len(If(b, <<x>>)) = IF b THEN 1 ELSE 0
         /\ b => If(b, <<x>>)[1] = x
<1>1. CASE b
  BY <1>1 DEF If
<1>2. CASE ~b
  <2>1. If(b, <<x>>) = <<>>
    BY <1>2 DEF If
  <2> QED  BY <1>2, <2>1
<1> QED  BY <1>1, <1>2

\* Two optional calls.
LEMMA TwoAre ==
  ASSUME NEW S, NEW x \in S, NEW y \in S, NEW b \in BOOLEAN
  PROVE  /\ If(b, <<x, y>>) \in Seq(S) /\ <<x, y>> \in Seq(S)
         /\ Len(If(b, <<x, y>>)) = (IF b THEN 2 ELSE 0) /\ Len(<<x, y>>) = 2
         /\ b => If(b, <<x, y>>)[1] = x /\ If(b, <<x, y>>)[2] = y
         /\ <<x, y>>[1] = x /\ <<x, y>>[2] = y
<1>1. CASE b
  BY <1>1 DEF If
<1>2. CASE ~b
  <2>1. If(b, <<x, y>>) = <<>>
    BY <1>2 DEF If
  <2> QED  BY <1>2, <2>1
<1> QED  BY <1>1, <1>2

\* Three optional calls.
LEMMA ThreeAre ==
  ASSUME NEW S, NEW x \in S, NEW y \in S, NEW z \in S, NEW b \in BOOLEAN
  PROVE  /\ If(b, <<x, y, z>>) \in Seq(S)
         /\ Len(If(b, <<x, y, z>>)) = IF b THEN 3 ELSE 0
         /\ b => /\ If(b, <<x, y, z>>)[1] = x /\ If(b, <<x, y, z>>)[2] = y
                 /\ If(b, <<x, y, z>>)[3] = z
<1>1. CASE b
  BY <1>1 DEF If
<1>2. CASE ~b
  <2>1. If(b, <<x, y, z>>) = <<>>
    BY <1>2 DEF If
  <2> QED  BY <1>2, <2>1
<1> QED  BY <1>1, <1>2

\* The calls of ntran_copy and ntran_copy_exec, k of them done.
Copy_Call(item, k) ==
  LET reads == Reads(item.src) + Reads(Dst_Text(item))
  IN  CASE k < Reads(item.src) -> Call("libname", "src", "copy.src_name")
        [] k >= Reads(item.src) /\ k < reads -> Call("libname", "dst", "copy.dst_name")
        [] k = reads -> Call("base_name", "dst", "path_buf")
        [] k = reads + 1 -> Call("in_dir", "dst", "copy.dst_tmp")
        [] k = reads + 2 -> Call("exec_suffix", "src", "exec.src_name")
        [] k = reads + 3 -> Call("exec_suffix", "dst", "exec.dst_name")

\* Whatever is called has a record of a call.
LEMMA CallsAre ==
  ASSUME NEW name \in Call_Names, NEW field \in {"src", "dst"}, NEW to \in Buffers,
         name = "libname" => to \in Word_Buffers
  PROVE  Call(name, field, to) \in A_Call
  BY DEF Call, A_Call

\* The calls of ntran_copy and ntran_copy_exec.
LEMMA CopyCalls ==
  ASSUME NEW item, item.op \in Copies
  PROVE  /\ Translation(item) \in Seq(A_Call)
         /\ Len(Translation(item)) = Reads(item.src) + Reads(Dst_Text(item))
                                     + IF item.op = "copy_exec" THEN 4 ELSE 2
         /\ \A k \in 0..(Len(Translation(item)) - 1) :
              Translation(item)[k + 1] = Copy_Call(item, k)
<1> DEFINE x1 == Call("libname", "src", "copy.src_name")
           x2 == Call("libname", "dst", "copy.dst_name")
           x3 == Call("base_name", "dst", "path_buf")
           x4 == Call("in_dir", "dst", "copy.dst_tmp")
           x5 == Call("exec_suffix", "src", "exec.src_name")
           x6 == Call("exec_suffix", "dst", "exec.dst_name")
           A == Is_Library(item.src)
           B == Is_Library(Dst_Text(item))
           X == item.op = "copy_exec"
           p == If(A, <<x1>>)
           q == If(B, <<x2>>)
           r == <<x3, x4>>
           t == If(X, <<x5, x6>>)
           a == Reads(item.src)
           b == Reads(Dst_Text(item))
<1>1. Translation(item) = ((p \o q) \o r) \o t
  BY DEF Translation, Copy_Translation, Copies
<1>2. /\ x1 \in A_Call /\ x2 \in A_Call /\ x3 \in A_Call /\ x4 \in A_Call
      /\ x5 \in A_Call /\ x6 \in A_Call
  BY CallsAre DEF Buffers, Call_Names, Word_Buffers
<1>3. A \in BOOLEAN /\ B \in BOOLEAN /\ X \in BOOLEAN
  BY DEF Is_Library
<1>4. a = (IF A THEN 1 ELSE 0) /\ b = (IF B THEN 1 ELSE 0)
  BY DEF Reads
<1>5. \A k : Copy_Call(item, k) =
        CASE k < a -> x1 [] k >= a /\ k < a + b -> x2 [] k = a + b -> x3
          [] k = a + b + 1 -> x4 [] k = a + b + 2 -> x5 [] k = a + b + 3 -> x6
  BY DEF Copy_Call
<1> HIDE DEF x1, x2, x3, x4, x5, x6, A, B, X, a, b
<1>6. p \in Seq(A_Call) /\ Len(p) = a /\ (a = 1 => p[1] = x1) /\ a \in {0, 1}
  BY <1>2, <1>3, <1>4, OneIs
<1>7. q \in Seq(A_Call) /\ Len(q) = b /\ (b = 1 => q[1] = x2) /\ b \in {0, 1}
  BY <1>2, <1>3, <1>4, OneIs
<1>8. r \in Seq(A_Call) /\ Len(r) = 2 /\ r[1] = x3 /\ r[2] = x4
  BY <1>2, <1>3, TwoAre
<1>9. /\ t \in Seq(A_Call) /\ Len(t) = (IF X THEN 2 ELSE 0)
      /\ X => t[1] = x5 /\ t[2] = x6
  BY <1>2, <1>3, TwoAre
<1> HIDE DEF p, q, r, t
<1> DEFINE u == p \o q
<1>10. u \in Seq(A_Call) /\ Len(u) = a + b /\ (a = 1 => u[1] = x1) /\ (b = 1 => u[a + 1] = x2)
  <2>1. /\ u \in Seq(A_Call) /\ Len(u) = Len(p) + Len(q)
        /\ \A k \in 1..Len(p) : u[k] = p[k]
        /\ \A k \in 1..Len(q) : u[Len(p) + k] = q[k]
    BY <1>6, <1>7, FollowedBy
  <2> HIDE DEF u
  <2> QED  BY <1>6, <1>7, <2>1
<1> HIDE DEF u
<1> DEFINE v == u \o r
<1>11. /\ v \in Seq(A_Call) /\ Len(v) = a + b + 2 /\ (a = 1 => v[1] = x1) /\ (b = 1 => v[a + 1] = x2)
       /\ v[a + b + 1] = x3 /\ v[a + b + 2] = x4
  <2>1. /\ v \in Seq(A_Call) /\ Len(v) = Len(u) + Len(r)
        /\ \A k \in 1..Len(u) : v[k] = u[k]
        /\ \A k \in 1..Len(r) : v[Len(u) + k] = r[k]
    <3>1. u \in Seq(A_Call) /\ r \in Seq(A_Call)
      BY <1>8, <1>10
    <3> QED  BY <3>1, FollowedBy
  <2> HIDE DEF v
  <2> QED  BY <1>6, <1>7, <1>8, <1>10, <2>1
<1> HIDE DEF v
<1> DEFINE w == v \o t
<1>12. /\ w \in Seq(A_Call) /\ Len(w) = a + b + (IF X THEN 4 ELSE 2)
       /\ (a = 1 => w[1] = x1) /\ (b = 1 => w[a + 1] = x2)
       /\ w[a + b + 1] = x3 /\ w[a + b + 2] = x4
       /\ X => w[a + b + 3] = x5 /\ w[a + b + 4] = x6
  <2>1. /\ w \in Seq(A_Call) /\ Len(w) = Len(v) + Len(t)
        /\ \A k \in 1..Len(v) : w[k] = v[k]
        /\ \A k \in 1..Len(t) : w[Len(v) + k] = t[k]
    <3>1. v \in Seq(A_Call) /\ t \in Seq(A_Call)
      BY <1>9, <1>11
    <3> QED  BY <3>1, FollowedBy
  <2> HIDE DEF w
  <2>2. CASE X
    BY <1>3, <1>6, <1>7, <1>9, <1>11, <2>1, <2>2
  <2>3. CASE ~X
    BY <1>3, <1>6, <1>7, <1>9, <1>11, <2>1, <2>3
  <2> QED  BY <2>2, <2>3
<1> HIDE DEF w
<1>13. Translation(item) = w
  BY <1>1 DEF u, v, w
<1>14. ASSUME NEW k \in 0..(Len(w) - 1) PROVE w[k + 1] = Copy_Call(item, k)
  <2>1. \/ k = 0 /\ a = 1
        \/ k = a /\ b = 1
        \/ k = a + b
        \/ k = a + b + 1
        \/ k = a + b + 2 /\ X
        \/ k = a + b + 3 /\ X
    BY <1>3, <1>6, <1>7, <1>12
  <2>2. CASE k = 0 /\ a = 1
    <3>1. Copy_Call(item, k) = x1
      BY <1>5, <1>6, <1>7, <2>2
    <3> QED  BY <1>12, <2>2, <3>1
  <2>3. CASE k = a /\ b = 1
    <3>1. Copy_Call(item, k) = x2
      BY <1>5, <1>6, <1>7, <2>3
    <3> QED  BY <1>12, <2>3, <3>1
  <2>4. CASE k = a + b
    <3>1. Copy_Call(item, k) = x3
      BY <1>5, <1>6, <1>7, <2>4
    <3> QED  BY <1>12, <2>4, <3>1
  <2>5. CASE k = a + b + 1
    <3>1. Copy_Call(item, k) = x4
      BY <1>5, <1>6, <1>7, <2>5
    <3>2. k + 1 = a + b + 2
      BY <1>6, <1>7, <2>5
    <3> QED  BY <1>12, <3>1, <3>2
  <2>6. CASE k = a + b + 2 /\ X
    <3>1. Copy_Call(item, k) = x5
      BY <1>5, <1>6, <1>7, <2>6
    <3>2. k + 1 = a + b + 3
      BY <1>6, <1>7, <2>6
    <3> QED  BY <1>12, <2>6, <3>1, <3>2
  <2>7. CASE k = a + b + 3 /\ X
    <3>1. Copy_Call(item, k) = x6
      BY <1>5, <1>6, <1>7, <2>7
    <3>2. k + 1 = a + b + 4
      BY <1>6, <1>7, <2>7
    <3> QED  BY <1>12, <2>7, <3>1, <3>2
  <2> QED  BY <2>1, <2>2, <2>3, <2>4, <2>5, <2>6, <2>7
<1> QED  BY <1>12, <1>13, <1>14 DEF a, b, X

Fields == {"src", "dst"}

\* A field points to one of these buffers, and what it finds there is text.
Is(field, pointers, text) == ins[field] \in pointers /\ buf[ins[field]] = text

Buffers_OK == ins \in [Fields -> Pointers] /\ buf \in [Pointers -> Text]

\* libname has read the word to its end.
Whole(call) == call.name = "libname" => Result(call) = Word(libraries[Value(call.field)])

\* A call leaves its result where its field then points to.
Called(call, result) ==
  /\ buf' = [buf EXCEPT ![call.to] = result]
  /\ ins' = [ins EXCEPT ![call.field] = call.to]

\* After a call its field points to its buffer, and its result is there.
LEMMA CalledField ==
  ASSUME Buffers_OK, NEW field \in Fields, NEW to \in Buffers, NEW name, NEW result,
         Called(Call(name, field, to), result)
  PROVE  ins'[field] = to /\ buf'[to] = result
  BY DEF Buffers_OK, Called, Call, Pointers

\* A call leaves what the other field finds, unless it wrote to that buffer.
LEMMA OtherField ==
  ASSUME Buffers_OK, NEW field \in Fields, NEW to \in Buffers, NEW name, NEW result,
         Called(Call(name, field, to), result),
         NEW other \in Fields \ {field}, ins[other] # to
  PROVE  ins'[other] = ins[other] /\ buf'[ins'[other]] = buf[ins[other]]
  BY DEF Buffers_OK, Called, Call, Pointers

\* The same of what fields find.
LEMMA Moves ==
  ASSUME Buffers_OK, NEW field \in Fields, NEW to \in Buffers, NEW name, NEW result,
         Called(Call(name, field, to), result)
  PROVE  /\ Is(field, {to}, result)'
         /\ \A other \in Fields \ {field} : \A pointers : \A text :
              Is(other, pointers, text) /\ to \notin pointers => Is(other, pointers, text)'
<1>1. ins'[field] = to /\ buf'[to] = result
  BY CalledField
<1>2. ASSUME NEW other \in Fields \ {field}, NEW pointers, NEW text,
             Is(other, pointers, text), to \notin pointers
      PROVE  Is(other, pointers, text)'
  <2>1. ins[other] # to
    BY <1>2 DEF Is
  <2>2. ins'[other] = ins[other] /\ buf'[ins'[other]] = buf[ins[other]]
    BY <2>1, OtherField
  <2> QED  BY <1>2, <2>2 DEF Is
<1> QED  BY <1>1, <1>2 DEF Is

\* Where the fields of a copied item point to after k calls, and what they find:
\* n and d are the names listed for them, e the suffix of programs.
Copy_Stage(item, k, n, d, e) ==
  LET reads == Reads(item.src) + Reads(Dst_Text(item))
      at == Formatted(In(item.dir, Base_Name(d)))
  IN  /\ k < Reads(item.src) => Is("src", {"item.src"}, item.src)
      /\ k >= Reads(item.src) /\ k < reads + 3 => Is("src", {"item.src", "copy.src_name"}, n)
      /\ k >= reads + 3 => Is("src", {"exec.src_name"}, Formatted(n \o e))
      /\ k < reads => Is("dst", {"item.src", "item.dst"}, Dst_Text(item))
      /\ k = reads => Is("dst", {"item.src", "item.dst", "copy.dst_name"}, d)
      /\ k = reads + 1 => Is("dst", {"path_buf"}, Base_Name(d))
      /\ k \in {reads + 2, reads + 3} => Is("dst", {"copy.dst_tmp"}, at)
      /\ k = reads + 4 => Is("dst", {"exec.dst_name"}, Formatted(at \o e))
      /\ k > reads => d \in Text

\* Each call of ntran_copy and ntran_copy_exec brings the names one stage on.
LEMMA CopyMoves ==
  ASSUME Buffers_OK, NEW item, NEW k \in Nat, NEW n, NEW d, NEW e, NEW result,
         n = Listed_Name(item.src), d = Listed_Name(Dst_Text(item)), e = Exec_Suffix,
         item = Item, k < Reads(item.src) + Reads(Dst_Text(item)) + 4,
         Copy_Stage(item, k, n, d, e), Whole(Copy_Call(item, k)),
         result = Result(Copy_Call(item, k)), Called(Copy_Call(item, k), result)
  PROVE  Copy_Stage(item, k + 1, n, d, e)'
<1> DEFINE a == Reads(item.src)
           b == Reads(Dst_Text(item))
           at == Formatted(In(item.dir, Base_Name(d)))
           f == Formatted(n \o e)
           g == Formatted(at \o e)
           h == Base_Name(d)
           dt == Dst_Text(item)
           st == item.src
<1>1. a \in {0, 1} /\ b \in {0, 1}
  BY DEF Reads
<1>2. a = 1 => n = Word(libraries[item.src])
  BY DEF Reads, Listed_Name
<1>3. b = 1 => d = Word(libraries[dt])
  BY DEF Reads, Listed_Name
<1>30. b = 0 => d = dt
  BY DEF Reads, Listed_Name
<1>4. \A l \in Nat : Copy_Stage(item, l, n, d, e) <=>
      /\ l < a => Is("src", {"item.src"}, st)
      /\ l >= a /\ l < a + b + 3 => Is("src", {"item.src", "copy.src_name"}, n)
      /\ l >= a + b + 3 => Is("src", {"exec.src_name"}, f)
      /\ l < a + b => Is("dst", {"item.src", "item.dst"}, dt)
      /\ l = a + b => Is("dst", {"item.src", "item.dst", "copy.dst_name"}, d)
      /\ l = a + b + 1 => Is("dst", {"path_buf"}, h)
      /\ l \in {a + b + 2, a + b + 3} => Is("dst", {"copy.dst_tmp"}, at)
      /\ l = a + b + 4 => Is("dst", {"exec.dst_name"}, g)
      /\ l > a + b => d \in Text
  BY DEF Copy_Stage
<1>5. \A l \in Nat : Copy_Stage(item, l, n, d, e)' <=>
      /\ l < a => Is("src", {"item.src"}, st)'
      /\ l >= a /\ l < a + b + 3 => Is("src", {"item.src", "copy.src_name"}, n)'
      /\ l >= a + b + 3 => Is("src", {"exec.src_name"}, f)'
      /\ l < a + b => Is("dst", {"item.src", "item.dst"}, dt)'
      /\ l = a + b => Is("dst", {"item.src", "item.dst", "copy.dst_name"}, d)'
      /\ l = a + b + 1 => Is("dst", {"path_buf"}, h)'
      /\ l \in {a + b + 2, a + b + 3} => Is("dst", {"copy.dst_tmp"}, at)'
      /\ l = a + b + 4 => Is("dst", {"exec.dst_name"}, g)'
      /\ l > a + b => d \in Text
  BY DEF Copy_Stage
<1>6. \A field \in Fields, to \in Buffers, name \in {"libname", "base_name", "in_dir", "exec_suffix"} :
        Copy_Call(item, k) = Call(name, field, to) =>
        /\ Is(field, {to}, result)'
        /\ \A other \in Fields \ {field} : \A pointers : \A text :
             Is(other, pointers, text) /\ to \notin pointers => Is(other, pointers, text)'
  <2> TAKE field \in Fields, to \in Buffers,
           name \in {"libname", "base_name", "in_dir", "exec_suffix"}
  <2> HAVE Copy_Call(item, k) = Call(name, field, to)
  <2>1. Called(Call(name, field, to), result)
    BY Zenon
  <2> HIDE DEF a, b, at, f, g, h, dt, st
  <2> QED  BY <2>1, Moves, Zenon
<1>7. \A field, p, q, text : Is(field, p, text)' /\ p \subseteq q => Is(field, q, text)'
  BY DEF Is
<1>8. \A field, p, text : Is(field, p, text) => Value(field) = text
  BY DEF Is, Value
<1>9. \A c : Copy_Call(item, k) = c => result = Result(c)
  OBVIOUS
<1>10. /\ k < a => Copy_Call(item, k) = Call("libname", "src", "copy.src_name")
       /\ k >= a /\ k < a + b => Copy_Call(item, k) = Call("libname", "dst", "copy.dst_name")
       /\ k = a + b => Copy_Call(item, k) = Call("base_name", "dst", "path_buf")
       /\ k = a + b + 1 => Copy_Call(item, k) = Call("in_dir", "dst", "copy.dst_tmp")
       /\ k = a + b + 2 => Copy_Call(item, k) = Call("exec_suffix", "src", "exec.src_name")
       /\ k = a + b + 3 => Copy_Call(item, k) = Call("exec_suffix", "dst", "exec.dst_name")
  BY <1>1 DEF Copy_Call
<1>11. \A field, to :
        /\ Copy_Call(item, k) = Call("libname", field, to) =>
             Result(Call("libname", field, to)) = Word(libraries[Value(field)])
        /\ Result(Call("base_name", field, to)) = Base_Name(Value(field))
        /\ Result(Call("in_dir", field, to)) = Formatted(In(item.dir, Value(field)))
        /\ Result(Call("exec_suffix", field, to)) = Formatted(Value(field) \o e)
  BY DEF Result, Call, Whole
<1> HIDE DEF a, b, at, f, g, h, dt, st
<1>12. CASE k < a
  <2>1. k = 0 /\ a = 1
    BY <1>1, <1>12
  <2>2. Is("src", {"item.src"}, st) /\ Is("dst", {"item.src", "item.dst"}, dt)
    BY <1>1, <1>4, <2>1
  <2>3. result = n
    BY <1>2, <1>8, <1>9, <1>10, <1>11, <1>12, <2>1, <2>2 DEF st
  <2>4. Is("src", {"copy.src_name"}, n)' /\ Is("dst", {"item.src", "item.dst"}, dt)'
    BY <1>6, <1>10, <1>12, <2>2, <2>3 DEF Fields, Buffers
  <2>5. Is("src", {"item.src", "copy.src_name"}, n)'
    BY <1>7, <2>4
  <2>6. b = 0 => Is("dst", {"item.src", "item.dst", "copy.dst_name"}, d)'
    BY <1>7, <1>30, <2>4
  <2> QED  BY <1>1, <1>5, <2>1, <2>4, <2>5, <2>6
<1>13. CASE k >= a /\ k < a + b
  <2>1. k = a /\ b = 1
    BY <1>1, <1>13
  <2>2. Is("src", {"item.src", "copy.src_name"}, n) /\ Is("dst", {"item.src", "item.dst"}, dt)
    BY <1>1, <1>4, <2>1
  <2>3. result = d
    BY <1>3, <1>8, <1>9, <1>10, <1>11, <1>13, <2>1, <2>2
  <2>4. Is("dst", {"copy.dst_name"}, d)' /\ Is("src", {"item.src", "copy.src_name"}, n)'
    BY <1>6, <1>10, <1>13, <2>2, <2>3 DEF Fields, Buffers
  <2>5. Is("dst", {"item.src", "item.dst", "copy.dst_name"}, d)'
    BY <1>7, <2>4
  <2> QED  BY <1>1, <1>5, <2>1, <2>4, <2>5
<1>14. CASE k = a + b
  <2>1. /\ Is("src", {"item.src", "copy.src_name"}, n)
        /\ Is("dst", {"item.src", "item.dst", "copy.dst_name"}, d)
    BY <1>1, <1>4, <1>14
  <2>2. result = h
    BY <1>8, <1>9, <1>10, <1>11, <1>14, <2>1 DEF h
  <2>3. Is("dst", {"path_buf"}, h)' /\ Is("src", {"item.src", "copy.src_name"}, n)'
    BY <1>6, <1>10, <1>14, <2>1, <2>2 DEF Fields, Buffers
  <2>4. d \in Text
    BY <2>1 DEF Is, Buffers_OK, Pointers, Buffers
  <2> QED  BY <1>1, <1>5, <1>14, <2>3, <2>4
<1>15. CASE k = a + b + 1
  <2>1. Is("src", {"item.src", "copy.src_name"}, n) /\ Is("dst", {"path_buf"}, h)
    BY <1>1, <1>4, <1>15
  <2>2. result = at
    BY <1>8, <1>9, <1>10, <1>11, <1>15, <2>1 DEF h, at
  <2>3. Is("dst", {"copy.dst_tmp"}, at)' /\ Is("src", {"item.src", "copy.src_name"}, n)'
    BY <1>6, <1>10, <1>15, <2>1, <2>2 DEF Fields, Buffers
  <2>4. d \in Text
    BY <1>1, <1>4, <1>15
  <2> QED  BY <1>1, <1>5, <1>15, <2>3, <2>4
<1>16. CASE k = a + b + 2
  <2>1. Is("src", {"item.src", "copy.src_name"}, n) /\ Is("dst", {"copy.dst_tmp"}, at)
    BY <1>1, <1>4, <1>16
  <2>2. result = f
    BY <1>8, <1>9, <1>10, <1>11, <1>16, <2>1 DEF f
  <2>3. Is("src", {"exec.src_name"}, f)' /\ Is("dst", {"copy.dst_tmp"}, at)'
    BY <1>6, <1>10, <1>16, <2>1, <2>2 DEF Fields, Buffers
  <2>4. d \in Text
    BY <1>1, <1>4, <1>16
  <2> QED  BY <1>1, <1>5, <1>16, <2>3, <2>4
<1>17. CASE k = a + b + 3
  <2>1. Is("src", {"exec.src_name"}, f) /\ Is("dst", {"copy.dst_tmp"}, at)
    BY <1>1, <1>4, <1>17
  <2>2. result = g
    BY <1>8, <1>9, <1>10, <1>11, <1>17, <2>1 DEF g
  <2>3. Is("dst", {"exec.dst_name"}, g)' /\ Is("src", {"exec.src_name"}, f)'
    BY <1>6, <1>10, <1>17, <2>1, <2>2 DEF Fields, Buffers
  <2>4. d \in Text
    BY <1>1, <1>4, <1>17
  <2> QED  BY <1>1, <1>5, <1>17, <2>3, <2>4
<1>18. k < a + b + 4
  BY DEF a, b
<1> QED  BY <1>1, <1>12, <1>13, <1>14, <1>15, <1>16, <1>17, <1>18

\* The calls of ntran_liblink and ntran_chk_liblink, k of them done.
Liblink_Call(item, k) ==
  LET reads == Reads(item.src)
  IN  CASE k = 0 /\ reads = 1 -> Call("libname", "src", "liblink.src_tmp")
        [] k = 1 /\ reads = 1 -> Call("base_name", "src", "path_buf")
        [] k = 2 /\ reads = 1 -> Call("memcpy", "src", "liblink.src_name")
        [] k = 3 * reads -> Call("base_name", "dst", "path_buf")
        [] k = 3 * reads + 1 -> Call("dlib_suffix", "dst", "liblink.dst_tmp")
        [] k = 3 * reads + 2 -> Call("in_dir", "dst", "chk_liblink.dst_name")

\* The calls of ntran_liblink and ntran_chk_liblink.
LEMMA LiblinkCalls ==
  ASSUME NEW item, item.op = "liblink"
  PROVE  /\ Translation(item) \in Seq(A_Call)
         /\ Len(Translation(item)) = 3 * Reads(item.src) + IF prog = "instchk" THEN 3 ELSE 2
         /\ \A k \in 0..(Len(Translation(item)) - 1) :
              Translation(item)[k + 1] = Liblink_Call(item, k)
<1> DEFINE x1 == Call("libname", "src", "liblink.src_tmp")
           x2 == Call("base_name", "src", "path_buf")
           x3 == Call("memcpy", "src", "liblink.src_name")
           x4 == Call("base_name", "dst", "path_buf")
           x5 == Call("dlib_suffix", "dst", "liblink.dst_tmp")
           x6 == Call("in_dir", "dst", "chk_liblink.dst_name")
           A == Is_Library(item.src)
           X == prog = "instchk"
           p == If(A, <<x1, x2, x3>>)
           r == <<x4, x5>>
           t == If(X, <<x6>>)
           a == Reads(item.src)
<1>1. Translation(item) = (p \o r) \o t
  <2>1. item.op \notin Copies /\ item.op # "symlink" /\ item.op # "mkdir"
    BY DEF Copies
  <2>2. Translation(item) = Liblink_Translation(item) \o t
    BY <2>1, Zenon DEF Translation
  <2> QED  BY <2>2 DEF Liblink_Translation
<1>2. /\ x1 \in A_Call /\ x2 \in A_Call /\ x3 \in A_Call /\ x4 \in A_Call
      /\ x5 \in A_Call /\ x6 \in A_Call
  BY CallsAre DEF Buffers, Call_Names, Word_Buffers
<1>3. A \in BOOLEAN /\ X \in BOOLEAN
  BY DEF Is_Library
<1>4. a = (IF A THEN 1 ELSE 0)
  BY DEF Reads
<1>5. \A k : Liblink_Call(item, k) =
        CASE k = 0 /\ a = 1 -> x1 [] k = 1 /\ a = 1 -> x2 [] k = 2 /\ a = 1 -> x3
          [] k = 3 * a -> x4 [] k = 3 * a + 1 -> x5 [] k = 3 * a + 2 -> x6
  BY DEF Liblink_Call
<1> HIDE DEF x1, x2, x3, x4, x5, x6, A, X, a
<1>6. /\ p \in Seq(A_Call) /\ Len(p) = 3 * a /\ (a = 1 => p[1] = x1 /\ p[2] = x2 /\ p[3] = x3)
      /\ a \in {0, 1}
  <2>1. CASE A
    BY <1>2, <1>4, <2>1 DEF If
  <2>2. CASE ~A
    <3>1. p = <<>> /\ a = 0
      BY <1>4, <2>2 DEF If
    <3> QED  BY <3>1
  <2> QED  BY <2>1, <2>2
<1>8. r \in Seq(A_Call) /\ Len(r) = 2 /\ r[1] = x4 /\ r[2] = x5
  BY <1>2, <1>3, TwoAre
<1>9. /\ t \in Seq(A_Call) /\ Len(t) = (IF X THEN 1 ELSE 0)
      /\ X => t[1] = x6
  BY <1>2, <1>3, OneIs
<1> HIDE DEF p, r, t
<1> DEFINE v == p \o r
<1>11. /\ v \in Seq(A_Call) /\ Len(v) = 3 * a + 2
       /\ a = 1 => v[1] = x1 /\ v[2] = x2 /\ v[3] = x3
       /\ v[3 * a + 1] = x4 /\ v[3 * a + 2] = x5
  <2>1. /\ v \in Seq(A_Call) /\ Len(v) = Len(p) + Len(r)
        /\ \A k \in 1..Len(p) : v[k] = p[k]
        /\ \A k \in 1..Len(r) : v[Len(p) + k] = r[k]
    <3>1. p \in Seq(A_Call) /\ r \in Seq(A_Call)
      BY <1>6, <1>8
    <3> QED  BY <3>1, FollowedBy
  <2> HIDE DEF v
  <2> QED  BY <1>6, <1>8, <2>1
<1> HIDE DEF v
<1> DEFINE w == v \o t
<1>12. /\ w \in Seq(A_Call) /\ Len(w) = 3 * a + (IF X THEN 3 ELSE 2)
       /\ a = 1 => w[1] = x1 /\ w[2] = x2 /\ w[3] = x3
       /\ w[3 * a + 1] = x4 /\ w[3 * a + 2] = x5
       /\ X => w[3 * a + 3] = x6
  <2>1. /\ w \in Seq(A_Call) /\ Len(w) = Len(v) + Len(t)
        /\ \A k \in 1..Len(v) : w[k] = v[k]
        /\ \A k \in 1..Len(t) : w[Len(v) + k] = t[k]
    <3>1. v \in Seq(A_Call) /\ t \in Seq(A_Call)
      BY <1>9, <1>11
    <3> QED  BY <3>1, FollowedBy
  <2> HIDE DEF w
  <2>2. CASE X
    BY <1>3, <1>6, <1>9, <1>11, <2>1, <2>2
  <2>3. CASE ~X
    BY <1>3, <1>6, <1>9, <1>11, <2>1, <2>3
  <2> QED  BY <2>2, <2>3
<1> HIDE DEF w
<1>13. Translation(item) = w
  BY <1>1 DEF v, w
<1>14. ASSUME NEW k \in 0..(Len(w) - 1) PROVE w[k + 1] = Liblink_Call(item, k)
  <2>1. CASE a = 1
    <3>1. \/ k = 0
          \/ k = 1
          \/ k = 2
          \/ k = 3
          \/ k = 4
          \/ k = 5 /\ X
      BY <1>3, <1>12, <2>1
    <3> QED  BY <1>5, <1>12, <2>1, <3>1
  <2>2. CASE a = 0
    <3>1. \/ k = 0
          \/ k = 1
          \/ k = 2 /\ X
      BY <1>3, <1>12, <2>2
    <3> QED  BY <1>5, <1>12, <2>2, <3>1
  <2> QED  BY <1>6, <2>1, <2>2
<1> QED  BY <1>12, <1>13, <1>14 DEF a, X

\* The same for a library's link: n is the name listed for its source, m the
\* last part of its destination, e the suffix of shared libraries.
Liblink_Stage(item, k, n, m, e) ==
  LET reads == Reads(item.src)
      to == Formatted(m \o e)
  IN  /\ reads = 0 \/ k = 0 => Is("src", {"item.src"}, item.src)
      /\ reads = 1 /\ k = 1 => Is("src", {"liblink.src_tmp"}, n)
      /\ reads = 1 /\ k = 2 => Is("src", {"path_buf"}, Base_Name(n))
      /\ reads = 1 /\ k >= 3 => Is("src", {"liblink.src_name"}, Base_Name(n))
      /\ k <= 3 * reads => Is("dst", {"item.dst"}, item.dst)
      /\ k = 3 * reads + 1 => Is("dst", {"path_buf"}, m)
      /\ k = 3 * reads + 2 => Is("dst", {"liblink.dst_tmp"}, to)
      /\ k = 3 * reads + 3 => Is("dst", {"chk_liblink.dst_name"}, Formatted(In(item.dir, to)))

\* Each call of ntran_liblink brings the names one stage on: path_buf is shared
\* by both names, and memcpy saves the one before the other is found.
LEMMA LiblinkMoves ==
  ASSUME Buffers_OK, NEW item, NEW k \in Nat, NEW n, NEW m, NEW e, NEW result,
         n = Listed_Name(item.src), m = Base_Name(item.dst), e = inst_dlib_suffix,
         item = Item, k < 3 * Reads(item.src) + 3,
         Liblink_Stage(item, k, n, m, e), Whole(Liblink_Call(item, k)),
         result = Result(Liblink_Call(item, k)), Called(Liblink_Call(item, k), result)
  PROVE  Liblink_Stage(item, k + 1, n, m, e)'
<1> DEFINE a == Reads(item.src)
           to == Formatted(m \o e)
           g == Formatted(In(item.dir, to))
           h == Base_Name(n)
           dt == item.dst
           st == item.src
           some == {"libname", "base_name", "memcpy", "in_dir", "dlib_suffix"}
<1>1. a \in {0, 1}
  BY DEF Reads
<1>2. a = 1 => n = Word(libraries[st])
  BY DEF Reads, Listed_Name
<1>4. \A l \in Nat : Liblink_Stage(item, l, n, m, e) <=>
      /\ a = 0 \/ l = 0 => Is("src", {"item.src"}, st)
      /\ a = 1 /\ l = 1 => Is("src", {"liblink.src_tmp"}, n)
      /\ a = 1 /\ l = 2 => Is("src", {"path_buf"}, h)
      /\ a = 1 /\ l >= 3 => Is("src", {"liblink.src_name"}, h)
      /\ l <= 3 * a => Is("dst", {"item.dst"}, dt)
      /\ l = 3 * a + 1 => Is("dst", {"path_buf"}, m)
      /\ l = 3 * a + 2 => Is("dst", {"liblink.dst_tmp"}, to)
      /\ l = 3 * a + 3 => Is("dst", {"chk_liblink.dst_name"}, g)
  BY DEF Liblink_Stage
<1>5. \A l \in Nat : Liblink_Stage(item, l, n, m, e)' <=>
      /\ a = 0 \/ l = 0 => Is("src", {"item.src"}, st)'
      /\ a = 1 /\ l = 1 => Is("src", {"liblink.src_tmp"}, n)'
      /\ a = 1 /\ l = 2 => Is("src", {"path_buf"}, h)'
      /\ a = 1 /\ l >= 3 => Is("src", {"liblink.src_name"}, h)'
      /\ l <= 3 * a => Is("dst", {"item.dst"}, dt)'
      /\ l = 3 * a + 1 => Is("dst", {"path_buf"}, m)'
      /\ l = 3 * a + 2 => Is("dst", {"liblink.dst_tmp"}, to)'
      /\ l = 3 * a + 3 => Is("dst", {"chk_liblink.dst_name"}, g)'
  BY DEF Liblink_Stage
<1>6. \A field \in Fields, p \in Buffers, name \in some :
        Liblink_Call(item, k) = Call(name, field, p) =>
        /\ Is(field, {p}, result)'
        /\ \A other \in Fields \ {field} : \A pointers : \A text :
             Is(other, pointers, text) /\ p \notin pointers => Is(other, pointers, text)'
  <2> TAKE field \in Fields, p \in Buffers, name \in some
  <2> HAVE Liblink_Call(item, k) = Call(name, field, p)
  <2>1. Called(Call(name, field, p), result)
    BY Zenon
  <2> HIDE DEF a, to, g, h, dt, st, some
  <2> QED  BY <2>1, Moves, Zenon
<1>8. \A field, p, text : Is(field, p, text) => Value(field) = text
  BY DEF Is, Value
<1>9. \A c : Liblink_Call(item, k) = c => result = Result(c)
  OBVIOUS
<1>10. /\ k = 0 /\ a = 1 => Liblink_Call(item, k) = Call("libname", "src", "liblink.src_tmp")
       /\ k = 1 /\ a = 1 => Liblink_Call(item, k) = Call("base_name", "src", "path_buf")
       /\ k = 2 /\ a = 1 => Liblink_Call(item, k) = Call("memcpy", "src", "liblink.src_name")
       /\ k = 3 * a => Liblink_Call(item, k) = Call("base_name", "dst", "path_buf")
       /\ k = 3 * a + 1 => Liblink_Call(item, k) = Call("dlib_suffix", "dst", "liblink.dst_tmp")
       /\ k = 3 * a + 2 => Liblink_Call(item, k) = Call("in_dir", "dst", "chk_liblink.dst_name")
  BY <1>1 DEF Liblink_Call
<1>11. \A field, p :
        /\ Liblink_Call(item, k) = Call("libname", field, p) =>
             Result(Call("libname", field, p)) = Word(libraries[Value(field)])
        /\ Result(Call("base_name", field, p)) = Base_Name(Value(field))
        /\ Result(Call("memcpy", field, p)) = Value(field)
        /\ Result(Call("in_dir", field, p)) = Formatted(In(item.dir, Value(field)))
        /\ Result(Call("dlib_suffix", field, p)) = Formatted(Value(field) \o e)
  BY DEF Result, Call, Whole
<1>7. m = Base_Name(dt)
  OBVIOUS
<1>18. k < 3 * a + 3
  OBVIOUS
<1> HIDE DEF a, to, g, h, dt, st
<1>12. CASE k = 0 /\ a = 1
  <2>2. Is("src", {"item.src"}, st) /\ Is("dst", {"item.dst"}, dt)
    BY <1>4, <1>12
  <2>3. result = n
    BY <1>2, <1>8, <1>9, <1>10, <1>11, <1>12, <2>2
  <2>4. Is("src", {"liblink.src_tmp"}, n)' /\ Is("dst", {"item.dst"}, dt)'
    BY <1>6, <1>10, <1>12, <2>2, <2>3 DEF Fields, Buffers
  <2> QED  BY <1>5, <1>12, <2>4
<1>13. CASE k = 1 /\ a = 1
  <2>2. Is("src", {"liblink.src_tmp"}, n) /\ Is("dst", {"item.dst"}, dt)
    BY <1>4, <1>13
  <2>3. result = h
    BY <1>8, <1>9, <1>10, <1>11, <1>13, <2>2 DEF h
  <2>4. Is("src", {"path_buf"}, h)' /\ Is("dst", {"item.dst"}, dt)'
    BY <1>6, <1>10, <1>13, <2>2, <2>3 DEF Fields, Buffers
  <2> QED  BY <1>5, <1>13, <2>4
<1>14. CASE k = 2 /\ a = 1
  <2>2. Is("src", {"path_buf"}, h) /\ Is("dst", {"item.dst"}, dt)
    BY <1>4, <1>14
  <2>3. result = h
    BY <1>8, <1>9, <1>10, <1>11, <1>14, <2>2
  <2>4. Is("src", {"liblink.src_name"}, h)' /\ Is("dst", {"item.dst"}, dt)'
    BY <1>6, <1>10, <1>14, <2>2, <2>3 DEF Fields, Buffers
  <2> QED  BY <1>5, <1>14, <2>4
<1>15. CASE k = 3 * a
  <2>2. Is("dst", {"item.dst"}, dt)
    BY <1>1, <1>4, <1>15
  <2>3. result = m
    BY <1>7, <1>8, <1>9, <1>10, <1>11, <1>15, <2>2
  <2>4. Is("dst", {"path_buf"}, m)'
    BY <1>6, <1>10, <1>15, <2>3 DEF Fields, Buffers
  <2>5. /\ Is("src", {"item.src"}, st) => Is("src", {"item.src"}, st)'
        /\ Is("src", {"liblink.src_name"}, h) => Is("src", {"liblink.src_name"}, h)'
    BY <1>6, <1>10, <1>15 DEF Fields, Buffers
  <2> QED  BY <1>1, <1>4, <1>5, <1>15, <2>4, <2>5
<1>16. CASE k = 3 * a + 1
  <2>2. Is("dst", {"path_buf"}, m)
    BY <1>1, <1>4, <1>16
  <2>3. result = to
    BY <1>8, <1>9, <1>10, <1>11, <1>16, <2>2 DEF to
  <2>4. Is("dst", {"liblink.dst_tmp"}, to)'
    BY <1>6, <1>10, <1>16, <2>3 DEF Fields, Buffers
  <2>5. /\ Is("src", {"item.src"}, st) => Is("src", {"item.src"}, st)'
        /\ Is("src", {"liblink.src_name"}, h) => Is("src", {"liblink.src_name"}, h)'
    BY <1>6, <1>10, <1>16 DEF Fields, Buffers
  <2> QED  BY <1>1, <1>4, <1>5, <1>16, <2>4, <2>5
<1>17. CASE k = 3 * a + 2
  <2>2. Is("dst", {"liblink.dst_tmp"}, to)
    BY <1>1, <1>4, <1>17
  <2>3. result = g
    BY <1>8, <1>9, <1>10, <1>11, <1>17, <2>2 DEF g
  <2>4. Is("dst", {"chk_liblink.dst_name"}, g)'
    BY <1>6, <1>10, <1>17, <2>3 DEF Fields, Buffers
  <2>5. /\ Is("src", {"item.src"}, st) => Is("src", {"item.src"}, st)'
        /\ Is("src", {"liblink.src_name"}, h) => Is("src", {"liblink.src_name"}, h)'
    BY <1>6, <1>10, <1>17 DEF Fields, Buffers
  <2> QED  BY <1>1, <1>4, <1>5, <1>17, <2>4, <2>5
<1>19. \/ k = 0 /\ a = 1
       \/ k = 1 /\ a = 1
       \/ k = 2 /\ a = 1
       \/ k = 3 * a
       \/ k = 3 * a + 1
       \/ k = 3 * a + 2
  BY <1>1, <1>18
<1> QED  BY <1>12, <1>13, <1>14, <1>15, <1>16, <1>17, <1>19

\* The calls for a symbolic link: only instchk has one.
LEMMA SymlinkCalls ==
  ASSUME NEW item, item.op = "symlink"
  PROVE  /\ Translation(item) \in Seq(A_Call)
         /\ Len(Translation(item)) = IF prog = "instchk" THEN 1 ELSE 0
         /\ prog = "instchk" => Translation(item)[1] = Call("in_dir", "dst", "chk_link.dst_name")
<1>1. item.op \notin Copies /\ item.op # "liblink" /\ item.op # "mkdir"
  BY DEF Copies
<1>2. Translation(item) = If(prog = "instchk", <<Call("in_dir", "dst", "chk_link.dst_name")>>)
  BY <1>1, Zenon DEF Translation
<1>3. Call("in_dir", "dst", "chk_link.dst_name") \in A_Call
  BY CallsAre DEF Buffers, Call_Names, Word_Buffers
<1> QED  BY <1>2, <1>3, OneIs

\* A directory is not translated.
LEMMA MkdirCalls ==
  ASSUME NEW item, item.op = "mkdir"
  PROVE  Translation(item) = <<>>
<1>1. item.op \notin Copies /\ item.op # "liblink" /\ item.op # "symlink"
  BY DEF Copies
<1> QED  BY <1>1, Zenon DEF Translation

\* No translation takes more than six calls.
LEMMA CallsBounded ==
  ASSUME NEW item, item.op \in Copies \union Links \union {"mkdir"}
  PROVE  /\ Translation(item) \in Seq(A_Call)
         /\ Len(Translation(item)) \in 0..6
<1>1. \A text : Reads(text) \in {0, 1}
  BY DEF Reads
<1>2. CASE item.op \in Copies
  <2>1. /\ Translation(item) \in Seq(A_Call)
        /\ Len(Translation(item)) = Reads(item.src) + Reads(Dst_Text(item))
                                    + IF item.op = "copy_exec" THEN 4 ELSE 2
    BY <1>2, CopyCalls
  <2>2. Reads(item.src) \in {0, 1} /\ Reads(Dst_Text(item)) \in {0, 1}
    BY <1>1
  <2> QED  BY <2>1, <2>2
<1>3. CASE item.op = "symlink"
  BY <1>3, SymlinkCalls
<1>4. CASE item.op = "liblink"
  <2>1. /\ Translation(item) \in Seq(A_Call)
        /\ Len(Translation(item)) = 3 * Reads(item.src) + IF prog = "instchk" THEN 3 ELSE 2
    BY <1>4, LiblinkCalls
  <2>2. Reads(item.src) \in {0, 1}
    BY <1>1
  <2> QED  BY <2>1, <2>2
<1>5. CASE item.op = "mkdir"
  <2>1. Translation(item) = <<>>
    BY <1>5, MkdirCalls
  <2> QED  BY <2>1
<1> QED  BY <1>2, <1>3, <1>4, <1>5 DEF Links

An_Op == Copies \union Links \union {"mkdir"}

\* memcpy follows base_name.
LEMMA MemcpyFollows ==
  ASSUME NEW item, item.op \in An_Op, NEW h \in DOMAIN Translation(item),
         Translation(item)[h].name = "memcpy"
  PROVE  /\ h > 1 /\ h - 1 \in DOMAIN Translation(item)
         /\ Translation(item)[h].field = "src"
         /\ Translation(item)[h - 1] = Call("base_name", "src", "path_buf")
<1>6. PICK k : k = h - 1
  OBVIOUS
<1>7. /\ k \in Nat /\ k < Len(Translation(item)) /\ Len(Translation(item)) \in Nat
      /\ h = k + 1 /\ DOMAIN Translation(item) = 1..Len(Translation(item))
  <2>1. Translation(item) \in Seq(A_Call) /\ Len(Translation(item)) \in 0..6
    BY CallsBounded DEF An_Op
  <2>2. DOMAIN Translation(item) = 1..Len(Translation(item))
    BY <2>1
  <2> QED  BY <1>6, <2>1, <2>2
<1> DEFINE call == Translation(item)[k + 1]
<1>8. call.name = "memcpy"
  BY <1>7
<1>1. \A text : Reads(text) \in {0, 1}
  BY DEF Reads
<1>2. ASSUME item.op \in Copies PROVE FALSE
  <2>1. /\ Len(Translation(item)) = Reads(item.src) + Reads(Dst_Text(item))
                                    + IF item.op = "copy_exec" THEN 4 ELSE 2
        /\ \A l \in 0..(Len(Translation(item)) - 1) :
            Translation(item)[l + 1] = Copy_Call(item, l)
    BY <1>2, CopyCalls
  <2>2. PICK a, b : a = Reads(item.src) /\ b = Reads(Dst_Text(item)) /\ a \in {0, 1} /\ b \in {0, 1}
    BY <1>1
  <2>3. k \in 0..(Len(Translation(item)) - 1) /\ k < a + b + 4
    BY <1>7, <2>1, <2>2
  <2>4. call = Copy_Call(item, k)
    BY <2>1, <2>3
  <2>5. Copy_Call(item, k).name # "memcpy"
    BY <2>2, <2>3 DEF Copy_Call, Call
  <2> QED  BY <1>8, <2>4, <2>5
<1>3. ASSUME item.op = "symlink" PROVE FALSE
  <2>1. /\ Len(Translation(item)) = IF prog = "instchk" THEN 1 ELSE 0
        /\ prog = "instchk" => Translation(item)[1] = Call("in_dir", "dst", "chk_link.dst_name")
    BY <1>3, SymlinkCalls
  <2>2. k = 0 /\ prog = "instchk"
    BY <1>7, <2>1
  <2> QED  BY <1>8, <2>1, <2>2 DEF Call
<1>4. ASSUME item.op = "mkdir" PROVE FALSE
  <2>1. Translation(item) = <<>>
    BY <1>4, MkdirCalls
  <2> QED  BY <1>7, <2>1
<1>5. ASSUME item.op = "liblink"
      PROVE  k = 2 /\ call.field = "src"
             /\ Translation(item)[k] = Call("base_name", "src", "path_buf")
  <2>1. /\ Len(Translation(item)) = 3 * Reads(item.src) + IF prog = "instchk" THEN 3 ELSE 2
        /\ \A l \in 0..(Len(Translation(item)) - 1) :
            Translation(item)[l + 1] = Liblink_Call(item, l)
    BY <1>5, LiblinkCalls
  <2>2. PICK a : a = Reads(item.src) /\ a \in {0, 1}
    BY <1>1
  <2>3. k \in 0..(Len(Translation(item)) - 1) /\ k < 3 * a + 3
    BY <1>7, <2>1, <2>2
  <2>4. call = Liblink_Call(item, k)
    BY <2>1, <2>3
  <2>5. a = 1 /\ k = 2 /\ call.field = "src"
    <3> HIDE DEF call
    <3>1. call.name = "memcpy"
      BY <1>8
    <3>2. CASE a = 0
      <4>1. k = 0 \/ k = 1 \/ k = 2
        BY <2>3, <3>2
      <4> QED  BY <2>2, <2>4, <3>1, <3>2, <4>1 DEF Liblink_Call, Call
    <3>3. CASE a = 1
      <4>1. k = 0 \/ k = 1 \/ k = 2 \/ k = 3 \/ k = 4 \/ k = 5
        BY <2>3, <3>3
      <4> QED  BY <2>2, <2>4, <3>1, <3>3, <4>1 DEF Liblink_Call, Call
    <3> QED  BY <2>2, <3>2, <3>3
  <2>6. 1 \in 0..(Len(Translation(item)) - 1) /\ k = 1 + 1
    BY <1>7, <2>5
  <2>7. Translation(item)[1 + 1] = Liblink_Call(item, 1)
    BY <2>1, <2>6
  <2>8. Liblink_Call(item, 1) = Call("base_name", "src", "path_buf")
    BY <2>2, <2>5 DEF Liblink_Call
  <2> QED  BY <2>5, <2>6, <2>7, <2>8
<1> QED  BY <1>1, <1>2, <1>3, <1>4, <1>5, <1>7 DEF An_Op, Links

\* What the files and the table hold are texts.
LEMMA TextsAre ==
  /\ Seq(STRING) \subseteq Text
  /\ \A suffix \in Suffix_Files : suffix \in Text
  /\ \A library \in Libraries : \A name \in DOMAIN library :
       library[name] \in Text
  /\ \A items \in Tables :
       /\ Len(items) \in Nat \ {0}
       /\ \A k \in 1..Len(items) :
            /\ items[k].op \in An_Op
            /\ items[k].src \in Text /\ items[k].dst \in Text /\ items[k].dir \in Text
<1>1. ASSUME NEW text \in Seq(STRING) PROVE text \in Text
  <2>1. /\ text \in [1..Len(text) -> STRING] /\ Len(text) \in Nat
    OBVIOUS
  <2>2. \A k \in 1..Len(text) : text[k] \in Char
    BY <2>1 DEF Char
  <2> QED  BY <2>1, <2>2 DEF Text
<1>2. ASSUME NEW items \in Tables
      PROVE  /\ Len(items) \in Nat \ {0}
             /\ \A k \in 1..Len(items) :
                  /\ items[k].op \in An_Op
                  /\ {items[k].src, items[k].dst, items[k].dir} \subseteq Seq(STRING)
  <2>1. /\ items \in Seq({items[k] : k \in DOMAIN items}) /\ items # <<>>
        /\ \A k \in DOMAIN items :
             /\ items[k].op \in An_Op
             /\ {items[k].src, items[k].dst, items[k].dir} \subseteq Seq(STRING)
    BY TablesAssumption DEF TablesAssumption, An_Op
  <2>2. Len(items) \in Nat /\ DOMAIN items = 1..Len(items) /\ Len(items) # 0
    BY <2>1
  <2> QED  BY <2>1, <2>2
<1> QED  BY <1>1, <1>2, FilesAssumption DEF FilesAssumption

\* A text fits its array, or goes past the end of one that libname has overrun.
Short ==
  \A b \in Buffers :
    Len(buf[b]) < Max_PathLen \/ (b \in overrun /\ Len(buf[b]) = Max_PathLen)

A_Word_Fills == \E name \in DOMAIN libraries : Len(Word(libraries[name])) >= Max_PathLen

\* What a call leaves behind fits its array, unless it is a word that fills it.
LEMMA ResultIs ==
  ASSUME Buffers_OK, Short, overrun \subseteq Word_Buffers, Item.dir \in Text,
         inst_dlib_suffix \in Text, libraries \in Libraries,
         NEW call \in A_Call, ~Impossible(call),
         call.name = "memcpy" => ins[call.field] = "path_buf"
  PROVE  /\ Result(call) \in Text
         /\ ~Overruns(call) => Len(Result(call)) < Max_PathLen /\ Whole(call)
         /\ Overruns(call) => /\ Len(Result(call)) = Max_PathLen /\ A_Word_Fills
                              /\ call.to \in Word_Buffers
<1> DEFINE text == Value(call.field)
<1>1. text \in Text /\ (ins[call.field] = "path_buf" => Len(text) < Max_PathLen)
  BY DEF Buffers_OK, Short, Value, Fields, A_Call, Word_Buffers, Buffers
<1>2. Exec_Suffix \in Text
  <2>1. <<>> \in Text
    BY DEF Text
  <2> QED  BY <2>1, CharsAre DEF Exec_Suffix
<1>3. /\ call.name \in {"libname", "base_name", "memcpy", "in_dir", "exec_suffix", "dlib_suffix"}
  BY DEF A_Call, Call_Names
<1>10. call.name # "libname" => ~Overruns(call) /\ Whole(call)
  BY DEF Overruns, Whole
<1> HIDE DEF text
<1>4. CASE call.name = "libname"
  <2>1. Result(call) = Read_Word(libraries[text])
    BY <1>4 DEF Result, text
  <2>2. text \in DOMAIN libraries
    BY <1>4 DEF Impossible, text
  <2>3. libraries[text] \in Text
    BY <2>2, TextsAre
  <2>4. PICK word, read, all : word = libraries[text] /\ read = Read_Word(word) /\ all = Word(word)
    OBVIOUS
  <2>5. /\ read \in Text /\ Len(read) <= Max_PathLen
        /\ Len(read) < Max_PathLen => read = all
        /\ Len(read) >= Max_PathLen => Len(all) >= Max_PathLen
    BY <2>3, <2>4, ReadWordIs
  <2>6. Len(read) \in Nat /\ Max_PathLen \in Nat
    BY <2>5, PathLenAssumption DEF PathLenAssumption, Text
  <2>7. Overruns(call) <=> Len(read) >= Max_PathLen
    BY <1>4, <2>1, <2>4 DEF Overruns
  <2>8. call.to \in Word_Buffers
    BY <1>4 DEF A_Call
  <2>9. CASE Overruns(call)
    <3>1. Len(read) = Max_PathLen /\ Len(all) >= Max_PathLen
      BY <2>5, <2>6, <2>7, <2>9
    <3>2. A_Word_Fills
      BY <2>2, <2>4, <3>1 DEF A_Word_Fills
    <3> QED  BY <2>1, <2>4, <2>5, <2>8, <2>9, <3>1, <3>2
  <2>10. CASE ~Overruns(call)
    <3>1. Len(read) < Max_PathLen /\ read = all
      BY <2>5, <2>6, <2>7, <2>10
    <3>2. Whole(call)
      BY <2>1, <2>4, <3>1 DEF Whole, text
    <3> QED  BY <2>1, <2>4, <2>5, <2>10, <3>1, <3>2
  <2> QED  BY <2>9, <2>10
<1>5. CASE call.name = "base_name"
  <2>1. Result(call) = Base_Name(text)
    BY <1>5 DEF Result, text
  <2>2. Len(text) < Max_PathLen
    <3>1. Len(text) \in Nat
      BY <1>1 DEF Text
    <3>2. ~(Len(text) >= Max_PathLen)
      BY <1>5 DEF Impossible, text
    <3> QED  BY <3>1, <3>2, PathLenAssumption DEF PathLenAssumption
  <2>3. /\ Base_Name(text) \in Text
        /\ Len(Base_Name(text)) <= Len(text) \/ Len(Base_Name(text)) = 1
    BY <1>1, BaseNameIs
  <2>4. Len(text) \in Nat /\ Len(Base_Name(text)) \in Nat
    BY <1>1, <2>3 DEF Text
  <2>5. \A l, m \in Nat : m < Max_PathLen /\ (l <= m \/ l = 1) => l < Max_PathLen
    BY PathLenAssumption DEF PathLenAssumption
  <2>6. Len(Base_Name(text)) < Max_PathLen
    BY <2>2, <2>3, <2>4, <2>5, Zenon
  <2> QED  BY <1>5, <1>10, <2>1, <2>3, <2>6
<1>6. CASE call.name = "memcpy"
  <2>1. Result(call) = text
    BY <1>6 DEF Result, text
  <2>2. Len(text) < Max_PathLen
    BY <1>1, <1>6
  <2> QED  BY <1>1, <1>6, <1>10, <2>1, <2>2
<1>7. CASE call.name = "in_dir"
  <2>1. Result(call) = Formatted(In(Item.dir, text))
    BY <1>7 DEF Result, text
  <2>2. In(Item.dir, text) \in Text
    BY <1>1, InIs
  <2> QED  BY <1>7, <1>10, <2>1, <2>2, FormattedIs
<1>8. CASE call.name = "exec_suffix"
  <2>1. Result(call) = Formatted(text \o Exec_Suffix)
    BY <1>8 DEF Result, text
  <2>2. text \o Exec_Suffix \in Text
    BY <1>1, <1>2, JoinedIs
  <2> QED  BY <1>8, <1>10, <2>1, <2>2, FormattedIs
<1>9. CASE call.name = "dlib_suffix"
  <2>1. Result(call) = Formatted(text \o inst_dlib_suffix)
    BY <1>9 DEF Result, text
  <2>2. text \o inst_dlib_suffix \in Text
    BY <1>1, JoinedIs
  <2> QED  BY <1>9, <1>10, <2>1, <2>2, FormattedIs
<1> QED  BY <1>3, <1>4, <1>5, <1>6, <1>7, <1>8, <1>9, <1>10

(***************************************************************************)
(* The names of the item in work.                                          *)
(***************************************************************************)

\* What the fields of the item in work find after k calls.
Stage(k) ==
  /\ Item.op \in Copies =>
       Copy_Stage(Item, k, Listed_Name(Item.src), Listed_Name(Dst_Text(Item)), Exec_Suffix)
  /\ Item.op = "symlink" =>
       /\ Is("src", {"item.src"}, Item.src)
       /\ k = 0 => Is("dst", {"item.dst"}, Item.dst)
       /\ k = 1 => Is("dst", {"chk_link.dst_name"}, Formatted(In(Item.dir, Item.dst)))
  /\ Item.op = "liblink" =>
       Liblink_Stage(Item, k, Listed_Name(Item.src), Base_Name(Item.dst), inst_dlib_suffix)

Working == pc \notin {"init", "item", "exit"}

\* memcpy copies from the buffer of base_name.
Copying ==
  s \in DOMAIN Translation(Item) /\ Translation(Item)[s].name = "memcpy" =>
    ins[Translation(Item)[s].field] = "path_buf"

\* Between the beginning of an item and its end its names are as far as its
\* translation has come, as long as no array is overrun.
NamesInv ==
  /\ table \in Tables /\ libraries \in Libraries /\ suffix_file \in Suffix_Files
  /\ prog \in {"installer", "instchk", "deinstaller"}
  /\ i \in 1..Len(table) /\ s \in 1..7
  /\ inst_dlib_suffix \in Text /\ Len(inst_dlib_suffix) <= Max_Suffix + 1
  /\ Buffers_OK /\ Short
  /\ overrun \subseteq Word_Buffers /\ (overrun # {} => A_Word_Fills)
  /\ Working =>
       /\ ~Undefined_Fields(Item)
       /\ s \in 1..(Len(Translation(Item)) + 1) /\ Copying
       /\ overrun = {} => Stage(s - 1)
       /\ pc = "translate" \/ s = Len(Translation(Item)) + 1

\* The item in work is one of the table.
LEMMA ItemIs ==
  ASSUME NamesInv
  PROVE  /\ Item.op \in An_Op
         /\ Item.src \in Text /\ Item.dst \in Text /\ Item.dir \in Text
<1> DEFINE k == IF prog = "deinstaller" THEN Len(table) + 1 - i ELSE i
<1>1. Len(table) \in Nat /\ i \in 1..Len(table)
  BY TextsAre DEF NamesInv
<1>2. k \in 1..Len(table)
  BY <1>1
<1>3. Item = table[k]
  BY DEF Item
<1> HIDE DEF k
<1> QED  BY <1>2, <1>3, TextsAre DEF NamesInv

\* The program starts with no item.
LEMMA NamesInit == Init => NamesInv
<1> SUFFICES ASSUME Init PROVE NamesInv
  OBVIOUS
<1>1. <<>> \in Text /\ Len(<<>>) = 0
  BY DEF Text
<1>2. i \in 1..Len(table) /\ s \in 1..7
  <2>1. Len(table) \in Nat \ {0} /\ i = 1 /\ s = 1
    BY TextsAre DEF Init
  <2> QED  BY <2>1
<1>3. Buffers_OK
  <2>1. ins \in [Fields -> Pointers]
    BY DEF Init, Fields, Pointers
  <2>2. buf \in [Pointers -> Text]
    BY <1>1 DEF Init
  <2> QED  BY <2>1, <2>2 DEF Buffers_OK
<1>4. Short
  BY <1>1, PathLenAssumption DEF Init, Short, Pointers, PathLenAssumption
<1>5. Len(inst_dlib_suffix) <= Max_Suffix + 1
  BY <1>1, SuffixAssumption DEF Init, SuffixAssumption
<1> QED  BY <1>1, <1>2, <1>3, <1>4, <1>5 DEF Init, NamesInv, Working

\* What a step may do to names and to the place in the loop.
LEMMA StepKinds ==
  ASSUME [Next]_vars
  PROVE  /\ UNCHANGED of_program
         /\ \/ Install_Init
            \/ Begin
            \/ Translate
            \/ Translate_Overruns
            \/ /\ UNCHANGED names /\ UNCHANGED inst_dlib_suffix
               /\ \/ i' = i /\ pc' = pc
                  \/ /\ i' = i /\ Working /\ Working' /\ pc' # "translate"
                     /\ pc = "translate" => ~Translating
                  \/ i' = i /\ pc' = "exit"
                  \/ i' = i + 1 /\ i # Len(table) /\ pc' = "item"
<1>1. CASE UNCHANGED vars
  BY <1>1 DEF vars, outcome
<1> DEFINE Ended == \/ i' = i /\ pc' = "exit"
                    \/ i' = i + 1 /\ i # Len(table) /\ pc' = "item"
<1>2. \A status : Ends(status) => Ended
  BY DEF Ends, Exits
<1> HIDE DEF Ended
<1>3. ASSUME Begin_Fails \/ Translate_Fails
      PROVE  Ended /\ UNCHANGED names /\ UNCHANGED inst_dlib_suffix /\ UNCHANGED of_program
  BY <1>2, <1>3 DEF Begin_Fails, Translate_Fails, Fatal
<1>4. ASSUME Look_Up_User_Fails \/ Look_Up_Group_Fails \/ Operate \/ End_Link \/ Release
      PROVE  Ended /\ UNCHANGED names /\ UNCHANGED inst_dlib_suffix /\ UNCHANGED of_program
  BY <1>2, <1>4
  DEF Look_Up_User_Fails, Look_Up_Group_Fails, Look_Up_Fails, Operate, End_Link, Release
<1>5. ASSUME Translated \/ Look_Up_User \/ Look_Up_Group
      PROVE  /\ i' = i /\ Working /\ Working' /\ pc' # "translate"
             /\ pc = "translate" => ~Translating
             /\ UNCHANGED names /\ UNCHANGED inst_dlib_suffix /\ UNCHANGED of_program
  BY <1>5 DEF Translated, Look_Up_User, Look_Up_Group, Working, outcome
<1>6. ASSUME Install \/ Link_By_Copy \/ Check \/ Get_Ownership \/ Compare
      PROVE  /\ i' = i /\ Working /\ Working' /\ pc' # "translate"
             /\ pc # "translate"
             /\ UNCHANGED names /\ UNCHANGED inst_dlib_suffix /\ UNCHANGED of_program
  BY <1>6 DEF Install, Link_By_Copy, Check, Get_Ownership, Compare, Working, outcome
<1>7. ASSUME End_Check
      PROVE  /\ i' = i /\ Working /\ pc # "translate"
             /\ pc' = "exit" \/ (Working' /\ pc' # "translate")
             /\ UNCHANGED names /\ UNCHANGED inst_dlib_suffix /\ UNCHANGED of_program
  BY <1>7 DEF End_Check, Working, Exits
<1>8. CASE Install_Init \/ Begin \/ Translate \/ Translate_Overruns
  BY <1>8 DEF Install_Init, Begin, Translate, Translate_Overruns
<1> QED  BY <1>1, <1>3, <1>4, <1>5, <1>6, <1>7, <1>8 DEF Next, Ended

\* Names stay as they are while nothing is written to them.
LEMMA StageStays ==
  ASSUME UNCHANGED of_program, UNCHANGED names, UNCHANGED inst_dlib_suffix, i' = i,
         Stage(s - 1)
  PROVE  Stage(s - 1)'
<1>1. /\ Item' = Item /\ s' = s /\ ins' = ins /\ buf' = buf /\ libraries' = libraries
      /\ inst_dlib_suffix' = inst_dlib_suffix /\ Exec_Suffix' = Exec_Suffix
  BY DEF Item, of_program, names, Exec_Suffix
<1>2. \A text : Listed_Name(text)' = Listed_Name(text)
  BY <1>1 DEF Listed_Name
<1>3. \A field, pointers, text : Is(field, pointers, text)' = Is(field, pointers, text)
  BY <1>1 DEF Is
<1>4. \A item, k, n, d, e : Copy_Stage(item, k, n, d, e)' = Copy_Stage(item, k, n, d, e)
  BY <1>1 DEF Copy_Stage, Is
<1>5. \A item, k, n, d, e : Liblink_Stage(item, k, n, d, e)' = Liblink_Stage(item, k, n, d, e)
  BY <1>1 DEF Liblink_Stage, Is
<1> QED  BY <1>1, <1>2, <1>3, <1>4, <1>5 DEF Stage

\* A new item points to its own names, whatever the last one left.
LEMMA BeginKeeps ==
  ASSUME NamesInv, Begin
  PROVE  NamesInv'
<1>1. /\ UNCHANGED of_program /\ i' = i /\ inst_dlib_suffix' = inst_dlib_suffix
      /\ pc' = "translate" /\ s' = 1 /\ ~Undefined_Fields(Item) /\ overrun' = overrun
      /\ buf' = [buf EXCEPT !["item.src"] = Item.src, !["item.dst"] = Item.dst]
      /\ ins' = [src |-> "item.src",
                 dst |-> IF Item.dst = NULL THEN "item.src" ELSE "item.dst"]
  BY DEF Begin, outcome
<1>2. /\ Item.op \in An_Op
      /\ Item.src \in Text /\ Item.dst \in Text /\ Item.dir \in Text
  BY ItemIs
<1>3. Item' = Item /\ libraries' = libraries /\ Exec_Suffix' = Exec_Suffix /\ prog' = prog
  BY <1>1 DEF Item, of_program, Exec_Suffix
<1>4. ins' \in [Fields -> Pointers]
  BY <1>1 DEF Fields, Pointers
<1>5. /\ buf' \in [Pointers -> Text]
      /\ buf'["item.src"] = Item.src /\ buf'["item.dst"] = Item.dst
      /\ \A b \in Buffers : buf'[b] = buf[b]
  BY <1>1, <1>2 DEF NamesInv, Buffers_OK, Pointers, Buffers
<1>6. /\ ins'["src"] = "item.src"
      /\ ins'["dst"] = IF Item.dst = NULL THEN "item.src" ELSE "item.dst"
  BY <1>1
<1>7. PICK item : item = Item
  OBVIOUS
<1>8. /\ Is("src", {"item.src"}, item.src)'
      /\ Is("dst", {"item.src", "item.dst"}, Dst_Text(item))'
      /\ item.dst # NULL => Is("dst", {"item.dst"}, item.dst)'
  BY <1>5, <1>6, <1>7 DEF Is, Dst_Text
<1>9. \A field, p, q, text : Is(field, p, text)' /\ p \subseteq q => Is(field, q, text)'
  BY DEF Is
<1>10. \A text : Reads(text) \in {0, 1} /\ (Reads(text) = 0 => Listed_Name(text)' = text)
  BY DEF Reads, Listed_Name
<1>11. ASSUME item.op \in Copies, NEW n, NEW d, NEW e,
              n = Listed_Name(item.src)', d = Listed_Name(Dst_Text(item))'
       PROVE  Copy_Stage(item, 0, n, d, e)'
  <2>1. PICK a, b : a = Reads(item.src) /\ b = Reads(Dst_Text(item)) /\ a \in {0, 1} /\ b \in {0, 1}
    BY <1>10
  <2>2. a = 0 => Is("src", {"item.src", "copy.src_name"}, n)'
    BY <1>8, <1>9, <1>10, <1>11, <2>1
  <2>3. b = 0 => Is("dst", {"item.src", "item.dst", "copy.dst_name"}, d)'
    BY <1>8, <1>9, <1>10, <1>11, <2>1
  <2> QED  BY <1>8, <2>1, <2>2, <2>3 DEF Copy_Stage
<1>12. ASSUME item.op \in Links PROVE item.dst # NULL
  BY <1>1, <1>7, <1>12 DEF Undefined_Fields, Links
<1>13. ASSUME item.op = "liblink", NEW n, NEW m, NEW e
       PROVE  Liblink_Stage(item, 0, n, m, e)'
  <2>1. PICK a : a = Reads(item.src) /\ a \in {0, 1}
    BY <1>10
  <2>2. Is("dst", {"item.dst"}, item.dst)'
    BY <1>8, <1>12, <1>13 DEF Links
  <2> QED  BY <1>8, <2>1, <2>2 DEF Liblink_Stage
<1>14. Stage(0)'
  <2>1. item' = Item'
    BY <1>3, <1>7
  <2>2. item.op \in Copies =>
          Copy_Stage(Item, 0, Listed_Name(Item.src), Listed_Name(Dst_Text(Item)), Exec_Suffix)'
    <3>1. PICK n, d, e : /\ n = Listed_Name(item.src)' /\ d = Listed_Name(Dst_Text(item))'
                         /\ e = Exec_Suffix'
      OBVIOUS
    <3> QED  BY <1>3, <1>7, <1>11, <3>1
  <2>3. item.op = "symlink" =>
          /\ Is("src", {"item.src"}, Item.src)'
          /\ Is("dst", {"item.dst"}, Item.dst)'
    BY <1>3, <1>7, <1>8, <1>12 DEF Links
  <2>4. item.op = "liblink" =>
          Liblink_Stage(Item, 0, Listed_Name(Item.src), Base_Name(Item.dst), inst_dlib_suffix)'
    <3>1. PICK n, m, e : /\ n = Listed_Name(item.src)' /\ m = Base_Name(item.dst)
                         /\ e = inst_dlib_suffix'
      OBVIOUS
    <3> QED  BY <1>3, <1>7, <1>13, <3>1
  <2> QED  BY <1>3, <1>7, <2>2, <2>3, <2>4 DEF Stage
<1>15. Translation(Item)' = Translation(Item) /\ Len(Translation(Item)) \in 0..6
  <2>1. Translation(Item)' = Translation(Item)
    BY <1>3 DEF Translation
  <2> QED  BY <1>2, <2>1, CallsBounded DEF An_Op
<1>16. Undefined_Fields(Item)' = Undefined_Fields(Item)
  BY <1>3 DEF Undefined_Fields
<1>17. Short' /\ A_Word_Fills' = A_Word_Fills
  BY <1>1, <1>3, <1>5 DEF Short, NamesInv, A_Word_Fills
<1>18. s' - 1 = 0 /\ s' \in 1..7 /\ s' \in 1..(Len(Translation(Item)') + 1)
  BY <1>1, <1>15
<1>19. Stage(s - 1)'
  BY <1>14, <1>18
<1>21. Copying'
  <2>1. PICK tr : tr = Translation(Item)
    OBVIOUS
  <2>2. 1 \in DOMAIN tr => tr[1].name # "memcpy"
    BY <1>2, <2>1, MemcpyFollows
  <2> QED  BY <1>1, <1>15, <2>1, <2>2 DEF Copying
<1>20. /\ table' = table /\ suffix_file' = suffix_file /\ Buffers_OK'
       /\ table' \in Tables /\ libraries' \in Libraries /\ suffix_file' \in Suffix_Files
       /\ prog' \in {"installer", "instchk", "deinstaller"}
       /\ i' \in 1..Len(table')
       /\ inst_dlib_suffix' \in Text /\ Len(inst_dlib_suffix') <= Max_Suffix + 1
  BY <1>1, <1>4, <1>5 DEF NamesInv, of_program, Buffers_OK
<1> QED  BY <1>1, <1>15, <1>16, <1>17, <1>18, <1>19, <1>20, <1>21 DEF NamesInv

\* Each call brings the names of an item one stage on, for every operation.
LEMMA TranslateMoves ==
  ASSUME NamesInv, NEW item, item = Item, NEW k \in Nat,
         k < Len(Translation(item)), Stage(k), NEW call, call = Translation(item)[k + 1],
         NEW result, result = Result(call), Called(call, result), Whole(call),
         UNCHANGED of_program, UNCHANGED inst_dlib_suffix, i' = i
  PROVE  Stage(k + 1)'
<1>1. /\ Item' = Item /\ libraries' = libraries /\ inst_dlib_suffix' = inst_dlib_suffix
      /\ Exec_Suffix' = Exec_Suffix
  BY DEF Item, of_program, Exec_Suffix
<1>2. \A text : Listed_Name(text)' = Listed_Name(text)
  BY <1>1 DEF Listed_Name
<1>3. Buffers_OK /\ item.op \in An_Op
  BY ItemIs DEF NamesInv
<1>4. \A text : Reads(text) \in {0, 1}
  BY DEF Reads
<1>5. item.op \in Copies =>
        Copy_Stage(Item, k + 1, Listed_Name(Item.src), Listed_Name(Dst_Text(Item)), Exec_Suffix)'
  <2> SUFFICES ASSUME item.op \in Copies
               PROVE  Copy_Stage(Item, k + 1, Listed_Name(Item.src),
                                 Listed_Name(Dst_Text(Item)), Exec_Suffix)'
    OBVIOUS
  <2>1. PICK n, d, e : n = Listed_Name(item.src) /\ d = Listed_Name(Dst_Text(item)) /\ e = Exec_Suffix
    OBVIOUS
  <2>2. /\ call = Copy_Call(item, k)
        /\ k < Reads(item.src) + Reads(Dst_Text(item)) + 4
    <3>1. /\ Len(Translation(item)) = Reads(item.src) + Reads(Dst_Text(item))
                                      + IF item.op = "copy_exec" THEN 4 ELSE 2
          /\ \A l \in 0..(Len(Translation(item)) - 1) :
              Translation(item)[l + 1] = Copy_Call(item, l)
      BY CopyCalls
    <3>2. PICK a, b : a = Reads(item.src) /\ b = Reads(Dst_Text(item)) /\ a \in {0, 1} /\ b \in {0, 1}
      BY <1>4
    <3>3. k \in 0..(Len(Translation(item)) - 1) /\ k < a + b + 4
      BY <3>1, <3>2
    <3> QED  BY <3>1, <3>2, <3>3
  <2>3. Copy_Stage(item, k, n, d, e)
    BY <2>1 DEF Stage
  <2>4. Copy_Stage(item, k + 1, n, d, e)'
    BY <1>3, <2>1, <2>2, <2>3, CopyMoves, Zenon
  <2>5. n = Listed_Name(item.src)' /\ d = Listed_Name(Dst_Text(item))' /\ e = Exec_Suffix'
    BY <1>1, <1>2, <2>1
  <2> QED  BY <1>1, <2>4, <2>5
<1>6. item.op = "liblink" =>
        Liblink_Stage(Item, k + 1, Listed_Name(Item.src), Base_Name(Item.dst), inst_dlib_suffix)'
  <2> SUFFICES ASSUME item.op = "liblink"
               PROVE  Liblink_Stage(Item, k + 1, Listed_Name(Item.src), Base_Name(Item.dst),
                                    inst_dlib_suffix)'
    OBVIOUS
  <2>1. PICK n, m, e : n = Listed_Name(item.src) /\ m = Base_Name(item.dst) /\ e = inst_dlib_suffix
    OBVIOUS
  <2>2. /\ call = Liblink_Call(item, k)
        /\ k < 3 * Reads(item.src) + 3
    <3>1. /\ Len(Translation(item)) = 3 * Reads(item.src) + IF prog = "instchk" THEN 3 ELSE 2
          /\ \A l \in 0..(Len(Translation(item)) - 1) :
              Translation(item)[l + 1] = Liblink_Call(item, l)
      BY LiblinkCalls
    <3>2. PICK a : a = Reads(item.src) /\ a \in {0, 1}
      BY <1>4
    <3>3. k \in 0..(Len(Translation(item)) - 1) /\ k < 3 * a + 3
      BY <3>1, <3>2
    <3> QED  BY <3>1, <3>2, <3>3
  <2>3. Liblink_Stage(item, k, n, m, e)
    BY <2>1 DEF Stage
  <2>4. Liblink_Stage(item, k + 1, n, m, e)'
    BY <1>3, <2>1, <2>2, <2>3, LiblinkMoves, Zenon
  <2>5. n = Listed_Name(item.src)' /\ m = Base_Name(item.dst) /\ e = inst_dlib_suffix'
    BY <1>1, <1>2, <2>1
  <2> QED  BY <1>1, <2>4, <2>5
<1>7. item.op = "symlink" =>
        /\ Is("src", {"item.src"}, Item.src)'
        /\ k + 1 = 0 => Is("dst", {"item.dst"}, Item.dst)'
        /\ k + 1 = 1 => Is("dst", {"chk_link.dst_name"}, Formatted(In(Item.dir, Item.dst)))'
  <2> SUFFICES ASSUME item.op = "symlink"
               PROVE  /\ Is("src", {"item.src"}, Item.src)'
                      /\ k + 1 = 1 => Is("dst", {"chk_link.dst_name"}, Formatted(In(Item.dir, Item.dst)))'
    OBVIOUS
  <2>1. k = 0 /\ call = Call("in_dir", "dst", "chk_link.dst_name")
    <3>1. /\ Len(Translation(item)) = IF prog = "instchk" THEN 1 ELSE 0
          /\ prog = "instchk" => Translation(item)[1] = Call("in_dir", "dst", "chk_link.dst_name")
      BY SymlinkCalls
    <3>2. PICK l : l = Len(Translation(item))
      OBVIOUS
    <3>3. k < l /\ l = IF prog = "instchk" THEN 1 ELSE 0
      BY <3>1, <3>2, Zenon
    <3>4. k = 0 /\ k + 1 = 1 /\ prog = "instchk"
      BY <3>3
    <3> QED  BY <3>1, <3>4, Zenon
  <2>2. Is("src", {"item.src"}, item.src) /\ Is("dst", {"item.dst"}, item.dst)
    BY <2>1 DEF Stage
  <2>3. result = Formatted(In(item.dir, item.dst))
    <3>1. call.name = "in_dir" /\ call.field = "dst"
      BY <2>1 DEF Call
    <3>2. Value(call.field) = item.dst
      BY <2>2, <3>1 DEF Is, Value
    <3> DEFINE text == Value(call.field)
    <3>3. Result(call) = Formatted(In(Item.dir, text))
      BY <3>1 DEF Result
    <3> HIDE DEF text
    <3>4. text = item.dst
      BY <3>2 DEF text
    <3> QED  BY <3>3, <3>4
  <2>4. /\ Is("dst", {"chk_link.dst_name"}, result)'
        /\ \A other \in Fields \ {"dst"} : \A pointers : \A text :
             Is(other, pointers, text) /\ "chk_link.dst_name" \notin pointers
             => Is(other, pointers, text)'
    <3>1. Called(Call("in_dir", "dst", "chk_link.dst_name"), result)
      BY <2>1
    <3>2. "dst" \in Fields /\ "chk_link.dst_name" \in Buffers
      BY DEF Fields, Buffers
    <3> QED  BY <1>3, <3>1, <3>2, Moves, Zenon
  <2>5. Is("src", {"item.src"}, item.src)'
    BY <2>2, <2>4 DEF Fields
  <2> QED  BY <1>1, <2>3, <2>4, <2>5
<1> QED  BY <1>1, <1>5, <1>6, <1>7 DEF Stage

\* A call of the translation keeps the invariant, also when it overruns its array
\* and empties another.
LEMMA TranslateKeeps ==
  ASSUME NamesInv, Translate \/ Translate_Overruns
  PROVE  NamesInv'
<1>1. PICK item, k, call, result :
        item = Item /\ k = s - 1 /\ call = Translation(item)[s] /\ result = Result(call)
  OBVIOUS
<1>2. /\ UNCHANGED of_program /\ inst_dlib_suffix' \in {inst_dlib_suffix, <<>>} /\ i' = i
      /\ pc = "translate" /\ pc' \in {"translate", "exit"}
      /\ s <= Len(Translation(item)) /\ s' = s + 1
      /\ ~Impossible(call) /\ ins' = [ins EXCEPT ![call.field] = call.to]
  BY <1>1 DEF Translate, Translate_Overruns, Translating, Exits, outcome
<1>14. PICK harmed \in Buffers :
        \/ /\ ~Overruns(call) /\ overrun' = overrun /\ inst_dlib_suffix' = inst_dlib_suffix
           /\ buf' = [buf EXCEPT ![call.to] = result]
        \/ /\ Overruns(call) /\ overrun' = overrun \union {call.to}
           /\ buf' = [buf EXCEPT ![harmed] = <<>>, ![call.to] = result]
  BY <1>1 DEF Translate, Translate_Overruns, Buffers
<1>3. Translation(item) \in Seq(A_Call) /\ Len(Translation(item)) \in 0..6 /\ Item.dir \in Text
  BY <1>1, ItemIs, CallsBounded DEF An_Op
<1>4. /\ s \in 1..(Len(Translation(item)) + 1) /\ ~Undefined_Fields(Item) /\ Copying
      /\ overrun = {} => Stage(k)
  BY <1>1, <1>2 DEF NamesInv, Working
<1>5. k \in Nat /\ k + 1 = s /\ k < Len(Translation(item)) /\ s' = k + 2
  BY <1>1, <1>2, <1>3, <1>4
<1>6. call \in A_Call /\ s \in DOMAIN Translation(item)
  BY <1>1, <1>3, <1>5
<1>7. /\ result \in Text
      /\ ~Overruns(call) => Len(result) < Max_PathLen /\ Whole(call)
      /\ Overruns(call) => Len(result) = Max_PathLen /\ A_Word_Fills /\ call.to \in Word_Buffers
  <2>1. call.name = "memcpy" => ins[call.field] = "path_buf"
    BY <1>1, <1>4, <1>6 DEF Copying
  <2> QED  BY <1>1, <1>2, <1>3, <1>6, <2>1, ResultIs DEF NamesInv
<1>15. /\ call.to \in Buffers /\ call.field \in Fields /\ <<>> \in Text /\ Len(<<>>) = 0
       /\ Max_PathLen \in Nat \ {0, 1}
  BY <1>6, PathLenAssumption DEF A_Call, Fields, Text, PathLenAssumption
<1>16. /\ buf' \in [Pointers -> Text] /\ buf'[call.to] = result
       /\ \A b \in Buffers \ {call.to} : buf'[b] \in {buf[b], <<>>}
  <2>1. buf \in [Pointers -> Text] /\ Buffers \subseteq Pointers
    BY DEF NamesInv, Buffers_OK, Pointers
  <2> QED  BY <1>7, <1>14, <1>15, <2>1
<1>8. Buffers_OK' /\ Short'
  <2>1. ins' \in [Fields -> Pointers]
    BY <1>2, <1>15 DEF NamesInv, Buffers_OK, Pointers
  <2>2. ASSUME NEW b \in Buffers
        PROVE  Len(buf'[b]) < Max_PathLen \/ (b \in overrun' /\ Len(buf'[b]) = Max_PathLen)
    <3>1. CASE b = call.to
      BY <1>7, <1>14, <1>16, <3>1
    <3>2. CASE b # call.to
      <4>1. Len(buf[b]) < Max_PathLen \/ (b \in overrun /\ Len(buf[b]) = Max_PathLen)
        BY DEF NamesInv, Short
      <4> QED  BY <1>14, <1>15, <1>16, <3>2, <4>1
    <3> QED  BY <3>1, <3>2
  <2> QED  BY <1>16, <2>1, <2>2 DEF Buffers_OK, Short
<1>9. overrun' = {} => Stage(k + 1)'
  <2> SUFFICES ASSUME overrun' = {} PROVE Stage(k + 1)'
    OBVIOUS
  <2>1. ~Overruns(call) /\ overrun = {} /\ inst_dlib_suffix' = inst_dlib_suffix
    BY <1>14
  <2>2. Called(call, result)
    BY <1>2, <1>14, <2>1 DEF Called
  <2> QED  BY <1>1, <1>2, <1>4, <1>5, <1>7, <2>1, <2>2, TranslateMoves
<1>10. /\ Item' = Item /\ prog' = prog
       /\ table' = table /\ libraries' = libraries /\ suffix_file' = suffix_file
  BY <1>2 DEF Item, of_program
<1>11. Translation(Item)' = Translation(item) /\ Undefined_Fields(Item)' = Undefined_Fields(Item)
  BY <1>1, <1>10 DEF Translation, Undefined_Fields
<1>12. s' - 1 = k + 1 /\ s' \in 1..7 /\ s' \in 1..(Len(Translation(item)) + 1)
  <2>1. PICK n, t : n = Len(Translation(item)) /\ t = s'
    OBVIOUS
  <2>2. n \in 0..6 /\ k \in Nat /\ k < n /\ t = k + 2
    BY <1>3, <1>5, <2>1
  <2>3. t - 1 = k + 1 /\ t \in 1..7 /\ t \in 1..(n + 1)
    BY <2>2
  <2> QED  BY <2>1, <2>3
<1>13. overrun' = {} => Stage(s - 1)'
  BY <1>9, <1>12
<1>17. Copying'
  <2>1. PICK tr, l : tr = Translation(item) /\ l = s'
    OBVIOUS
  <2>2. SUFFICES ASSUME l \in DOMAIN tr, tr[l].name = "memcpy"
                 PROVE  ins'[tr[l].field] = "path_buf"
    BY <1>11, <2>1 DEF Copying
  <2>3. tr[l].field = "src" /\ tr[l - 1] = Call("base_name", "src", "path_buf")
    BY <1>1, <2>1, <2>2, ItemIs, MemcpyFollows
  <2>4. l - 1 = s
    BY <1>5, <2>1
  <2>5. call.field = "src" /\ call.to = "path_buf"
    BY <1>1, <2>1, <2>3, <2>4 DEF Call
  <2> QED  BY <1>2, <2>3, <2>5 DEF NamesInv, Buffers_OK, Fields
<1>18. /\ inst_dlib_suffix' \in Text /\ Len(inst_dlib_suffix') <= Max_Suffix + 1
  BY <1>2, <1>15, SuffixAssumption DEF NamesInv, SuffixAssumption
<1>19. overrun' \subseteq Word_Buffers /\ (overrun' # {} => A_Word_Fills')
  <2>1. A_Word_Fills' = A_Word_Fills
    BY <1>10 DEF A_Word_Fills
  <2> QED  BY <1>7, <1>14, <2>1 DEF NamesInv
<1>20. /\ table' \in Tables /\ libraries' \in Libraries /\ suffix_file' \in Suffix_Files
       /\ prog' \in {"installer", "instchk", "deinstaller"} /\ i' \in 1..Len(table')
  BY <1>2, <1>10 DEF NamesInv
<1>21. Working' => pc' = "translate"
  BY <1>2 DEF Working
<1> QED  BY <1>4, <1>8, <1>11, <1>12, <1>13, <1>17, <1>18, <1>19, <1>20, <1>21 DEF NamesInv

\* install_init reads the suffix of libraries.
LEMMA InitKeeps ==
  ASSUME NamesInv, Install_Init
  PROVE  NamesInv'
<1>1. PICK read :
        /\ UNCHANGED of_program /\ UNCHANGED names /\ i' = i /\ ~Working'
        /\ read = Read_In(Max_Suffix, suffix_file)
        /\ \/ inst_dlib_suffix' = inst_dlib_suffix
           \/ inst_dlib_suffix' = <<".">> \o Sanitized(read)
  BY DEF Install_Init, Exits, Working
<1>2. read \in Text /\ Len(read) <= Max_Suffix
  BY <1>1, TextsAre, ReadInIs, SuffixAssumption DEF NamesInv, SuffixAssumption
<1>3. PICK name : name = Sanitized(read) /\ name \in Text /\ Len(name) <= Len(read)
  BY <1>2, UpToIs DEF Sanitized
<1>4. /\ <<".">> \o name \in Text /\ Len(<<".">> \o name) = Len(<<".">>) + Len(name)
      /\ Len(<<".">>) = 1 /\ Len(name) \in Nat
  BY <1>3, CharsAre, JoinedIs
<1>5. Len(read) \in Nat /\ Max_Suffix \in Nat
  BY <1>2, SuffixAssumption DEF Text, SuffixAssumption
<1>6. Len(<<".">> \o name) <= Max_Suffix + 1
  BY <1>2, <1>3, <1>4, <1>5
<1>7. inst_dlib_suffix' \in Text /\ Len(inst_dlib_suffix') <= Max_Suffix + 1
  BY <1>1, <1>3, <1>4, <1>6 DEF NamesInv
<1> QED  BY <1>1, <1>7 DEF NamesInv, of_program, names, Buffers_OK, Short, A_Word_Fills

\* The invariant of the names is inductive.
LEMMA NamesStep == NamesInv /\ [Next]_vars => NamesInv'
<1> SUFFICES ASSUME NamesInv, [Next]_vars PROVE NamesInv'
  OBVIOUS
<1>1. CASE Install_Init \/ Begin \/ Translate \/ Translate_Overruns
  BY <1>1, InitKeeps, BeginKeeps, TranslateKeeps
<1>2. ASSUME UNCHANGED of_program, UNCHANGED names, UNCHANGED inst_dlib_suffix,
             i' \in 1..Len(table),
             Working' => i' = i /\ Working /\ (pc = pc' \/ (pc' # "translate" /\ (pc = "translate" => ~Translating)))
      PROVE  NamesInv'
  <2>1. /\ table' = table /\ libraries' = libraries /\ suffix_file' = suffix_file /\ prog' = prog
        /\ ins' = ins /\ buf' = buf /\ s' = s /\ inst_dlib_suffix' = inst_dlib_suffix
        /\ overrun' = overrun
    BY <1>2 DEF of_program, names
  <2>2. /\ table' \in Tables /\ libraries' \in Libraries /\ suffix_file' \in Suffix_Files
        /\ prog' \in {"installer", "instchk", "deinstaller"}
        /\ i' \in 1..Len(table') /\ s' \in 1..7
        /\ inst_dlib_suffix' \in Text /\ Len(inst_dlib_suffix') <= Max_Suffix + 1
        /\ Buffers_OK' /\ Short'
        /\ overrun' \subseteq Word_Buffers /\ (overrun' # {} => A_Word_Fills')
    BY <1>2, <2>1 DEF NamesInv, Buffers_OK, Short, A_Word_Fills
  <2>3. ASSUME Working'
        PROVE  /\ ~Undefined_Fields(Item)'
               /\ s' \in 1..(Len(Translation(Item)') + 1) /\ Copying'
               /\ overrun' = {} => Stage(s - 1)'
               /\ pc' = "translate" \/ s' = Len(Translation(Item)') + 1
    <3>1. i' = i /\ Working /\ Item' = Item
      BY <1>2, <2>1, <2>3 DEF Item
    <3>2. Translation(Item)' = Translation(Item) /\ Undefined_Fields(Item)' = Undefined_Fields(Item)
      BY <2>1, <3>1 DEF Translation, Undefined_Fields
    <3>3. /\ ~Undefined_Fields(Item)
          /\ s \in 1..(Len(Translation(Item)) + 1) /\ Copying
          /\ overrun = {} => Stage(s - 1)
          /\ pc = "translate" \/ s = Len(Translation(Item)) + 1
      BY <3>1 DEF NamesInv
    <3>4. overrun' = {} => Stage(s - 1)'
      BY <1>2, <2>1, <3>1, <3>3, StageStays
    <3>7. Copying'
      BY <2>1, <3>2, <3>3 DEF Copying
    <3>5. Len(Translation(Item)) \in Nat
      BY ItemIs, CallsBounded DEF An_Op
    <3>6. pc = "translate" /\ ~Translating => s = Len(Translation(Item)) + 1
      BY <3>3, <3>5 DEF Translating
    <3> QED  BY <1>2, <2>1, <2>3, <3>2, <3>3, <3>4, <3>6, <3>7
  <2> QED  BY <2>2, <2>3 DEF NamesInv
<1>3. CASE /\ UNCHANGED names /\ UNCHANGED inst_dlib_suffix /\ UNCHANGED of_program
           /\ \/ i' = i /\ pc' = pc
              \/ /\ i' = i /\ Working /\ Working' /\ pc' # "translate"
                 /\ pc = "translate" => ~Translating
              \/ i' = i /\ pc' = "exit"
              \/ i' = i + 1 /\ i # Len(table) /\ pc' = "item"
  <2>1. i \in 1..Len(table) /\ Len(table) \in Nat
    BY TextsAre DEF NamesInv
  <2>2. i # Len(table) => i + 1 \in 1..Len(table)
    BY <2>1
  <2>3. i' \in 1..Len(table)
    BY <1>3, <2>1, <2>2
  <2>4. Working' => i' = i /\ Working /\ (pc = pc' \/ (pc' # "translate" /\ (pc = "translate" => ~Translating)))
    BY <1>3 DEF Working
  <2> QED  BY <1>2, <1>3, <2>3, <2>4
<1> QED  BY <1>1, <1>3, StepKinds

\* The invariant of the names holds in every state.
LEMMA NamesAlways == Spec => []NamesInv
  BY NamesInit, NamesStep, PTL DEF Spec

(***************************************************************************)
(* What the operators work on.                                             *)
(***************************************************************************)

\* The suffix of programs is text.
LEMMA ExecIs == Exec_Suffix \in Text
<1>1. <<>> \in Text
  BY DEF Text
<1> QED  BY <1>1, CharsAre DEF Exec_Suffix

\* A text that another is put after still fits if both together do.
LEMMA CutOnce ==
  ASSUME NEW at \in Text, NEW e \in Text, Len(at \o e) < Max_PathLen
  PROVE  Formatted(at) = at /\ Formatted(Formatted(at) \o e) = at \o e
<1>1. at \o e \in Text /\ Len(at \o e) = Len(at) + Len(e) /\ Len(at) \in Nat /\ Len(e) \in Nat
  BY JoinedIs
<1>2. PICK x, y : x = Len(at) /\ y = Len(e)
  OBVIOUS
<1>3. x + y < Max_PathLen /\ x \in Nat /\ y \in Nat
  BY <1>1, <1>2
<1>4. Len(at) < Max_PathLen
  BY <1>2, <1>3, PathLenAssumption DEF PathLenAssumption
<1>5. Formatted(at) = at
  BY <1>4, FormattedIs
<1>6. Formatted(at \o e) = at \o e
  BY <1>1, FormattedIs
<1> QED  BY <1>5, <1>6

\* What an operator is called with.
LEMMA CopyOperands ==
  ASSUME NamesInv, Working, pc # "translate", Item.op \in Copies, Fits(Item),
         overrun = {}
  PROVE  Source = Listed_Source(Item) /\ Place = Listed_Place(Item)
<1>1. PICK item, n, d, e, k : /\ item = Item /\ n = Listed_Name(item.src)
                              /\ d = Listed_Name(Dst_Text(item)) /\ e = Exec_Suffix /\ k = s - 1
  OBVIOUS
<1> DEFINE at == In(item.dir, Base_Name(d))
           X == item.op = "copy_exec"
<1>2. Copy_Stage(item, k, n, d, e) /\ s = Len(Translation(item)) + 1
  BY <1>1 DEF NamesInv, Stage
<1>3. PICK a, b : a = Reads(item.src) /\ b = Reads(Dst_Text(item)) /\ a \in {0, 1} /\ b \in {0, 1}
  BY DEF Reads
<1>4. Len(Translation(item)) = a + b + IF X THEN 4 ELSE 2
  BY <1>1, <1>3, CopyCalls
<1>5. k = a + b + IF X THEN 4 ELSE 2
  BY <1>1, <1>2, <1>3, <1>4
<1>6. CASE ~X
  <2>1. item.op = "copy"
    BY <1>1, <1>6 DEF Copies
  <2>2. k = a + b + 2
    BY <1>5, <1>6
  <2>3. Is("src", {"item.src", "copy.src_name"}, n) /\ Is("dst", {"copy.dst_tmp"}, Formatted(at))
    <3>1. PICK f : f = Formatted(at)
      OBVIOUS
    <3> HIDE DEF X
    <3> QED  BY <1>2, <1>3, <2>2, <3>1 DEF Copy_Stage
  <2>4. Listed_Source(item) = n /\ Listed_Place(item) = at
    BY <1>1, <2>1 DEF Listed_Source, Listed_Place
  <2>5. Value("src") = n /\ Value("dst") = Formatted(at)
    BY <2>3 DEF Is, Value
  <2>6. Formatted(at) = at
    BY <1>1, <2>4 DEF Fits, Formatted
  <2>7. Source = Value("src") /\ Place = Value("dst")
    BY <1>1, <2>1 DEF Source, Place, Copies, Links
  <2> QED  BY <1>1, <2>4, <2>5, <2>6, <2>7
<1>7. CASE X
  <2>1. item.op = "copy_exec"
    BY <1>7
  <2>2. k = a + b + 4
    BY <1>5, <1>7
  <2>3. /\ Is("src", {"exec.src_name"}, Formatted(n \o e))
        /\ Is("dst", {"exec.dst_name"}, Formatted(Formatted(at) \o e))
    <3> HIDE DEF X
    <3> QED  BY <1>2, <1>3, <2>2 DEF Copy_Stage
  <2>4. Listed_Source(item) = n \o e /\ Listed_Place(item) = at \o e
    BY <1>1, <2>1 DEF Listed_Source, Listed_Place
  <2>5. Value("src") = Formatted(n \o e) /\ Value("dst") = Formatted(Formatted(at) \o e)
    BY <2>3 DEF Is, Value
  <2>6. Formatted(n \o e) = n \o e
    BY <1>1, <2>4 DEF Fits, Formatted
  <2>7. Source = Value("src") /\ Place = Value("dst")
    BY <1>1, <2>1 DEF Source, Place, Copies, Links
  <2>8. at \in Text /\ e \in Text /\ Len(at \o e) < Max_PathLen
    <3>1. Len(at \o e) < Max_PathLen
      BY <1>1, <2>4 DEF Fits
    <3>2. d \in Text
      <4> HIDE DEF X
      <4> QED  BY <1>2, <1>3, <2>2 DEF Copy_Stage
    <3>3. Base_Name(d) \in Text /\ item.dir \in Text /\ e \in Text
      BY <1>1, <3>2, BaseNameIs, ItemIs, ExecIs
    <3> QED  BY <3>1, <3>3, InIs
  <2>9. Formatted(Formatted(at) \o e) = at \o e
    BY <2>8, CutOnce
  <2> QED  BY <1>1, <2>4, <2>5, <2>6, <2>7, <2>9
<1> QED  BY <1>6, <1>7

\* The names of a link or a directory, once translated, are the listed ones.
LEMMA LinkOperands ==
  ASSUME NamesInv, Working, pc # "translate", Item.op \in Links \union {"mkdir"}, Fits(Item),
         overrun = {}
  PROVE  Source = Listed_Source(Item) /\ Place = Listed_Place(Item)
<1>1. PICK item, k : item = Item /\ k = s - 1
  OBVIOUS
<1>2. Stage(k) /\ s = Len(Translation(item)) + 1
  BY <1>1 DEF NamesInv
<1>3. prog \in {"installer", "instchk", "deinstaller"}
  BY DEF NamesInv
<1>4. item.src \in Text /\ item.dst \in Text /\ item.dir \in Text /\ inst_dlib_suffix \in Text
  BY <1>1, ItemIs DEF NamesInv
<1>5. CASE item.op = "mkdir"
  <2>1. Source = item.dir /\ Place = item.dir
    <3>1. item.op \notin Links /\ item.op \notin Copies
      BY <1>5 DEF Links, Copies
    <3>2. Place = item.dir
      BY <1>1, <1>5, <3>1, Zenon DEF Place
    <3> QED  BY <1>1, <1>5, <3>2 DEF Source
  <2>2. Listed_Source(item) = item.dir /\ Listed_Place(item) = item.dir
    BY <1>5 DEF Listed_Source, Listed_Place
  <2> QED  BY <1>1, <2>1, <2>2
<1>6. ASSUME item.op \in Links, NEW name, NEW place, place = In(item.dir, name),
             place = Listed_Place(item),
             IF prog = "instchk" THEN Value("dst") = Formatted(place) ELSE Value("dst") = name
      PROVE  Place = place
  <2>1. Formatted(place) = place
    BY <1>1, <1>6 DEF Fits, Formatted
  <2>2. item.op \notin Copies /\ item.op # "mkdir"
    BY <1>6 DEF Links, Copies
  <2>3. CASE prog = "installer"
    <3>1. Place = In(item.dir, Value("dst"))
      BY <1>1, <1>6, <2>2, <2>3, Zenon DEF Place
    <3> QED  BY <1>6, <2>3, <3>1
  <2>4. CASE prog = "deinstaller"
    <3>1. Place = Formatted(In(item.dir, Value("dst")))
      BY <1>1, <1>6, <2>2, <2>4, Zenon DEF Place
    <3> QED  BY <1>6, <2>1, <2>4, <3>1
  <2>5. CASE prog = "instchk"
    <3>1. Place = Value("dst")
      BY <1>1, <1>6, <2>2, <2>5, Zenon DEF Place
    <3> QED  BY <1>6, <2>1, <2>5, <3>1
  <2> QED  BY <1>3, <2>3, <2>4, <2>5
<1>7. CASE item.op = "symlink"
  <2>1. Listed_Source(item) = item.src /\ Listed_Place(item) = In(item.dir, item.dst)
    BY <1>7 DEF Listed_Source, Listed_Place
  <2>2. k = IF prog = "instchk" THEN 1 ELSE 0
    <3>1. PICK l : l = Len(Translation(item))
      OBVIOUS
    <3>2. l = IF prog = "instchk" THEN 1 ELSE 0
      BY <1>7, <3>1, SymlinkCalls, Zenon
    <3> QED  BY <1>1, <1>2, <3>1, <3>2
  <2>3. /\ Value("src") = item.src
        /\ IF prog = "instchk" THEN Value("dst") = Formatted(In(item.dir, item.dst))
           ELSE Value("dst") = item.dst
    BY <1>1, <1>2, <1>7, <2>2 DEF Stage, Is, Value
  <2>4. item.op \in Links
    BY <1>7 DEF Links
  <2>5. Place = In(item.dir, item.dst)
    BY <1>6, <2>1, <2>3, <2>4
  <2>6. Source = Value("src")
    BY <1>1, <1>7 DEF Source
  <2> QED  BY <1>1, <2>1, <2>3, <2>5, <2>6
<1>8. CASE item.op = "liblink"
  <2>1. PICK n, m, e, a : /\ n = Listed_Name(item.src) /\ m = Base_Name(item.dst)
                          /\ e = inst_dlib_suffix /\ a = Reads(item.src) /\ a \in {0, 1}
    BY DEF Reads
  <2>2. Listed_Source(item) = (IF a = 1 THEN Base_Name(n) ELSE item.src)
    BY <1>8, <2>1 DEF Listed_Source, Reads
  <2>3. m \in Text /\ e \in Text
    BY <1>4, <2>1, BaseNameIs
  <2>4. Listed_Place(item) = In(item.dir, m \o e)
    <3>1. Listed_Place(item) = In(item.dir, m) \o e
      BY <1>8, <2>1 DEF Listed_Place
    <3> QED  BY <1>4, <2>3, <3>1, InJoined
  <2>5. Formatted(m \o e) = m \o e
    <3>1. m \o e \in Text
      BY <2>3, JoinedIs
    <3>2. PICK name : name = m \o e
      OBVIOUS
    <3>3. In(item.dir, name) \in Text /\ Len(name) <= Len(In(item.dir, name))
      BY <1>4, <3>1, <3>2, InIs
    <3>4. Len(In(item.dir, name)) < Max_PathLen
      BY <1>1, <2>4, <3>2 DEF Fits
    <3>5. Len(name) \in Nat /\ Len(In(item.dir, name)) \in Nat
      BY <3>1, <3>2, <3>3 DEF Text
    <3>6. \A l, q \in Nat : l <= q /\ q < Max_PathLen => l < Max_PathLen
      BY PathLenAssumption DEF PathLenAssumption
    <3>7. Len(name) < Max_PathLen
      BY <3>3, <3>4, <3>5, <3>6, Zenon
    <3> QED  BY <3>2, <3>7 DEF Formatted
  <2>6. k = 3 * a + IF prog = "instchk" THEN 3 ELSE 2
    <3>1. PICK l : l = Len(Translation(item))
      OBVIOUS
    <3>2. l = 3 * a + IF prog = "instchk" THEN 3 ELSE 2
      BY <1>8, <2>1, <3>1, LiblinkCalls
    <3>3. s = l + 1
      BY <1>2, <3>1
    <3> QED  BY <1>1, <2>1, <3>2, <3>3
  <2>7. Liblink_Stage(item, k, n, m, e)
    BY <1>1, <1>2, <1>8, <2>1 DEF Stage
  <2>8. PICK to, at : to = Formatted(m \o e) /\ at = Formatted(In(item.dir, to))
    OBVIOUS
  <2>9. /\ \E p : Is("src", p, IF a = 1 THEN Base_Name(n) ELSE item.src)
        /\ \E p : Is("dst", p, IF prog = "instchk" THEN at ELSE to)
    <3>1. CASE a = 0
      BY <2>1, <2>6, <2>7, <2>8, <3>1 DEF Liblink_Stage
    <3>2. CASE a = 1
      BY <2>1, <2>6, <2>7, <2>8, <3>2 DEF Liblink_Stage
    <3> QED  BY <2>1, <3>1, <3>2
  <2>10. Value("src") = (IF a = 1 THEN Base_Name(n) ELSE item.src)
    BY <2>9 DEF Is, Value
  <2>11. IF prog = "instchk" THEN Value("dst") = at ELSE Value("dst") = to
    BY <2>9 DEF Is, Value
  <2>12. item.op \in Links
    BY <1>8 DEF Links
  <2>13. Listed_Place(item) = In(item.dir, to)
    BY <2>4, <2>5, <2>8
  <2>14. Place = In(item.dir, to)
    BY <1>6, <2>8, <2>11, <2>12, <2>13
  <2>15. Source = Value("src")
    BY <1>1, <1>8 DEF Source
  <2> QED  BY <1>1, <2>2, <2>10, <2>13, <2>14, <2>15
<1> QED  BY <1>1, <1>5, <1>7, <1>8 DEF Links

\* The names of any item, once translated, are the listed ones.
LEMMA Operands ==
  ASSUME NamesInv, Working, pc # "translate", Fits(Item), overrun = {}
  PROVE  Source = Listed_Source(Item) /\ Place = Listed_Place(Item)
  BY ItemIs, CopyOperands, LinkOperands DEF An_Op

\* The translation of names works on static buffers that the items share and that
\* keep what earlier items left (ntran_copy, ntran_copy_exec, ntran_liblink,
\* base_name and libname of install-core.c).  Even so, every operator of the three
\* programs works on the very source and place that the table lists for the item,
\* for every table whose names fit the buffers and as long as no word has overrun
\* its array.
THEOREM AsListed == Spec => []OperandsAsListed
<1>1. NamesInv => OperandsAsListed
  BY Operands DEF OperandsAsListed, Working
<1> QED  BY <1>1, NamesAlways, PTL

(***************************************************************************)
(* Counts and types.                                                       *)
(***************************************************************************)

Places == {"init", "item", "translate", "uid", "gid", "operate", "check",
           "ownership", "compare", "end", "copy", "release", "exit"}

Ids == {uid.object, gid.object, uid_got.object, gid_got.object}

\* An item fails once at most, and what is allocated is named after an item of
\* the table.
CountInv ==
  /\ pc \in Places /\ exit \in {0, 1, 112, 139}
  /\ install_failed \in Nat
  /\ install_failed <= i
  /\ pc \in Places \ {"release", "exit"} => install_failed < i
  /\ Ids \subseteq Objects \union {<<>>}
  /\ lost \subseteq Objects /\ live \subseteq Objects
  /\ accepted \subseteq 1..i

\* Nothing is counted at the start.
LEMMA CountInit == Init => CountInv
<1> SUFFICES ASSUME Init PROVE CountInv
  OBVIOUS
<1>1. Ids = {<<>>}
  BY DEF Init, Ids, Undefined
<1> QED  BY <1>1 DEF Init, CountInv, Places

\* What is allocated is named after an item of the table.
LEMMA ObjectIs ==
  ASSUME NamesInv, NEW var \in {"uid", "gid", "uid_got", "gid_got"}
  PROVE  /\ Object(var) \in Objects \union {<<>>}
         /\ Allocated(var) \subseteq Objects
<1>1. i \in 1..Len(table)
  BY DEF NamesInv
<1>2. <<i, var>> \in Objects
  BY <1>1 DEF Objects
<1> QED  BY <1>2 DEF Object, Allocated

\* What the end of an item does to all this.
LEMMA EndsCounts ==
  ASSUME NamesInv, CountInv, NEW status, Ends(status), install_failed' = install_failed,
         table' = table, lost' \subseteq Objects, live' \subseteq Objects, accepted' \subseteq 1..i
  PROVE  CountInv'
<1>1. i \in Nat /\ i' \in {i, i + 1} /\ install_failed \in Nat /\ install_failed <= i
  BY TextsAre DEF NamesInv, CountInv, Ends, Exits
<1>2. \/ pc' = "exit" /\ exit' \in {0, 1, 112}
      \/ pc' = "item" /\ i' = i + 1 /\ exit' = exit
  BY DEF Ends, Exits
<1>3. Ids' = {<<>>}
  BY DEF Ends, Forgotten, Undefined, Ids
<1>4. Objects' = Objects
  BY DEF Objects
<1>5. install_failed' <= i' /\ (pc' # "exit" => install_failed' < i')
  BY <1>1, <1>2
<1>6. accepted' \subseteq 1..i'
  BY <1>1
<1> QED  BY <1>1, <1>2, <1>3, <1>4, <1>5, <1>6 DEF CountInv, Places

\* And a step within an item.
LEMMA WithinCounts ==
  ASSUME CountInv, NamesInv, table' = table, i' = i, pc' \in Places, exit' \in {0, 1, 112, 139},
         \/ install_failed' = install_failed /\ (pc' \in {"release", "exit"} \/ pc \notin {"release", "exit"})
         \/ install_failed' = install_failed + 1 /\ pc \notin {"release", "exit"} /\ pc' = "release",
         Ids' \subseteq Objects \union {<<>>}, lost' \subseteq Objects, live' \subseteq Objects,
         accepted' = accepted
  PROVE  CountInv'
<1>1. i \in Nat /\ install_failed \in Nat /\ install_failed <= i
      /\ (pc \notin {"release", "exit"} => install_failed < i)
  BY TextsAre DEF NamesInv, CountInv
<1>2. Objects' = Objects
  BY DEF Objects
<1>3. install_failed' \in Nat /\ install_failed' <= i
      /\ (pc' \notin {"release", "exit"} => install_failed' < i)
  BY <1>1
<1> QED  BY <1>2, <1>3 DEF CountInv

\* The counts are inductive.
LEMMA CountStep == NamesInv /\ CountInv /\ [Next]_vars => CountInv'
<1> SUFFICES ASSUME NamesInv, CountInv, [Next]_vars PROVE CountInv'
  OBVIOUS
<1>0. table' = table
  BY StepKinds DEF of_program
<1>1. CASE UNCHANGED vars
  BY <1>0, <1>1 DEF vars, outcome, ids, heap, CountInv, Ids, Objects
<1>2. CASE Install_Init \/ Begin \/ Translate \/ Translate_Overruns \/ Translated
  <2>1. /\ i' = i /\ pc' \in Places /\ pc \notin {"release", "exit"}
        /\ install_failed' = install_failed /\ UNCHANGED ids /\ UNCHANGED heap
        /\ accepted' = accepted /\ exit' \in {exit, 112, 139}
    BY <1>2 DEF Install_Init, Begin, Translate, Translate_Overruns, Translating, Translated,
                Exits, outcome, CountInv, Places
  <2> QED  BY <1>0, <2>1, WithinCounts DEF ids, heap, Ids, CountInv
<1>3. CASE Begin_Fails \/ Translate_Fails
  <2>1. /\ Ends("fatal") /\ UNCHANGED heap /\ install_failed' = install_failed
        /\ accepted' = accepted
    BY <1>3 DEF Begin_Fails, Translate_Fails, Fatal
  <2> QED  BY <1>0, <2>1, EndsCounts DEF heap, CountInv
<1>4. CASE Look_Up_User \/ Look_Up_Group
  <2>1. /\ i' = i /\ pc' \in Places /\ pc \notin {"release", "exit"}
        /\ install_failed' = install_failed /\ accepted' = accepted /\ exit' = exit
        /\ lost' = lost /\ uid_got' = uid_got /\ gid_got' = gid_got
    BY <1>4 DEF Look_Up_User, Look_Up_Group, outcome, Places
  <2>2. /\ uid' = uid \/ uid' = Id("uid", Owner(Item))
        /\ gid' = gid \/ gid' = Id("gid", Group(Item))
        /\ live' \in {live \union Allocated("uid"), live \union Allocated("gid")}
    BY <1>4 DEF Look_Up_User, Look_Up_Group
  <2>3. Ids' \subseteq Objects \union {<<>>}
    BY <2>1, <2>2, ObjectIs DEF Ids, Id, CountInv
  <2>4. live' \subseteq Objects
    BY <2>2, ObjectIs DEF CountInv
  <2> QED  BY <1>0, <2>1, <2>3, <2>4, WithinCounts DEF CountInv
<1>5. CASE Look_Up_User_Fails \/ Look_Up_Group_Fails
  <2>1. PICK freed, objects :
          /\ objects \in {{}, Allocated("uid"), Allocated("gid")}
          /\ live' = (live \ freed) \union objects /\ lost' = lost \union objects
          /\ Ends("error") /\ install_failed' = install_failed /\ accepted' = accepted
    BY <1>5 DEF Look_Up_User_Fails, Look_Up_Group_Fails, Look_Up_Fails
  <2>2. objects \subseteq Objects
    BY <2>1, ObjectIs
  <2>3. live' \subseteq Objects /\ lost' \subseteq Objects
    BY <2>1, <2>2 DEF CountInv
  <2> QED  BY <1>0, <2>1, <2>3, EndsCounts DEF CountInv
<1>6. CASE Install \/ Link_By_Copy \/ Compare
  <2>1. /\ i' = i /\ pc' \in Places /\ pc \notin {"release", "exit"}
        /\ install_failed' = install_failed /\ UNCHANGED ids /\ UNCHANGED heap
        /\ accepted' = accepted /\ exit' = exit
    BY <1>6 DEF Install, Link_By_Copy, Compare, outcome, Places
  <2> QED  BY <1>0, <2>1, WithinCounts DEF ids, heap, Ids, CountInv
<1>7. CASE Operate
  <2>1. PICK status : Ends(status)
    BY <1>7 DEF Operate
  <2>2. UNCHANGED heap /\ install_failed' = install_failed /\ accepted' = accepted
    BY <1>7 DEF Operate
  <2> QED  BY <1>0, <2>1, <2>2, EndsCounts DEF heap, CountInv
<1>8. CASE End_Link
  <2>1. PICK status : Ends(status)
    BY <1>8 DEF End_Link
  <2>2. /\ lost' = lost \union ({uid_got.object, gid_got.object} \ {<<>>})
        /\ live' = live /\ install_failed' = install_failed /\ accepted' = accepted
    BY <1>8 DEF End_Link
  <2>3. lost' \subseteq Objects
    BY <2>2 DEF CountInv, Ids
  <2> QED  BY <1>0, <2>1, <2>2, <2>3, EndsCounts DEF CountInv
<1>9. CASE Check
  <2>1. /\ i' = i /\ pc = "check" /\ exit' = exit /\ accepted' = accepted
        /\ UNCHANGED ids /\ UNCHANGED heap
        /\ \/ pc' = "ownership" /\ install_failed' = install_failed
           \/ pc' = "release" /\ install_failed' = install_failed + 1
    BY <1>9 DEF Check
  <2>2. pc' \in Places
    BY <2>1 DEF Places
  <2> QED  BY <1>0, <2>1, <2>2, WithinCounts DEF ids, heap, Ids, CountInv
<1>10. CASE Get_Ownership
  <2>1. PICK owner \in Results, group \in Results :
          /\ uid_got' = Read("uid_got", Of_File("owner"), owner)
          /\ gid_got' = Read("gid_got", Of_File("group"), group)
          /\ live' = live \union ({uid_got'.object, gid_got'.object} \ {<<>>})
    BY <1>10 DEF Get_Ownership
  <2>2. /\ i' = i /\ pc = "ownership" /\ exit' = exit /\ accepted' = accepted
        /\ lost' = lost /\ uid' = uid /\ gid' = gid /\ install_failed' = install_failed
        /\ pc' \in Places
    BY <1>10 DEF Get_Ownership, Places
  <2>3. ASSUME NEW var \in {"uid_got", "gid_got"}, NEW account, NEW result \in Results
        PROVE  Read(var, account, result).object \in Objects \union {<<>>}
    <3>1. result \in {"ok", "unset", "no_memory", "not_copied"}
      BY DEF Results
    <3>2. Object(var) \in Objects \union {<<>>}
      BY ObjectIs
    <3> QED  BY <3>1, <3>2 DEF Read, Id, Undefined, Null
  <2>4. uid_got'.object \in Objects \union {<<>>} /\ gid_got'.object \in Objects \union {<<>>}
    BY <2>1, <2>3
  <2>5. Ids' \subseteq Objects \union {<<>>} /\ live' \subseteq Objects
    BY <2>1, <2>2, <2>4 DEF Ids, CountInv
  <2> QED  BY <1>0, <2>2, <2>5, WithinCounts DEF CountInv
<1>11. CASE End_Check
  <2>1. /\ pc = "end" /\ lost' = lost /\ accepted' = accepted /\ i' = i
        /\ live' \subseteq live
        /\ \/ /\ pc' = "release" /\ exit' = exit /\ uid' = uid /\ gid' = gid
              /\ uid_got' = Undefined /\ gid_got' = Undefined
              /\ install_failed' \in {install_failed, install_failed + 1}
           \/ pc' = "exit" /\ exit' = 139 /\ UNCHANGED ids /\ install_failed' = install_failed
    BY <1>11 DEF End_Check, Exits
  <2>2. Ids' \subseteq Objects \union {<<>>}
    <3>1. CASE UNCHANGED ids
      BY <3>1 DEF ids, Ids, CountInv
    <3>2. CASE uid' = uid /\ gid' = gid /\ uid_got' = Undefined /\ gid_got' = Undefined
      <4>1. uid_got'.object = <<>> /\ gid_got'.object = <<>>
        BY <3>2 DEF Undefined
      <4>2. Ids' = {uid.object, gid.object, <<>>}
        BY <3>2, <4>1 DEF Ids
      <4>3. {uid.object, gid.object} \subseteq Objects \union {<<>>}
        BY DEF Ids, CountInv
      <4> QED  BY <4>2, <4>3, Zenon
    <3> QED  BY <2>1, <3>1, <3>2
  <2>3. pc' \in Places
    BY <2>1 DEF Places
  <2> QED  BY <1>0, <2>1, <2>2, <2>3, WithinCounts DEF CountInv
<1>12. CASE Release
  <2>1. /\ Ends(IF failed THEN "error" ELSE "ok") /\ install_failed' = install_failed
        /\ live' \subseteq live /\ lost' = lost
        /\ accepted' \subseteq accepted \union {i}
    BY <1>12 DEF Release
  <2>2. accepted' \subseteq 1..i
    <3>1. i \in 1..i
      BY TextsAre DEF NamesInv
    <3> QED  BY <2>1, <3>1 DEF CountInv
  <2> QED  BY <1>0, <2>1, <2>2, EndsCounts DEF CountInv
<1> QED  BY <1>1, <1>2, <1>3, <1>4, <1>5, <1>6, <1>7, <1>8, <1>9, <1>10, <1>11, <1>12 DEF Next

\* The variables of the operators keep their types, for every table, every library
\* and every suffix file.  Of all that is written into the static arrays of
\* install-core.c only the end of a word that libname has read (:735) can fall past
\* the end of one: by one character, in the three arrays that libname is given, and
\* in no run in which the first word of every .vlb file is shorter than the array.
\* The name that base_name copies (:919), what snprintf puts together and the suffix
\* always have room.  install_failed counts an item once at most, and the program
\* ends with one of the statuses that the code knows, or crashes.
THEOREM ItemTypes == Spec => []TypeOK
<1>1. NamesInv /\ CountInv => TypeOK
  <2> SUFFICES ASSUME NamesInv, CountInv PROVE TypeOK
    OBVIOUS
  <2>1. install_failed \in 0..i
    BY TextsAre DEF NamesInv, CountInv
  <2>2. \A b \in Buffers :
          Len(buf[b]) < Max_PathLen \/ (b \in overrun /\ Len(buf[b]) = Max_PathLen)
    BY DEF NamesInv, Short
  <2>3. ins \in [{"src", "dst"} -> Pointers]
    BY DEF NamesInv, Buffers_OK, Fields
  <2>4. /\ overrun \subseteq {"copy.src_name", "copy.dst_name", "liblink.src_tmp"}
        /\ overrun # {} =>
             \E name \in DOMAIN libraries : Len(Word(libraries[name])) >= Max_PathLen
    BY DEF NamesInv, Word_Buffers, A_Word_Fills
  <2> QED  BY <2>1, <2>2, <2>3, <2>4 DEF NamesInv, CountInv, TypeOK, Places, Ids
<1> QED  BY <1>1, NamesInit, NamesStep, CountInit, CountStep, PTL DEF Spec

(***************************************************************************)
(* What instchk accepts.                                                   *)
(***************************************************************************)

\* The place that the table names for an item holds what it should.
Accepts(item) ==
  Fits(item) =>
    LET place == Listed_Place(item)
    IN  /\ place \in DOMAIN files
        /\ item.op \in Copies =>
             \/ files[place].size = Size_Of(Listed_Source(item))
             \/ files[place].size = 0 /\ faults > 0
        /\ files[place].owner = Owner(item) /\ files[place].group = Group(item)
        /\ system = "posix" => files[place].mode \cap Checked = item.perm
        /\ system = "win32" =>
             /\ item.op \in Copies => files[place].type = "file"
             /\ item.op = "mkdir" => files[place].type = "directory"

\* The file is as wanted, unless the size of the source could not be read.
Matched ==
  \E size \in {Size_Of(Source), 0} :
    Matches(size) /\ (size # Size_Of(Source) => faults > 0)

\* What instchk has found out about the item in work.
Found ==
  /\ pc \in {"gid", "check", "ownership", "compare", "end", "release"} =>
       uid.account = Owner(Item)
  /\ pc \in {"check", "ownership", "compare", "end", "release"} =>
       gid.account = Group(Item)
  /\ pc \in {"ownership", "compare"} => Matched
  /\ pc \in {"end", "release"} /\ ~failed => Matched
  /\ pc = "compare" =>
       uid_got.account = Of_File("owner") /\ gid_got.account = Of_File("group")
  /\ pc \in {"end", "release"} /\ ~failed =>
       Owner(Item) = Of_File("owner") /\ Group(Item) = Of_File("group")
  /\ pc \notin {"operate", "copy"}

AcceptInv ==
  /\ faults \in Nat
  /\ pc = "init" => accepted = {}
  /\ overrun = {} => \A k \in accepted : Accepts(table[k])
  /\ prog = "instchk" => Found

\* Nothing is accepted at the start.
LEMMA AcceptInit == Init => AcceptInv
  BY DEF Init, AcceptInv, Found

\* Failures are not forgotten.
LEMMA FaultsStay ==
  ASSUME [Next]_vars, faults \in Nat
  PROVE  faults' \in Nat /\ (faults > 0 => faults' > 0)
<1>1. ASSUME faults' = faults \/ faults' = faults + 1
      PROVE  faults' \in Nat /\ (faults > 0 => faults' > 0)
  BY <1>1
<1>2. CASE UNCHANGED vars
  BY <1>1, <1>2 DEF vars
<1>3. CASE Install_Init
  BY <1>1, <1>3 DEF Install_Init, Fails_If, Fault
<1>4. CASE Begin \/ Begin_Fails \/ Translate \/ Translate_Overruns \/ Translated
  BY <1>1, <1>4 DEF Begin, Begin_Fails, Translate, Translate_Overruns, Translated
<1>5. CASE Translate_Fails
  BY <1>1, <1>5 DEF Translate_Fails, Fails_If, Fault
<1>6. CASE Look_Up_User \/ Look_Up_Group \/ Compare \/ End_Check \/ Release \/ Link_By_Copy
  BY <1>1, <1>6 DEF Look_Up_User, Look_Up_Group, Compare, End_Check, Release, Link_By_Copy
<1>7. CASE Look_Up_User_Fails \/ Look_Up_Group_Fails
  BY <1>1, <1>7 DEF Look_Up_User_Fails, Look_Up_Group_Fails, Look_Up_Fails, Fails_If, Fault
<1>8. CASE Install
  BY <1>1, <1>8 DEF Install, Fails_If, Fault
<1>9. CASE Operate
  BY <1>1, <1>9 DEF Operate, Fails_If, Fault
<1>10. CASE End_Link
  BY <1>1, <1>10 DEF End_Link, Fails_If, Fault
<1>11. CASE Check
  BY <1>1, <1>11 DEF Check, Fails_If, Fault
<1>12. CASE Get_Ownership
  BY <1>1, <1>12 DEF Get_Ownership, Fails_If, Fault
<1> QED  BY <1>2, <1>3, <1>4, <1>5, <1>6, <1>7, <1>8, <1>9, <1>10, <1>11, <1>12 DEF Next

\* instchk reads the owner of the place.
LEMMA ExaminedIs ==
  /\ prog = "instchk" => Examined = Place
  /\ prog' = "instchk" => Examined' = Place'
  BY Zenon DEF Examined

\* No step of instchk changes what the table asks of a place or what is there.
LEMMA AcceptsStays ==
  ASSUME UNCHANGED of_program, UNCHANGED inst_dlib_suffix, faults > 0 => faults' > 0,
         NEW item, Accepts(item)
  PROVE  Accepts(item)'
<1>1. system' = system /\ libraries' = libraries /\ files' = files
      /\ inst_dlib_suffix' = inst_dlib_suffix
  BY DEF of_program
<1>2. Listed_Source(item)' = Listed_Source(item) /\ Listed_Place(item)' = Listed_Place(item)
  BY <1>1 DEF Listed_Source, Listed_Place, Listed_Name, Exec_Suffix
<1>3. Fits(item)' = Fits(item)
  BY <1>2 DEF Fits
<1>4. Owner(item)' = Owner(item) /\ Group(item)' = Group(item)
  BY <1>1 DEF Owner, Group, Account
<1>5. Size_Of(Listed_Source(item))' = Size_Of(Listed_Source(item))
  BY <1>1, <1>2 DEF Size_Of
<1>6. PICK src, plc, o, g, z : /\ src = Listed_Source(item) /\ plc = Listed_Place(item)
                               /\ o = Owner(item) /\ g = Group(item)
                               /\ z = Size_Of(Listed_Source(item))
  OBVIOUS
<1> QED  BY <1>1, <1>2, <1>3, <1>4, <1>5, <1>6 DEF Accepts

\* What instchk sees stays the same within an item.
LEMMA SightStays ==
  ASSUME UNCHANGED of_program, UNCHANGED names, i' = i, faults > 0 => faults' > 0
  PROVE  /\ Item' = Item /\ prog' = prog /\ (Matched => Matched')
         /\ \A size : Matches(size) => Matches(size)'
         /\ Size_Of(Source)' = Size_Of(Source)
         /\ prog = "instchk" =>
              Of_File("owner")' = Of_File("owner") /\ Of_File("group")' = Of_File("group")
         /\ Owner(Item)' = Owner(Item) /\ Group(Item)' = Group(Item)
<1>1. /\ system' = system /\ prog' = prog /\ table' = table /\ files' = files
      /\ ins' = ins /\ buf' = buf
  BY DEF of_program, names
<1>2. Item' = Item
  BY <1>1 DEF Item
<1>3. Owner(Item)' = Owner(Item) /\ Group(Item)' = Group(Item)
  BY <1>1, <1>2 DEF Owner, Group, Account
<1>4. Value("src")' = Value("src") /\ Value("dst")' = Value("dst")
  BY <1>1 DEF Value
<1>5. Place' = Place /\ Source' = Source
  BY <1>1, <1>2, <1>4 DEF Place, Source
<1>6. Type_Wanted' = Type_Wanted
  BY <1>2, Zenon DEF Type_Wanted
<1>7. Size_Of(Place)' = Size_Of(Place) /\ Size_Of(Source)' = Size_Of(Source)
  BY <1>1, <1>5 DEF Size_Of
<1>8. ASSUME NEW size, Matches(size) PROVE Matches(size)'
  BY <1>1, <1>2, <1>5, <1>6, <1>7, <1>8 DEF Matches
<1>9. ASSUME Matched PROVE Matched'
  <2>1. PICK size \in {Size_Of(Source), 0} :
          Matches(size) /\ (size # Size_Of(Source) => faults > 0)
    BY <1>9 DEF Matched
  <2>2. Matches(size)'
    BY <1>8, <2>1
  <2>3. size \in {Size_Of(Source)', 0} /\ (size # Size_Of(Source)' => faults' > 0)
    BY <1>7, <2>1
  <2> QED  BY <2>2, <2>3 DEF Matched
<1>10. ASSUME prog = "instchk"
      PROVE  Of_File("owner")' = Of_File("owner") /\ Of_File("group")' = Of_File("group")
  <2>1. Examined = Place /\ Examined' = Place'
    BY <1>1, <1>10, ExaminedIs
  <2> QED  BY <1>1, <1>5, <2>1 DEF Of_File
<1> QED  BY <1>1, <1>2, <1>3, <1>7, <1>8, <1>9, <1>10

\* An item that instchk has found in order is as the table wants it.
LEMMA FoundAccepts ==
  ASSUME NamesInv, Found, prog = "instchk", pc = "release", ~failed, overrun = {}
  PROVE  Accepts(table[i])
<1>1. Item = table[i]
  BY DEF Item
<1>2. PICK item, place, src : item = Item /\ place = Place /\ src = Source
  OBVIOUS
<1>3. SUFFICES ASSUME Fits(item) PROVE Accepts(item)
  BY <1>1, <1>2 DEF Accepts
<1>4. src = Listed_Source(item) /\ place = Listed_Place(item)
  BY <1>2, <1>3, Operands DEF Working
<1>5. Matched /\ Owner(item) = Of_File("owner") /\ Group(item) = Of_File("group")
  BY <1>2 DEF Found
<1>6. item.op \in Copies => Type_Wanted = "file"
  <2>1. item.op \in Copies => item.op \notin Links /\ item.op # "mkdir"
    BY DEF Copies, Links
  <2> QED  BY <1>2, <2>1, Zenon DEF Type_Wanted
<1>7. item.op = "mkdir" => Type_Wanted = "directory"
  BY <1>2 DEF Type_Wanted, Copies, Links
<1>8. PICK size \in {Size_Of(Source), 0} :
         Matches(size) /\ (size # Size_Of(Source) => faults > 0)
  BY <1>5 DEF Matched
<1>9. /\ place \in DOMAIN files
      /\ system = "win32" /\ Type_Wanted # "symlink" => files[place].type = Type_Wanted
      /\ Type_Wanted = "file" => Size_Of(place) = size
      /\ system = "posix" => files[place].mode \cap Checked = item.perm
  BY <1>2, <1>8 DEF Matches
<1>10. Size_Of(place) = files[place].size
  BY <1>9 DEF Size_Of
<1>11. files[place].owner = Owner(item) /\ files[place].group = Group(item)
  BY <1>2, <1>5, <1>9, ExaminedIs DEF Of_File
<1>12. item.op \in Copies =>
         \/ files[place].size = Size_Of(src)
         \/ files[place].size = 0 /\ faults > 0
  BY <1>2, <1>6, <1>9, <1>10, <1>8
<1> QED  BY <1>4, <1>6, <1>7, <1>9, <1>11, <1>12 DEF Accepts

\* After the end of an item nothing is claimed of the next one.
LEMMA EndsAccepts ==
  ASSUME AcceptInv, NEW status, Ends(status), UNCHANGED of_program, UNCHANGED inst_dlib_suffix,
         faults' \in Nat, faults > 0 => faults' > 0, overrun' = overrun,
         \/ accepted' = accepted
         \/ accepted' = accepted \union {i} /\ (overrun = {} => Accepts(table[i]))
  PROVE  AcceptInv'
<1>1. pc' \in {"item", "exit"}
  BY DEF Ends, Exits
<1>2. overrun = {} => \A k \in accepted' : Accepts(table[k])
  BY DEF AcceptInv
<1>3. overrun' = {} => \A k \in accepted' : Accepts(table[k])'
  BY <1>2, AcceptsStays DEF of_program
<1> QED  BY <1>1, <1>3 DEF AcceptInv, Found

\* Within an item nothing is accepted.
LEMMA WithinAccepts ==
  ASSUME AcceptInv, UNCHANGED of_program, UNCHANGED inst_dlib_suffix, accepted' = accepted,
         faults' \in Nat, faults > 0 => faults' > 0, overrun' = overrun,
         pc' # "init", prog = "instchk" => Found'
  PROVE  AcceptInv'
<1>1. overrun' = {} => \A k \in accepted' : Accepts(table[k])'
  BY AcceptsStays DEF AcceptInv, of_program
<1> QED  BY <1>1 DEF AcceptInv, of_program

\* What instchk has found out is inductive.
LEMMA AcceptStep == NamesInv /\ AcceptInv /\ [Next]_vars => AcceptInv'
<1> SUFFICES ASSUME NamesInv, AcceptInv, [Next]_vars PROVE AcceptInv'
  OBVIOUS
<1>0. faults' \in Nat /\ (faults > 0 => faults' > 0)
  BY FaultsStay DEF AcceptInv
<1>1. CASE UNCHANGED vars
  <2>1. /\ UNCHANGED of_program /\ UNCHANGED names /\ i' = i /\ pc' = pc
        /\ UNCHANGED ids /\ failed' = failed /\ accepted' = accepted
        /\ inst_dlib_suffix' = inst_dlib_suffix
    BY <1>1 DEF vars, outcome
  <2>2. prog = "instchk" => Found'
    BY <1>0, <2>1, SightStays DEF Found, AcceptInv, ids
  <2>3. overrun' = {} => \A k \in accepted' : Accepts(table[k])'
    BY <1>0, <2>1, AcceptsStays DEF of_program, names, AcceptInv
  <2> QED  BY <1>0, <2>1, <2>2, <2>3 DEF AcceptInv, of_program
<1>2. CASE Install_Init
  <2>1. /\ pc = "init" /\ pc' \in {"item", "exit"} /\ accepted' = {}
    BY <1>2 DEF Install_Init, Exits, AcceptInv
  <2> QED  BY <1>0, <2>1 DEF AcceptInv, Found
<1>3. CASE Begin \/ Translate \/ Translated
  <2>1. /\ UNCHANGED of_program /\ inst_dlib_suffix' = inst_dlib_suffix /\ accepted' = accepted
        /\ pc' \in {"translate", "uid", "operate"} /\ (prog = "instchk" => pc' # "operate")
        /\ overrun' = overrun
    BY <1>3 DEF Begin, Translate, Translating, Translated, outcome, Looks_Up, names
  <2> QED  BY <1>0, <2>1, WithinAccepts DEF Found
<1>4. CASE Begin_Fails \/ Translate_Fails \/ Look_Up_User_Fails \/ Look_Up_Group_Fails
  <2>1. /\ UNCHANGED of_program /\ inst_dlib_suffix' = inst_dlib_suffix /\ accepted' = accepted
        /\ overrun' = overrun /\ \E status : Ends(status)
    BY <1>4 DEF Begin_Fails, Translate_Fails, Fatal, Look_Up_User_Fails, Look_Up_Group_Fails,
                Look_Up_Fails, names
  <2> QED  BY <1>0, <2>1, EndsAccepts
<1>5. CASE Operate \/ End_Link
  <2>1. /\ UNCHANGED of_program /\ inst_dlib_suffix' = inst_dlib_suffix /\ accepted' = accepted
        /\ overrun' = overrun /\ \E status : Ends(status)
    BY <1>5 DEF Operate, End_Link, names
  <2> QED  BY <1>0, <2>1, EndsAccepts
<1>6. CASE Look_Up_User
  <2>1. /\ UNCHANGED of_program /\ UNCHANGED names /\ i' = i
        /\ inst_dlib_suffix' = inst_dlib_suffix /\ accepted' = accepted
        /\ pc' = "gid" /\ uid' = Id("uid", Owner(Item))
    BY <1>6 DEF Look_Up_User, outcome
  <2>2. Found'
    BY <1>0, <2>1, SightStays DEF Found, Id
  <2> QED  BY <1>0, <2>1, <2>2, WithinAccepts DEF names
<1>7. CASE Look_Up_Group
  <2>1. /\ UNCHANGED of_program /\ UNCHANGED names /\ i' = i
        /\ inst_dlib_suffix' = inst_dlib_suffix /\ accepted' = accepted /\ uid' = uid
        /\ pc = "gid" /\ pc' = (IF prog = "instchk" THEN "check" ELSE "operate")
        /\ gid' = Id("gid", Group(Item))
    BY <1>7 DEF Look_Up_Group, outcome
  <2>2. prog = "instchk" => Found'
    BY <1>0, <2>1, SightStays DEF Found, AcceptInv, Id
  <2> QED  BY <1>0, <2>1, <2>2, WithinAccepts DEF names
<1>8. CASE Install \/ Link_By_Copy
  <2>1. /\ UNCHANGED of_program /\ pc = "operate" /\ pc' # "init"
        /\ inst_dlib_suffix' = inst_dlib_suffix /\ accepted' = accepted /\ overrun' = overrun
    BY <1>8 DEF Install, Link_By_Copy, outcome, names
  <2>2. prog # "instchk"
    BY <2>1 DEF AcceptInv, Found
  <2> QED  BY <1>0, <2>1, <2>2, WithinAccepts
<1>9. CASE Check
  <2>1. /\ UNCHANGED of_program /\ UNCHANGED names /\ i' = i /\ UNCHANGED ids
        /\ inst_dlib_suffix' = inst_dlib_suffix /\ accepted' = accepted
        /\ pc = "check"
        /\ pc' = (IF failed' THEN "release" ELSE "ownership")
    BY <1>9 DEF Check
  <2>2. PICK size \in {Size_Of(Source), 0} :
          /\ failed' \in {~Matches(size), TRUE}
          /\ Fails_If(size = Size_Of(Source) /\ failed' = ~Matches(size))
    BY <1>9 DEF Check
  <2>3. CASE failed'
    <3>1. pc' = "release"
      BY <2>1, <2>3
    <3>2. prog = "instchk" => Found'
      BY <1>0, <2>1, <2>3, <3>1, SightStays DEF Found, AcceptInv, ids
    <3> QED  BY <1>0, <2>1, <3>1, <3>2, WithinAccepts DEF names
  <2>4. CASE ~failed'
    <3>1. pc' = "ownership" /\ Matches(size)
      BY <2>1, <2>2, <2>4
    <3>2. size # Size_Of(Source) => faults' > 0
      BY <2>2 DEF Fails_If, Fault, AcceptInv
    <3>3. Matched'
      BY <1>0, <2>1, <2>2, <3>1, <3>2, SightStays DEF Matched
    <3>4. prog = "instchk" => Found'
      BY <1>0, <2>1, <2>4, <3>1, <3>3, SightStays DEF Found, AcceptInv, ids
    <3> QED  BY <1>0, <2>1, <3>1, <3>4, WithinAccepts DEF names
  <2> QED  BY <2>3, <2>4
<1>10. CASE Get_Ownership
  <2>1. PICK owner \in Results, group \in Results :
          /\ uid_got' = Read("uid_got", Of_File("owner"), owner)
          /\ gid_got' = Read("gid_got", Of_File("group"), group)
          /\ failed' = ~Owned(owner, group)
    BY <1>10 DEF Get_Ownership
  <2>2. /\ UNCHANGED of_program /\ UNCHANGED names /\ i' = i /\ uid' = uid /\ gid' = gid
        /\ inst_dlib_suffix' = inst_dlib_suffix /\ accepted' = accepted
        /\ pc = "ownership"
        /\ pc' = (IF prog = "installer" THEN "copy" ELSE IF failed' THEN "end" ELSE "compare")
    BY <1>10 DEF Get_Ownership
  <2>3. CASE prog # "instchk"
    BY <1>0, <2>2, <2>3, WithinAccepts DEF names
  <2>4. CASE prog = "instchk" /\ failed'
    <3>1. pc' = "end"
      BY <2>2, <2>4
    <3>2. Found'
      BY <1>0, <2>2, <2>4, <3>1, SightStays DEF Found, AcceptInv
    <3> QED  BY <1>0, <2>2, <3>1, <3>2, WithinAccepts DEF names
  <2>5. CASE prog = "instchk" /\ ~failed'
    <3>1. pc' = "compare" /\ Matched
      BY <2>2, <2>5 DEF AcceptInv, Found
    <3>2. owner = "ok" /\ group = "ok"
      BY <2>1, <2>5 DEF Owned
    <3>3. uid_got'.account = Of_File("owner") /\ gid_got'.account = Of_File("group")
      BY <2>1, <3>2 DEF Read, Id
    <3>4. Found'
      BY <1>0, <2>2, <2>5, <3>1, <3>3, SightStays DEF Found, AcceptInv
    <3> QED  BY <1>0, <2>2, <3>1, <3>4, WithinAccepts DEF names
  <2> QED  BY <2>3, <2>4, <2>5
<1>11. CASE Compare
  <2>1. /\ UNCHANGED of_program /\ UNCHANGED names /\ i' = i /\ UNCHANGED ids
        /\ inst_dlib_suffix' = inst_dlib_suffix /\ accepted' = accepted
        /\ pc = "compare" /\ pc' = "end"
        /\ failed' = ~(uid.account = uid_got.account /\ gid.account = gid_got.account)
    BY <1>11 DEF Compare, Same
  <2>2. prog = "instchk" => Found'
    BY <1>0, <2>1, SightStays DEF Found, AcceptInv, ids
  <2> QED  BY <1>0, <2>1, <2>2, WithinAccepts DEF names
<1>12. CASE End_Check
  <2>1. /\ UNCHANGED of_program /\ UNCHANGED names /\ i' = i
        /\ inst_dlib_suffix' = inst_dlib_suffix /\ accepted' = accepted
        /\ pc = "end" /\ pc' \in {"release", "exit"}
        /\ pc' = "release" => uid' = uid /\ gid' = gid /\ failed' = failed
    BY <1>12 DEF End_Check, Exits
  <2>2. prog = "instchk" => Found'
    BY <1>0, <2>1, SightStays DEF Found, AcceptInv
  <2> QED  BY <1>0, <2>1, <2>2, WithinAccepts DEF names
<1>13. CASE Release
  <2>1. /\ UNCHANGED of_program /\ inst_dlib_suffix' = inst_dlib_suffix /\ pc = "release"
        /\ overrun' = overrun /\ Ends(IF failed THEN "error" ELSE "ok")
        /\ accepted' = IF prog = "instchk" /\ ~failed THEN accepted \union {i} ELSE accepted
    BY <1>13 DEF Release, names
  <2>2. prog = "instchk" /\ ~failed /\ overrun = {} => Accepts(table[i])
    BY <2>1, FoundAccepts DEF AcceptInv
  <2> QED  BY <1>0, <2>1, <2>2, EndsAccepts
<1>14. CASE Translate_Overruns
  <2>1. /\ UNCHANGED of_program /\ pc' \in {"translate", "exit"} /\ overrun' # {}
    BY <1>14 DEF Translate_Overruns, Translating, Exits
  <2>2. Found'
    BY <2>1 DEF Found
  <2> QED  BY <1>0, <2>1, <2>2 DEF AcceptInv
<1> QED  BY <1>1, <1>2, <1>3, <1>4, <1>5, <1>6, <1>7, <1>8, <1>9, <1>10, <1>11, <1>12, <1>13,
            <1>14 DEF Next

\* instchk accepts no item, whatever files there are and whichever calls fail,
\* unless the place listed for it holds what the table asks for: install_check's
\* path through size, ownership, the comparison of ids and the count of failures
\* loses no difference, but for the size of a source that could not be read
\* (install-core.c:460).
THEOREM AcceptedIs == Spec => []AcceptedMatches
<1>1. AcceptInv => AcceptedMatches
  BY DEF AcceptInv, Accepts, AcceptedMatches
<1> QED  BY <1>1, NamesInit, NamesStep, AcceptInit, AcceptStep, PTL DEF Spec
=============================================================================

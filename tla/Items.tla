------------------------------- MODULE Items -------------------------------
(***************************************************************************)
(* One program of the installer from within: how the names of an item are  *)
(* translated, in static buffers that functions hand to each other by      *)
(* pointer, and who holds and gives back its user and group ids, which are *)
(* allocated on Windows.  What the programs do to the tree is the subject  *)
(* of Installer.                                                           *)
(*                                                                         *)
(* A text is a sequence of characters; ".vlb" is one, and so is a word.    *)
(***************************************************************************)
EXTENDS Naturals, Sequences

CONSTANTS
  Systems,        \* values of INSTALL_OS_TYPE, "posix" and "win32"
  Tables,         \* values of insthier
  Suffix_Files,   \* contents of conf-sosuffix
  Libraries,      \* contents of .vlb files, functions from their names
  Worlds,         \* what stat finds, functions from paths to attributes
  Accounts,       \* the users and groups that can be looked up
  Checked,        \* the bits of 0755
  Max_PathLen,    \* INSTALL_MAX_PATHLEN
  Max_Suffix,     \* what install_init reads at most, sizeof (inst_dlib_suffix) - 2
  MaxFaults       \* bound on the calls that fail for no reason in the model

ASSUME MaxFaultsAssumption == MaxFaults \in Nat
ASSUME PathLenAssumption == Max_PathLen \in Nat \ {0, 1}
ASSUME SuffixAssumption == Max_Suffix \in Nat
ASSUME SystemsAssumption == Systems \subseteq {"posix", "win32"}

\* Every file has an owner and a group, which have names.
ASSUME WorldsAssumption ==
  \A world \in Worlds : \A path \in DOMAIN world :
    world[path].owner # "" /\ world[path].group # ""

VARIABLES
  system, prog, table,
  dry,             \* INSTALL_DRYRUN
  libraries, suffix_file, files,
  inst_dlib_suffix,
  pc,
  i,               \* the item in work
  s,               \* the statement of its translation
  ins,             \* its fields src and dst: which buffer each points to
  buf,             \* the static buffers, and the two texts of the table
  uid, gid,        \* the ids of the operator that runs,
  uid_got, gid_got,\* and those that install_file_check has read
  live,            \* what is allocated
  failed,          \* the status of the operator is not OK
  install_failed,
  exit,
  faults,
  lost,            \* history: what nobody holds a pointer to any more
  undefined_freed, \* history: an id without a value was given back
  overrun,         \* history: the arrays that were written past their end
  accepted         \* history: the items that instchk found in order

of_program == <<system, prog, table, dry, libraries, suffix_file, files>>
names == <<s, ins, buf, overrun>>
ids == <<uid, gid, uid_got, gid_got>>
heap == <<live, lost, undefined_freed>>
outcome == <<i, failed, install_failed, exit, accepted>>
vars == <<of_program, names, ids, heap, outcome, inst_dlib_suffix, pc, faults>>

(***************************************************************************)
(* Texts.                                                                  *)
(***************************************************************************)
NULL == <<"NULL">>
Blanks == {" ", "\n"}

Least(S) == CHOOSE k \in S : \A l \in S : k <= l
Greatest(S) == CHOOSE k \in S : \A l \in S : k >= l

\* str_ends (text, ".vlb")
Is_Library(text) == text # <<>> /\ text[Len(text)] = ".vlb"

\* The text up to the first character that is in stop.
Up_To(stop, text) ==
  SubSeq(text, 1, Least({k \in DOMAIN text : text[k] \in stop} \union {Len(text) + 1}) - 1)

\* fread into a buffer of n characters.
Read_In(n, text) == SubSeq(text, 1, Least({n, Len(text)}))

\* The first word of a .vlb file, and what libname takes for it.
Word(text) == Up_To(Blanks, text)
Read_Word(text) == Word(Read_In(Max_PathLen, text))

\* install_suffix_sanitize
Sanitized(text) == Up_To(Blanks \union {"/"}, text)

\* base_name: the last name, without slashes before or after it.
Base_Name(text) ==
  LET letters == {k \in DOMAIN text : text[k] # "/"}
      slashes == {k \in DOMAIN text : text[k] = "/" /\ k < Greatest(letters)}
  IN  CASE text = <<>> -> <<".">>
        [] text # <<>> /\ letters = {} -> <<"/">>
        [] letters # {} -> SubSeq(text, Greatest(slashes \union {0}) + 1, Greatest(letters))

\* Mutant of Formatted: sprintf.
Bug_Formatted(text) == text

\* snprintf cuts what does not fit, and its result is only looked at for < 0.
Formatted(text) == IF Len(text) < Max_PathLen THEN text ELSE SubSeq(text, 1, Max_PathLen - 1)

In(dir, name) == dir \o <<"/">> \o name

\* iposix_install_init, iwin32_install_init
Exec_Suffix == IF system = "win32" THEN <<".exe">> ELSE <<>>

(***************************************************************************)
(* Name translation.                                                       *)
(***************************************************************************)
Copies == {"copy", "copy_exec"}
Links == {"symlink", "liblink"}

\* The static arrays, and the texts that the item points to at first.
Buffers == {"path_buf", "copy.src_name", "copy.dst_name", "copy.dst_tmp",
            "exec.src_name", "exec.dst_name", "liblink.src_tmp",
            "liblink.src_name", "liblink.dst_tmp", "chk_link.dst_name",
            "chk_liblink.dst_name"}
Pointers == Buffers \union {"item.src", "item.dst"}

\* The deinstaller goes through the table from its end.
Item == table[IF prog = "deinstaller" THEN Len(table) + 1 - i ELSE i]
Value(field) == buf[ins[field]]

\* dst stands for src where it is not given.
Dst_Text(item) == IF item.dst = NULL THEN item.src ELSE item.dst

Call(name, field, to) == [name |-> name, field |-> field, to |-> to]
If(condition, calls) == IF condition THEN calls ELSE <<>>

\* ntran_copy, ntran_copy_exec
Copy_Translation(item) ==
  If(Is_Library(item.src), <<Call("libname", "src", "copy.src_name")>>)
  \o If(Is_Library(Dst_Text(item)), <<Call("libname", "dst", "copy.dst_name")>>)
  \o <<Call("base_name", "dst", "path_buf"), Call("in_dir", "dst", "copy.dst_tmp")>>
  \o If(item.op = "copy_exec", <<Call("exec_suffix", "src", "exec.src_name"),
                                 Call("exec_suffix", "dst", "exec.dst_name")>>)

\* Mutant of Liblink_Translation: src stays in the buffer of base_name.
Bug_Liblink_Translation(item) ==
  If(Is_Library(item.src), <<Call("libname", "src", "liblink.src_tmp"),
                             Call("base_name", "src", "path_buf")>>)
  \o <<Call("base_name", "dst", "path_buf"), Call("dlib_suffix", "dst", "liblink.dst_tmp")>>

\* ntran_liblink: the second base_name overwrites what the first has returned.
Liblink_Translation(item) ==
  If(Is_Library(item.src), <<Call("libname", "src", "liblink.src_tmp"),
                             Call("base_name", "src", "path_buf"),
                             Call("memcpy", "src", "liblink.src_name")>>)
  \o <<Call("base_name", "dst", "path_buf"), Call("dlib_suffix", "dst", "liblink.dst_tmp")>>

\* The calls that trans makes; the tables of the three programs differ in the
\* last one only.
Translation(item) ==
  LET check == prog = "instchk"
  IN  CASE item.op \in Copies -> Copy_Translation(item)
        [] item.op = "symlink" ->
             If(check, <<Call("in_dir", "dst", "chk_link.dst_name")>>)
        [] item.op = "liblink" ->
             Liblink_Translation(item)
             \o If(check, <<Call("in_dir", "dst", "chk_liblink.dst_name")>>)
        [] item.op = "mkdir" -> <<>>

\* A table has items, and a text is a sequence.
ASSUME TablesAssumption ==
  \A items \in Tables :
    /\ items \in Seq({items[k] : k \in DOMAIN items}) /\ items # <<>>
    /\ \A k \in DOMAIN items :
         /\ items[k].op \in Copies \union Links \union {"mkdir"}
         /\ {items[k].src, items[k].dst, items[k].dir} \subseteq Seq(STRING)

ASSUME FilesAssumption ==
  /\ Suffix_Files \subseteq Seq(STRING)
  /\ \A library \in Libraries : \A name \in DOMAIN library :
       library[name] \in Seq(STRING)

Undefined_Fields(item) ==
  /\ item.op # "mkdir"
  /\ NULL \in {item.src, item.dir} \union (IF item.op \in Links THEN {item.dst} ELSE {})

\* What a call leaves in its buffer, and when it cannot.
Result(call) ==
  LET text == Value(call.field)
  IN  CASE call.name = "libname" -> Read_Word(libraries[text])
        [] call.name = "base_name" -> Base_Name(text)
        [] call.name = "memcpy" -> text
        [] call.name = "in_dir" -> Formatted(In(Item.dir, text))
        [] call.name = "exec_suffix" -> Formatted(text \o Exec_Suffix)
        [] call.name = "dlib_suffix" -> Formatted(text \o inst_dlib_suffix)

Impossible(call) ==
  \/ call.name = "libname" /\ Value(call.field) \notin DOMAIN libraries
  \/ call.name = "base_name" /\ Len(Value(call.field)) >= Max_PathLen

\* libname puts an end to the word without asking whether there is room for it.
Overruns(call) == call.name = "libname" /\ Len(Result(call)) >= Max_PathLen

(***************************************************************************)
(* The loop of a program.                                                  *)
(***************************************************************************)
Fault == faults < MaxFaults /\ faults' = faults + 1

\* What happens under this condition is the failure of a call.
Fails_If(b) == IF b THEN UNCHANGED faults ELSE Fault

Exits(status) == pc' = "exit" /\ exit' = status /\ UNCHANGED i

\* The ids are variables of the operators, and go with them.
Undefined == [object |-> <<>>, account |-> ""]
Forgotten == /\ uid' = Undefined /\ gid' = Undefined
             /\ uid_got' = Undefined /\ gid_got' = Undefined

\* FATAL ends the program, and so does the last item.
Ends(status) ==
  /\ IF status = "fatal" THEN Exits(112)
     ELSE IF i = Len(table) THEN Exits(IF install_failed' > 0 THEN 1 ELSE 0)
     ELSE pc' = "item" /\ i' = i + 1 /\ UNCHANGED exit
  /\ failed' = FALSE
  /\ Forgotten

Install_Init ==
  /\ pc = "init"
  /\ \/ /\ suffix_file # <<>>
        /\ inst_dlib_suffix' = <<".">> \o Sanitized(Read_In(Max_Suffix, suffix_file))
        /\ pc' = "item"
        /\ UNCHANGED <<i, exit, faults>>
     \/ Exits(112) /\ Fails_If(suffix_file = <<>>) /\ UNCHANGED inst_dlib_suffix
  /\ UNCHANGED <<of_program, names, ids, heap, failed, install_failed, accepted>>

Fatal ==
  /\ Ends("fatal")
  /\ UNCHANGED <<of_program, heap, install_failed, accepted, inst_dlib_suffix>>

Begin_Fails ==
  /\ pc = "item" /\ Undefined_Fields(Item)
  /\ Fatal
  /\ UNCHANGED <<names, faults>>

Begin ==
  /\ pc = "item" /\ ~Undefined_Fields(Item)
  /\ buf' = [buf EXCEPT !["item.src"] = Item.src, !["item.dst"] = Item.dst]
  /\ ins' = [src |-> "item.src",
             dst |-> IF Item.dst = NULL THEN "item.src" ELSE "item.dst"]
  /\ pc' = "translate" /\ s' = 1
  /\ UNCHANGED <<of_program, ids, heap, outcome, inst_dlib_suffix, faults, overrun>>

Translating == pc = "translate" /\ s <= Len(Translation(Item))

Translate ==
  /\ Translating
  /\ LET call == Translation(Item)[s]
     IN  /\ ~Impossible(call) /\ ~Overruns(call)
         /\ buf' = [buf EXCEPT ![call.to] = Result(call)]
         /\ ins' = [ins EXCEPT ![call.field] = call.to]
  /\ s' = s + 1
  /\ UNCHANGED <<of_program, ids, heap, outcome, inst_dlib_suffix, pc, faults, overrun>>

\* The 0 after a word that fills its array falls on what the build has put next
\* to it: another array or the suffix, which it empties, or something that the
\* model leaves out (harmed is then the array itself), or the program crashes.
Translate_Overruns ==
  /\ Translating
  /\ LET call == Translation(Item)[s]
     IN  /\ ~Impossible(call) /\ Overruns(call)
         /\ \E harmed \in Buffers :
              buf' = [buf EXCEPT ![harmed] = <<>>, ![call.to] = Result(call)]
         /\ ins' = [ins EXCEPT ![call.field] = call.to]
         /\ overrun' = overrun \union {call.to}
  /\ inst_dlib_suffix' \in {inst_dlib_suffix, <<>>}
  /\ s' = s + 1
  /\ \/ UNCHANGED <<pc, i, exit>>
     \/ Exits(139)
  /\ UNCHANGED <<of_program, ids, heap, failed, install_failed, accepted, faults>>

\* A status that no one has set is FATAL.  No one reads what a libname that fails
\* has written.
Translate_Fails ==
  /\ Translating
  /\ LET call == Translation(Item)[s]
     IN  /\ call.name \in {"libname", "base_name"}
         /\ Fails_If(Impossible(call))
         /\ Impossible(call) \/ call.name = "libname"
  /\ Fatal
  /\ UNCHANGED names

\* The operator that is called looks up the owner first, or does not.
Looks_Up == prog = "instchk" \/ (prog = "installer" /\ Item.op \notin Links)

Translated ==
  /\ pc = "translate" /\ ~Translating
  /\ pc' = IF Looks_Up THEN "uid" ELSE "operate"
  /\ UNCHANGED <<of_program, names, ids, heap, outcome, inst_dlib_suffix, faults>>
(***************************************************************************)
(* The ids.  Those of POSIX are numbers, those of Windows are allocated;   *)
(* an object is named after the item and the variable it is allocated for. *)
(***************************************************************************)
Account(name, default) ==
  CASE name # "" -> name
    [] name = "" /\ system = "posix" -> "self"
    [] name = "" /\ system = "win32" -> default
Owner(item) == Account(item.owner, "Administrator")
Group(item) == Account(item.group, "None")

\* getuid and getgid do not fail.
Sure(name) == name = "" /\ system = "posix"

Object(var) == IF system = "win32" THEN <<i, var>> ELSE <<>>
Allocated(var) == {Object(var)} \ {<<>>}
Id(var, account) == [object |-> Object(var), account |-> account]
Null == [object |-> <<>>, account |-> "null"]

\* What install_uid_free and install_gid_free give back; on POSIX, nothing.
Freed(some) == {id.object : id \in some}

\* EqualSid, or equality of numbers.
Same(a, b) == a.account = b.account

\* iposix_uid_lookup, iwin32_get_sid
Look_Up_User ==
  /\ pc = "uid"
  /\ Sure(Item.owner) \/ Owner(Item) \in Accounts
  /\ uid' = Id("uid", Owner(Item))
  /\ live' = live \union Allocated("uid")
  /\ pc' = "gid"
  /\ UNCHANGED <<of_program, names, outcome, inst_dlib_suffix, faults,
                 gid, uid_got, gid_got, lost, undefined_freed>>

Look_Up_Group ==
  /\ pc = "gid"
  /\ Sure(Item.group) \/ Group(Item) \in Accounts
  /\ gid' = Id("gid", Group(Item))
  /\ live' = live \union Allocated("gid")
  /\ pc' = IF prog = "instchk" THEN "check" ELSE "operate"
  /\ UNCHANGED <<of_program, names, outcome, inst_dlib_suffix, faults,
                 uid, uid_got, gid_got, lost, undefined_freed>>

\* iwin32_get_sid does not give back what it has allocated; only if malloc
\* fails there is nothing.  What freed holds is given back by the caller.
Look_Up_Fails(var, name, account, freed) ==
  /\ ~Sure(name)
  /\ \E objects \in {{}, Allocated(var)} :
       /\ live' = (live \ freed) \union objects
       /\ lost' = lost \union objects
       /\ Fails_If(account \notin Accounts /\ objects = Allocated(var))
  /\ UNCHANGED install_failed
  /\ Ends("error")
  /\ UNCHANGED <<of_program, names, inst_dlib_suffix, accepted, undefined_freed>>

Look_Up_User_Fails ==
  pc = "uid" /\ Look_Up_Fails("uid", Item.owner, Owner(Item), {})

\* Mutant of Look_Up_Group_Fails: the user id stays allocated.
Bug_Look_Up_Group_Fails ==
  pc = "gid" /\ Look_Up_Fails("gid", Item.group, Group(Item), {})

\* install_uidgid_lookup gives the user id back.
Look_Up_Group_Fails ==
  pc = "gid" /\ Look_Up_Fails("gid", Item.group, Group(Item), Freed({uid}))

(***************************************************************************)
(* The operators.                                                          *)
(***************************************************************************)
Source == IF Item.op = "mkdir" THEN Item.dir ELSE Value("src")

\* Where an operator works: inst_link from within dir, deinst_link on a text
\* of its own.
Place ==
  CASE Item.op = "mkdir" -> Item.dir
    [] Item.op \in Links /\ prog = "installer" -> In(Item.dir, Value("dst"))
    [] Item.op \in Links /\ prog = "deinstaller" -> Formatted(In(Item.dir, Value("dst")))
    [] Item.op \in Copies \/ (Item.op \in Links /\ prog = "instchk") -> Value("dst")

\* inst_copy, inst_mkdir: both ids are used.
Install ==
  /\ pc = "operate" /\ Looks_Up
  /\ failed' \in IF dry THEN {FALSE} ELSE BOOLEAN
  /\ Fails_If(~failed')
  /\ pc' = "release"
  /\ UNCHANGED <<of_program, names, ids, heap, inst_dlib_suffix,
                 i, install_failed, exit, accepted>>

\* On Windows a link is a copy, which is given the owner of its source.
Copies_Link == prog = "installer" /\ Item.op \in Links /\ system = "win32" /\ ~dry

Link_By_Copy ==
  /\ pc = "operate" /\ Copies_Link
  /\ pc' = "ownership"
  /\ UNCHANGED <<of_program, names, ids, heap, outcome, inst_dlib_suffix, faults>>

\* deinst_*, and inst_link: no id is used.  Only inst_link is ever fatal, when
\* it cannot return to the directory it came from.
Operate ==
  /\ pc = "operate" /\ ~Looks_Up /\ ~Copies_Link
  /\ UNCHANGED install_failed
  /\ \E status \in {"ok", "error", "fatal"} :
       /\ status # "ok" => ~(prog = "deinstaller" /\ dry)
       /\ status = "fatal" => prog = "installer"
       /\ Fails_If(status = "ok")
       /\ Ends(status)
  /\ UNCHANGED <<of_program, names, heap, inst_dlib_suffix, accepted>>

Type_Wanted ==
  CASE Item.op \in Copies -> "file"
    [] Item.op \in Links -> "symlink"
    [] Item.op = "mkdir" -> "directory"
Size_Of(path) == IF path \in DOMAIN files THEN files[path].size ELSE 0

\* Mutant of Matches: the test of have_symlinks is the wrong way round.
Bug_Matches(size) ==
  /\ Place \in DOMAIN files
  /\ system = "posix" /\ Type_Wanted # "symlink" => files[Place].type = Type_Wanted
  /\ Type_Wanted = "file" => Size_Of(Place) = size
  /\ system = "posix" => files[Place].mode \cap Checked = Item.perm

\* install_file_check up to the ownership, a file of this size being wanted.
\* Where there are symbolic links types are not compared, on Windows modes.
Matches(size) ==
  /\ Place \in DOMAIN files
  /\ system = "win32" /\ Type_Wanted # "symlink" => files[Place].type = Type_Wanted
  /\ Type_Wanted = "file" => Size_Of(Place) = size
  /\ system = "posix" => files[Place].mode \cap Checked = Item.perm

\* Nobody looks whether the size of the source could be read.
Check ==
  /\ pc = "check"
  /\ \E size \in {Size_Of(Source), 0} :
       /\ failed' \in {~Matches(size), TRUE}
       /\ Fails_If(size = Size_Of(Source) /\ failed' = ~Matches(size))
  /\ pc' = IF failed' THEN "release" ELSE "ownership"
  /\ install_failed' = IF failed' THEN install_failed + 1 ELSE install_failed
  /\ UNCHANGED <<of_program, names, ids, heap, inst_dlib_suffix, i, exit, accepted>>

\* What becomes of an id that is read from a file.  On Windows this may fail
\* before memory is asked for, for want of it, or after.
Results == {"ok", "unset"} \union
           (IF system = "win32" THEN {"no_memory", "not_copied"} ELSE {})
Read(var, account, result) ==
  CASE result = "ok" -> Id(var, account)
    [] result = "unset" -> Undefined
    [] result = "no_memory" -> Null
    [] result = "not_copied" -> Id(var, "")

\* install_file_check reads the owner of the place; iwin32_file_link, from within
\* dir, that of the file it copies.
Examined ==
  CASE prog = "instchk" -> Place
    [] prog # "instchk" /\ Value("src")[1] = "/" -> Value("src")
    [] prog # "instchk" /\ Value("src")[1] # "/" -> In(Item.dir, Value("src"))
Of_File(field) == IF Examined \in DOMAIN files THEN files[Examined][field] ELSE "unknown"

\* Mutant of Owned: the group is read as well, but its failure is not noticed.
Bug_Owned(owner, group) == owner = "ok"

Owned(owner, group) == owner = "ok" /\ group = "ok"

\* iposix_file_get_ownership reads both at once, iwin32_file_get_ownership the
\* owner first.  These are the ids of install_file_check or iwin32_file_link.
Get_Ownership ==
  /\ pc = "ownership"
  /\ \E owner, group \in Results :
       /\ owner # "ok" => group = "unset"
       /\ system = "posix" => group = owner
       /\ uid_got' = Read("uid_got", Of_File("owner"), owner)
       /\ gid_got' = Read("gid_got", Of_File("group"), group)
       /\ live' = live \union ({uid_got'.object, gid_got'.object} \ {<<>>})
       /\ failed' = ~Owned(owner, group)
       /\ Fails_If(owner = "ok" /\ group = "ok")
  /\ pc' = IF prog = "installer" THEN "copy" ELSE IF failed' THEN "end" ELSE "compare"
  /\ UNCHANGED <<of_program, names, inst_dlib_suffix, uid, gid, lost, undefined_freed,
                 i, install_failed, exit, accepted>>

\* Whatever comes of the copy, nobody gives back the ids.
End_Link ==
  /\ pc = "copy"
  /\ lost' = lost \union ({uid_got.object, gid_got.object} \ {<<>>})
  /\ UNCHANGED install_failed
  /\ \E status \in {"ok", "error", "fatal"} :
       /\ failed => status # "ok"
       /\ Fails_If(status = IF failed THEN "error" ELSE "ok")
       /\ Ends(status)
  /\ UNCHANGED <<of_program, names, inst_dlib_suffix, live, undefined_freed, accepted>>

Compare ==
  /\ pc = "compare"
  /\ failed' = ~(Same(uid, uid_got) /\ Same(gid, gid_got))
  /\ pc' = "end"
  /\ UNCHANGED <<of_program, names, ids, heap, inst_dlib_suffix, faults,
                 i, install_failed, exit, accepted>>

\* END of install_file_check.  On Windows an id that was not set holds what was
\* there before: the program may crash, give back some other id, or none.
End_Check ==
  /\ pc = "end"
  /\ LET unset == system = "win32" /\ Undefined \in {uid_got, gid_got}
     IN  /\ undefined_freed' = (undefined_freed \/ unset)
         /\ \E other \in {{}} \union (IF unset THEN {{o} : o \in live} ELSE {}) :
              live' = live \ (Freed({uid_got, gid_got}) \union other)
         /\ \/ /\ pc' = "release"
               /\ uid_got' = Undefined /\ gid_got' = Undefined
               /\ install_failed' = IF failed THEN install_failed + 1 ELSE install_failed
               /\ UNCHANGED <<uid, gid, i, exit, failed>>
            \/ unset /\ Exits(139) /\ UNCHANGED <<ids, install_failed, failed>>
  /\ UNCHANGED <<of_program, names, inst_dlib_suffix, faults, lost, accepted>>

\* The operators give back what they have looked up.
Release ==
  /\ pc = "release"
  /\ live' = live \ Freed({uid, gid})
  /\ accepted' = IF prog = "instchk" /\ ~failed THEN accepted \union {i} ELSE accepted
  /\ UNCHANGED install_failed
  /\ Ends(IF failed THEN "error" ELSE "ok")
  /\ UNCHANGED <<of_program, names, inst_dlib_suffix, faults, lost, undefined_freed>>

Init ==
  /\ system \in Systems
  /\ prog \in {"installer", "instchk", "deinstaller"}
  /\ table \in Tables
  /\ dry \in IF prog = "instchk" THEN {FALSE} ELSE BOOLEAN
  /\ libraries \in Libraries
  /\ suffix_file \in Suffix_Files
  /\ files \in Worlds
  /\ inst_dlib_suffix = <<>>
  /\ pc = "init" /\ i = 1 /\ s = 1
  /\ ins = [src |-> "item.src", dst |-> "item.dst"]
  /\ buf = [p \in Pointers |-> <<>>]
  /\ uid = Undefined /\ gid = Undefined /\ uid_got = Undefined /\ gid_got = Undefined
  /\ live = {} /\ lost = {} /\ undefined_freed = FALSE /\ overrun = {}
  /\ failed = FALSE /\ install_failed = 0 /\ exit = 0 /\ accepted = {}
  /\ faults = 0

Next ==
  \/ Install_Init \/ Begin \/ Begin_Fails
  \/ Translate \/ Translate_Overruns \/ Translate_Fails \/ Translated
  \/ Look_Up_User \/ Look_Up_User_Fails \/ Look_Up_Group \/ Look_Up_Group_Fails
  \/ Install \/ Link_By_Copy \/ End_Link \/ Operate
  \/ Check \/ Get_Ownership \/ Compare \/ End_Check
  \/ Release

Spec == Init /\ [][Next]_vars

(***************************************************************************)
(* Properties.                                                             *)
(***************************************************************************)

\* What the table says, without a buffer: the text of a name, and for an item
\* what it is made from and where it goes.
Listed_Name(text) == IF Is_Library(text) THEN Word(libraries[text]) ELSE text

Listed_Source(item) ==
  CASE item.op = "copy" -> Listed_Name(item.src)
    [] item.op = "copy_exec" -> Listed_Name(item.src) \o Exec_Suffix
    [] item.op = "symlink" -> item.src
    [] item.op = "liblink" ->
         IF Is_Library(item.src) THEN Base_Name(Listed_Name(item.src)) ELSE item.src
    [] item.op = "mkdir" -> item.dir

Listed_Place(item) ==
  CASE item.op = "copy" -> In(item.dir, Base_Name(Listed_Name(Dst_Text(item))))
    [] item.op = "copy_exec" ->
         In(item.dir, Base_Name(Listed_Name(Dst_Text(item)))) \o Exec_Suffix
    [] item.op = "symlink" -> In(item.dir, item.dst)
    [] item.op = "liblink" -> In(item.dir, Base_Name(item.dst)) \o inst_dlib_suffix
    [] item.op = "mkdir" -> item.dir

Fits(item) == Len(Listed_Source(item)) < Max_PathLen /\ Len(Listed_Place(item)) < Max_PathLen

Objects == {<<k, var>> : k \in 1..Len(table), var \in {"uid", "gid", "uid_got", "gid_got"}}

\* Every variable has its type.  In particular a static array is only written
\* past its end by libname, by one character, and if a .vlb file has a first word
\* that fills the array.
TypeOK ==
  /\ pc \in {"init", "item", "translate", "uid", "gid", "operate", "check",
             "ownership", "compare", "end", "copy", "release", "exit"}
  /\ i \in 1..Len(table)
  /\ s \in 1..7
  /\ ins \in [{"src", "dst"} -> Pointers]
  /\ \A b \in Buffers :
       Len(buf[b]) < Max_PathLen \/ (b \in overrun /\ Len(buf[b]) = Max_PathLen)
  /\ overrun \subseteq {"copy.src_name", "copy.dst_name", "liblink.src_tmp"}
  /\ overrun # {} =>
       \E name \in DOMAIN libraries : Len(Word(libraries[name])) >= Max_PathLen
  /\ Len(inst_dlib_suffix) <= Max_Suffix + 1
  /\ {uid.object, gid.object, uid_got.object, gid_got.object} \subseteq Objects \union {<<>>}
  /\ lost \subseteq Objects /\ live \subseteq Objects
  /\ install_failed \in 0..i
  /\ exit \in {0, 1, 112, 139}
  /\ accepted \subseteq 1..i

\* Whatever buffers its names have gone through, and whatever earlier items have
\* left there, an operator works on the files that the table names, and the
\* three programs on the same ones, unless a name is too long for a buffer or an
\* array was written past its end.
OperandsAsListed ==
  pc \in {"operate", "check"} /\ Fits(Item) /\ overrun = {} =>
    Source = Listed_Source(Item) /\ Place = Listed_Place(Item)

\* instchk accepts no item unless the listed place holds what it should: the
\* size of the source as it now is, owner and group, and on POSIX the mode, on
\* Windows the type.  But where the source could not be read an empty file will do.
AcceptedMatches ==
  \A k \in accepted : Fits(table[k]) /\ overrun = {} =>
    LET item == table[k]
        place == Listed_Place(item)
    IN  /\ place \in DOMAIN files
        /\ item.op \in Copies =>
             \/ files[place].size = Size_Of(Listed_Source(item))
             \/ files[place].size = 0 /\ faults > 0
        /\ files[place].owner = Owner(item) /\ files[place].group = Group(item)
        /\ system = "posix" => files[place].mode \cap Checked = item.perm
        /\ system = "win32" =>
             /\ item.op \in Copies => files[place].type = "file"
             /\ item.op = "mkdir" => files[place].type = "directory"

\* An id is not used, compared or given back before it has a value, nor after
\* it was given back, until install_file_check gives back what it could not read.
IdsAreLive ==
  ~undefined_freed =>
    /\ \A id \in {uid, gid, uid_got, gid_got} : id.object # <<>> => id.object \in live
    /\ pc \in {"check", "compare", "end", "release"} => "" \notin {uid.account, gid.account}
    /\ pc = "operate" /\ Looks_Up => "" \notin {uid.account, gid.account}
    /\ pc = "compare" => "" \notin {uid_got.account, gid_got.account}

\* Between two items, and at the end of a program, nothing is allocated but what
\* a failed lookup, or a link copied on Windows, has lost.
IdsAreGivenBack ==
  pc \in {"item", "exit"} /\ ~undefined_freed => live \subseteq lost
=============================================================================

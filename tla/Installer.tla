----------------------------- MODULE Installer -----------------------------
(***************************************************************************)
(* The programs installer, deinstaller and instchk: each goes once through *)
(* a table of items and installs, removes or checks every one.  A file is  *)
(* copied to a temporary name beside its destination and renamed.  Any     *)
(* call may fail and a program may be killed between two of them; between  *)
(* programs the sources are rebuilt and others put files into the same     *)
(* directories.                                                            *)
(*                                                                         *)
(* A path is the sequence of its names.  A mode is a set of bits.  A group *)
(* is looked up, set and compared with its user, and is left out.          *)
(***************************************************************************)
EXTENDS Naturals, SequencesExt, TLC

CONSTANTS
  Table,         \* insthier, a sequence of items
  Users,         \* the accounts of the system
  Root,          \* the one that may do anything
  Bits,          \* the bits of a mode,
  Checked,       \* those of 0755
  Creat,         \* and those of 0666
  Write,         \* and the bit that lets the owner write
  Umasks,        \* the masks users run with
  Trees,         \* what may be there before the first program runs
  Bytes,         \* the size of each version of a source
  Stranger,      \* the name of somebody else's file
  MaxRuns,       \* bound on the programs run,
  MaxEvents      \* and on failures, kills and changes from outside, together

\* An item of the table; dst or owner may be absent (<<>> and "").
Items == {Table[j] : j \in DOMAIN Table}
Files == {"copy", "copy_exec"}
Is_File(item) == item.op \in Files
Sources == {item.src : item \in {it \in Items : Is_File(it)}}
Version == DOMAIN Bytes

\* Version 0 is a source that is missing, or the contents of a file that is
\* not written to its end; 1 is what is built at first.
ASSUME VersionAssumption == {0, 1} \subseteq Version /\ Bytes \in [Version -> Nat]

VARIABLES
  fs,              \* the tree: from paths to nodes
  built,           \* the version of every source
  prog,            \* the program that runs, or has run last
  user, umask,     \* who runs it, and the mask of new files
  dry,             \* INSTALL_DRYRUN
  pc,              \* where it is
  i,               \* items begun
  install_failed,  \* what instchk counts
  exit,            \* status of the program
  errors,          \* history: the items reported as ERROR
  faulted,         \* history: a call has failed for no reason in the model
  runs, events     \* what the bounds count

vars == <<fs, built, prog, user, umask, dry, pc, i, install_failed, exit,
          errors, faulted, runs, events>>
of_run == <<prog, user, umask, dry, runs>>

Killed == 137
Crashed == 139

Node(type, src, version, mode, owner) ==
  [type |-> type, src |-> src, version |-> version, mode |-> mode, owner |-> owner]

(***************************************************************************)
(* Names.                                                                  *)
(***************************************************************************)

\* dst_tmp of install_file_copy.
Tmp(path) == Append(Front(path), Last(path) \o ".tmp")

\* Name translation.  A file goes to the base name of dst, or of src, in dir;
\* the directory part of a link's dst is kept.
Dst(item) ==
  IF Is_File(item)
  THEN Append(item.dir, Last(IF item.dst = <<>> THEN item.src ELSE item.dst))
  ELSE item.dir \o item.dst

\* Mutant of Position: the deinstaller goes forward as well.
Bug_Position(p, k) == k

\* The deinstaller goes through the table from its end.
Position(p, k) == IF p = "deinstaller" THEN Len(Table) + 1 - k ELSE k

Item == Table[Position(prog, i)]
At(p, ops) == prog = p /\ pc = "item" /\ Item.op \in ops

\* install_uidgid_lookup: no name stands for the user who runs the program.
Known(item) == item.owner \in Users \union {""}
Uid(item) == IF item.owner = "" THEN user ELSE item.owner

(***************************************************************************)
(* The tree.                                                               *)
(***************************************************************************)
Is_Dir(tree, path) == path \in DOMAIN tree /\ tree[path].type = "dir"
May(node) == user = Root \/ node.owner = user

\* An entry of this name can be made in its directory, or removed from it.
May_Enter(tree, path) == Is_Dir(tree, Front(path)) /\ May(tree[Front(path)])

Below(path) == {p \in DOMAIN fs : IsStrictPrefix(path, p)}
Without(tree, paths) == Restrict(tree, DOMAIN tree \ paths)
With(tree, path, node) ==
  [p \in DOMAIN tree \union {path} |-> IF p = path THEN node ELSE tree[p]]

\* Where stat arrives, following a link.
Follow(path) ==
  IF path \in DOMAIN fs /\ fs[path].type = "link"
  THEN Front(path) \o fs[path].src ELSE path

\* chown
May_Chown(node, uid) == user = Root \/ (node.owner = user /\ uid = user)

Event == events < MaxEvents /\ events' = events + 1

\* What happens under this condition is the failure of a call.
Fault(b) ==
  \/ b /\ Event /\ faulted' = TRUE
  \/ ~b /\ UNCHANGED <<events, faulted>>

(***************************************************************************)
(* The loop of the three programs.                                         *)
(***************************************************************************)

\* The end of a program, with the end of its variables.
Exits(status) ==
  /\ pc' = "idle"
  /\ exit' = status
  /\ i' = 1
  /\ install_failed' = 0

\* Mutant of Ends: the item that failed is tried again.
Bug_Ends(status, count) ==
  /\ errors' = IF status = "error" THEN errors \union {Item} ELSE errors
  /\ IF status = "fatal" \/ (i = Len(Table) /\ status = "ok")
     THEN Exits(IF status = "fatal" THEN 112
                ELSE IF install_failed + count > 0 THEN 1 ELSE 0)
     ELSE /\ pc' = "item"
          /\ i' = IF status = "error" THEN i ELSE i + 1
          /\ install_failed' = install_failed + count
          /\ UNCHANGED exit

\* Mutant of Ends: the loop goes one too far.
Bug_Ends_Late(status, count) ==
  /\ errors' = IF status = "error" THEN errors \union {Item} ELSE errors
  /\ IF status = "fatal" \/ i > Len(Table)
     THEN Exits(IF status = "fatal" THEN 112
                ELSE IF install_failed + count > 0 THEN 1 ELSE 0)
     ELSE /\ pc' = "item"
          /\ i' = i + 1
          /\ install_failed' = install_failed + count
          /\ UNCHANGED exit

\* An item is done: ERROR is reported and the loop goes on, FATAL ends it.
\* Only instchk turns errors into its exit status.
Ends(status, count) ==
  /\ errors' = IF status = "error" THEN errors \union {Item} ELSE errors
  /\ IF status = "fatal" \/ i = Len(Table)
     THEN Exits(IF status = "fatal" THEN 112
                ELSE IF install_failed + count > 0 THEN 1 ELSE 0)
     ELSE /\ pc' = "item"
          /\ i' = i + 1
          /\ install_failed' = install_failed + count
          /\ UNCHANGED exit

Goes_To(label) == pc' = label /\ UNCHANGED <<i, install_failed, exit, errors>>

Dies(signal) == Exits(signal) /\ errors' = {}

\* Without the suffix file a program ends before its loop.
Start(p, u, d) ==
  /\ pc = "idle" /\ runs < MaxRuns
  /\ runs' = runs + 1
  /\ prog' = p /\ user' = u /\ dry' = d
  /\ errors' = {}
  /\ \/ pc' = "item" /\ exit' = 0 /\ faulted' = FALSE
        /\ UNCHANGED <<i, install_failed, events>>
     \/ Exits(112) /\ faulted' = TRUE /\ Event
  /\ UNCHANGED <<fs, built, umask>>

\* No such user: an error of the item, which install_failed does not count.
Lookup_Fails ==
  /\ \/ At("installer", Files \union {"mkdir"})
     \/ At("instchk", Files \union {"mkdir", "symlink"})
  /\ ~Known(Item)
  /\ Ends("error", 0)
  /\ UNCHANGED <<fs, built, events, faulted, of_run>>

\* A dry run stops short of every change; a link's directory is entered.
Dry_Run ==
  /\ dry
  /\ \/ At("installer", Files \union {"mkdir"}) /\ Known(Item)
     \/ At("deinstaller", Files \union {"mkdir", "symlink"})
  /\ Ends("ok", 0)
  /\ UNCHANGED <<fs, built, events, faulted, of_run>>

(***************************************************************************)
(* installer                                                               *)
(***************************************************************************)

\* The first n names of dir are made, those that are missing, in order.  No
\* failure of mkdir is noticed: 0 is returned where -1 is looked for.
Rmkdir(dir, n, perm) ==
  LET missing == {p \in Prefixes(dir) : p \notin DOMAIN fs}
      first == CHOOSE p \in missing : \A q \in missing : Len(p) <= Len(q)
  IN  IF missing = {} \/ ~May_Enter(fs, first)
      THEN fs
      ELSE LET made == {p \in missing : Len(p) <= n}
           IN  [p \in DOMAIN fs \union made |->
                  IF p \in made THEN Node("dir", <<>>, 0, perm \ umask, user)
                  ELSE fs[p]]

\* A directory that is there keeps its mode and gets its owner.
Mkdir ==
  /\ At("installer", {"mkdir"}) /\ Known(Item) /\ ~dry
  /\ \E n \in 0..Len(Item.dir), broken \in BOOLEAN :
       LET tree == Rmkdir(Item.dir, n, Item.perm)
           owned == /\ ~broken
                    /\ Item.dir \in DOMAIN tree
                    /\ May_Chown(tree[Item.dir], Uid(Item))
       IN  /\ fs' = IF owned THEN [tree EXCEPT ![Item.dir].owner = Uid(Item)]
                             ELSE tree
           /\ Ends(IF owned THEN "ok" ELSE "error", 0)
           /\ Fault(n < Len(Item.dir) \/ broken)
  /\ UNCHANGED <<built, of_run>>

Copying(label) ==
  /\ prog = "installer" /\ pc = label /\ Is_File(Item) /\ Known(Item) /\ ~dry
  /\ UNCHANGED <<built, of_run>>

\* Mutant of tmp: the file is written in place.
Bug_tmp == Dst(Item)

tmp == Tmp(Dst(Item))

\* Mutant of Copy_Error: the status is OK already.
Bug_Copy_Error ==
  /\ fs' = IF May_Enter(fs, tmp) THEN Without(fs, {tmp}) ELSE fs
  /\ Ends("ok", 0)

\* ERR: unlink, and an ERROR.
Copy_Error ==
  /\ fs' = IF May_Enter(fs, tmp) THEN Without(fs, {tmp}) ELSE fs
  /\ Ends("error", 0)

\* ERR with a stream that is NULL or closed already: fclose may crash.
Copy_Error_Undefined ==
  Copy_Error \/ (Dies(Crashed) /\ UNCHANGED fs)

Open_Source_Fails ==
  /\ Copying("item")
  /\ Ends("error", 0)
  /\ Fault(built[Item.src] # 0)
  /\ UNCHANGED fs

\* Mutant of Can_Write: the temporary file must be new.
Bug_Can_Write(path) == path \notin DOMAIN fs /\ May_Enter(fs, path)

\* fopen (path, "wb")
Can_Write(path) ==
  IF path \in DOMAIN fs
  THEN /\ ~Is_Dir(fs, path)
       /\ user = Root \/ (fs[path].owner = user /\ Write \in fs[path].mode)
  ELSE May_Enter(fs, path)

\* A temporary file of another user, or without write permission, left by a
\* program that was killed, may be the reason.
Open_Destination_Fails ==
  /\ Copying("item")
  /\ built[Item.src] # 0
  /\ Copy_Error_Undefined
  /\ LET left_over == tmp \in DOMAIN fs /\ (fs[tmp].owner # user \/ Write \notin fs[tmp].mode)
     IN  IF ~Can_Write(tmp) /\ left_over
         THEN faulted' = TRUE /\ UNCHANGED events
         ELSE Fault(Can_Write(tmp))

Open_Files ==
  /\ Copying("item")
  /\ built[Item.src] # 0
  /\ Can_Write(tmp)
  /\ fs' = IF tmp \in DOMAIN fs
           THEN [fs EXCEPT ![tmp].src = Item.src, ![tmp].version = 0]
           ELSE With(fs, tmp, Node("file", Item.src, 0, Creat \ umask, user))
  /\ Goes_To("copy")
  /\ UNCHANGED <<events, faulted>>

Copy_Data ==
  /\ Copying("copy")
  /\ \/ /\ fs' = [fs EXCEPT ![tmp].version = built[Item.src]]
        /\ Goes_To("attributes")
        /\ UNCHANGED <<events, faulted>>
     \/ Copy_Error /\ Fault(TRUE)

\* fflush, chmod, chown
Set_Attributes ==
  /\ Copying("attributes")
  /\ \/ /\ May_Chown(fs[tmp], Uid(Item))
        /\ fs' = [fs EXCEPT ![tmp].mode = Item.perm, ![tmp].owner = Uid(Item)]
        /\ Goes_To("rename")
        /\ UNCHANGED <<events, faulted>>
     \/ Copy_Error /\ Fault(May_Chown(fs[tmp], Uid(Item)))

\* fclose of both, and rename
Rename_Tmp ==
  /\ Copying("rename")
  /\ LET dst == Dst(Item)
         can == May_Enter(fs, dst) /\ ~Is_Dir(fs, dst)
     IN  \/ /\ can
            /\ fs' = With(Without(fs, {tmp}), dst, fs[tmp])
            /\ Ends("ok", 0)
            /\ UNCHANGED <<events, faulted>>
         \/ Copy_Error_Undefined /\ Fault(can)

\* The link is made from within its directory.  To be unable to come back is
\* fatal, and the link stays.
Link ==
  /\ At("installer", {"symlink"})
  /\ LET dst == Dst(Item)
         can == ~dry /\ dst \notin DOMAIN fs /\ May_Enter(fs, dst)
     IN  \/ Ends("error", 0) /\ Fault(Is_Dir(fs, Item.dir)) /\ UNCHANGED fs
         \/ /\ Is_Dir(fs, Item.dir)
            /\ \E made \in {FALSE, can}, back \in BOOLEAN :
                 /\ fs' = IF made
                          THEN With(fs, dst, Node("link", Item.src, 0, Bits, user))
                          ELSE fs
                 /\ Ends(CASE ~back -> "fatal"
                           [] back /\ (made \/ dry) -> "ok"
                           [] OTHER -> "error", 0)
                 /\ Fault(~back \/ (can /\ ~made))
  /\ UNCHANGED <<built, of_run>>

(***************************************************************************)
(* instchk                                                                 *)
(***************************************************************************)
Place(item) == IF item.op = "mkdir" THEN item.dir ELSE Dst(item)

\* Mutant of File_Check: the size is not compared.
Bug_Size(item) ==
  LET at == Follow(Place(item))
  IN  /\ at \in DOMAIN fs
      /\ fs[at].mode \cap Checked = item.perm
      /\ fs[at].owner = Uid(item)

\* Mutant of File_Check: all bits of the mode are compared.
Bug_Mode(item) ==
  LET at == Follow(Place(item))
  IN  /\ at \in DOMAIN fs
      /\ Is_File(item) => Bytes[fs[at].version] = Bytes[built[item.src]]
      /\ fs[at].mode = item.perm
      /\ fs[at].owner = Uid(item)

\* What is at the place of an item has its size, mode and owner, a link's
\* target for a link.  Where there are symbolic links types are not compared.
File_Check(item) ==
  LET at == Follow(Place(item))
  IN  /\ at \in DOMAIN fs
      /\ Is_File(item) => Bytes[fs[at].version] = Bytes[built[item.src]]
      /\ fs[at].mode \cap Checked = item.perm
      /\ fs[at].owner = Uid(item)

Check ==
  /\ prog = "instchk" /\ pc = "item" /\ Known(Item)
  /\ \E broken \in BOOLEAN :
       /\ IF File_Check(Item) /\ ~broken THEN Ends("ok", 0) ELSE Ends("error", 1)
       /\ Fault(broken)
  /\ UNCHANGED <<fs, built, of_run>>

(***************************************************************************)
(* deinstaller                                                             *)
(***************************************************************************)
Remove_File ==
  /\ At("deinstaller", Files \union {"symlink"}) /\ ~dry
  /\ LET dst == Dst(Item)
         can == dst \in DOMAIN fs /\ ~Is_Dir(fs, dst) /\ May_Enter(fs, dst)
     IN  \/ can /\ fs' = Without(fs, {dst}) /\ Ends("ok", 0)
            /\ UNCHANGED <<events, faulted>>
         \/ Ends("error", 0) /\ Fault(can) /\ UNCHANGED fs
  /\ UNCHANGED <<built, of_run>>

\* Mutant of Remove_Directory: with everything in it.
Bug_Remove_Directory ==
  /\ At("deinstaller", {"mkdir"}) /\ ~dry
  /\ LET dir == Item.dir
         can == Is_Dir(fs, dir) /\ May_Enter(fs, dir)
     IN  \/ can /\ fs' = Without(fs, {dir} \union Below(dir)) /\ Ends("ok", 0)
            /\ UNCHANGED <<events, faulted>>
         \/ Ends("error", 0) /\ Fault(can) /\ UNCHANGED fs
  /\ UNCHANGED <<built, of_run>>

\* Only the last name of the directory goes, and only when it is empty.
Remove_Directory ==
  /\ At("deinstaller", {"mkdir"}) /\ ~dry
  /\ LET dir == Item.dir
         can == Is_Dir(fs, dir) /\ Below(dir) = {} /\ May_Enter(fs, dir)
     IN  \/ can /\ fs' = Without(fs, {dir}) /\ Ends("ok", 0)
            /\ UNCHANGED <<events, faulted>>
         \/ Ends("error", 0) /\ Fault(can) /\ UNCHANGED fs
  /\ UNCHANGED <<built, of_run>>

(***************************************************************************)
(* Between programs, and from outside.                                     *)
(***************************************************************************)
Kill ==
  /\ pc # "idle"
  /\ Dies(Killed)
  /\ Event
  /\ UNCHANGED <<fs, built, faulted, of_run>>

Others_Change ==
  /\ pc = "idle"
  /\ prog' = "none"
  /\ Event
  /\ UNCHANGED <<user, umask, dry, pc, i, install_failed, exit, errors, faulted, runs>>

\* A source is built again, or cleaned away.
Rebuild(src, v) == Others_Change /\ built' = [built EXCEPT ![src] = v] /\ UNCHANGED fs

\* Somebody else puts a file into a directory of the table.
Add_Stranger(dir) ==
  /\ Is_Dir(fs, dir)
  /\ Append(dir, Stranger) \notin DOMAIN fs
  /\ fs' = With(fs, Append(dir, Stranger), Node("file", <<>>, 1, Creat, Root))
  /\ Others_Change
  /\ UNCHANGED built

Init ==
  /\ fs \in Trees
  /\ built = [s \in Sources |-> 1]
  /\ prog = "none" /\ pc = "idle" /\ i = 1 /\ exit = 0
  /\ user = Root /\ umask \in Umasks /\ dry = FALSE
  /\ install_failed = 0 /\ errors = {} /\ faulted = FALSE
  /\ runs = 0 /\ events = 0

Step ==
  \/ Lookup_Fails \/ Dry_Run
  \/ Mkdir \/ Link
  \/ Open_Source_Fails \/ Open_Destination_Fails \/ Open_Files
  \/ Copy_Data \/ Set_Attributes \/ Rename_Tmp
  \/ Check
  \/ Remove_File \/ Remove_Directory

Directories == {item.dir : item \in {it \in Items : it.op = "mkdir"}}

Next ==
  \/ Step
  \/ \E u \in Users :
       \/ \E d \in BOOLEAN : Start("installer", u, d) \/ Start("deinstaller", u, d)
       \/ Start("instchk", u, FALSE)
  \/ \E s \in Sources, v \in Version : Rebuild(s, v)
  \/ \E dir \in Directories : Add_Stranger(dir)
  \/ Kill

Destinations == {Dst(item) : item \in {it \in Items : it.op # "mkdir"}}
Installed == {Dst(item) : item \in {it \in Items : Is_File(it)}}
Temporaries == {Tmp(path) : path \in Installed}
Ancestors(item) == Prefixes(item.dir) \union {item.dir}

\* The table is one: a name stands for one thing.  If two items install a file of
\* the same name, then with the same contents, mode and owner, and if two make a
\* directory, then with the same owner.
ASSUME TableAssumption ==
  /\ Table \in Seq(Items) /\ Table # <<>>
  /\ \A item \in Items :
       /\ item.op \in Files \union {"mkdir", "symlink"}
       /\ item.dir \in Seq(STRING) /\ item.perm \subseteq Checked
  /\ \A a, b \in Items : Is_File(a) /\ b.op # "mkdir" /\ Dst(a) = Dst(b) =>
       Is_File(b) /\ a.src = b.src /\ a.perm = b.perm /\ a.owner = b.owner
  /\ \A a, b \in Items : a.op = "mkdir" /\ b.op = "mkdir" /\ a.dir = b.dir =>
       a.owner = b.owner
  /\ Destinations \intersect Temporaries = {}
  /\ \A item \in Items : item.op = "mkdir" =>
       /\ Ancestors(item) \intersect (Destinations \union Temporaries) = {}
       /\ Append(item.dir, Stranger) \notin Destinations \union Temporaries \union Directories

\* What is in a directory is listed after it, and links are in directories.
ASSUME OrderAssumption ==
  /\ \A j, k \in DOMAIN Table :
       Table[j].op = "mkdir" /\ IsStrictPrefix(Table[j].dir, Place(Table[k])) => j < k
  /\ \A item \in Items : item.op = "symlink" => item.dst \in Seq(STRING) \ {<<>>}

\* A link leads to a file of the table, of the mode and owner that it asks for:
\* instchk looks where it leads.
ASSUME LinksAssumption ==
  \A item \in Items : item.op = "symlink" =>
    \E it \in Items : /\ Is_File(it) /\ Dst(it) = Front(Dst(item)) \o item.src
                     /\ it.perm = item.perm /\ it.owner = item.owner

\* A tree is a function to nodes, each in a directory, with nothing under the
\* names of the table but directories where it wants them.
ASSUME TreesAssumption ==
  \A tree \in Trees :
    /\ tree = [p \in DOMAIN tree |->
                Node(tree[p].type, tree[p].src, tree[p].version, tree[p].mode, tree[p].owner)]
    /\ \A p \in DOMAIN tree :
         /\ p \in Seq(STRING) /\ (p # <<>> => Is_Dir(tree, Front(p)))
         /\ tree[p].type \in {"file", "dir", "link"} /\ tree[p].version \in Version
         /\ tree[p].mode \subseteq Bits /\ tree[p].owner \in Users
    /\ DOMAIN tree \intersect (Destinations \union Temporaries) = {}
    /\ \A dir \in Directories \intersect DOMAIN tree : Is_Dir(tree, dir)

\* The table makes the directories that it puts something into, for whoever runs
\* the installer, and nobody has anything but directories on the way to them.
ASSUME PlacesAssumption ==
  /\ \A item \in Items : item.op # "mkdir" => {item.dir, Front(Dst(item))} \subseteq Directories
  /\ \A item \in Items : item.op = "mkdir" =>
       /\ item.owner = "" /\ item.dir # <<>>
       /\ \A dir \in Directories : Append(dir, Stranger) \notin Ancestors(item)
       /\ \A tree \in Trees : \A p \in Ancestors(item) \intersect DOMAIN tree : Is_Dir(tree, p)
  /\ \A tree \in Trees : <<>> \in DOMAIN tree /\ Is_Dir(tree, <<>>)

ASSUME AccountsAssumption == Root \in Users /\ Checked \subseteq Bits /\ Creat \subseteq Bits

Spec == Init /\ [][Next]_vars

\* A program that runs goes on.
FairSpec == Spec /\ WF_vars(Step)

(***************************************************************************)
(* Properties.                                                             *)
(***************************************************************************)
\* Every node is in a directory, a program that runs has an item, and every
\* variable has its type.
TypeOK ==
  /\ \A p \in DOMAIN fs :
       /\ p # <<>> => Is_Dir(fs, Front(p))
       /\ fs[p].type \in {"file", "dir", "link"}
       /\ fs[p].version \in Version
       /\ fs[p].mode \subseteq Bits
       /\ fs[p].owner \in Users
  /\ built \in [Sources -> Version]
  /\ prog \in {"none", "installer", "deinstaller", "instchk"}
  /\ user \in Users /\ umask \in Umasks /\ dry \in BOOLEAN
  /\ pc \in {"idle", "item", "copy", "attributes", "rename"}
  /\ i \in DOMAIN Table
  /\ install_failed \in 0..Len(Table)
  /\ exit \in {0, 1, 112, Killed, Crashed}
  /\ errors \subseteq Items
  /\ faulted \in BOOLEAN

\* A program p has ended of itself, and nothing has changed since.
Ended(p) == prog = p /\ pc = "idle" /\ exit \in {0, 1}
All_May == \A p \in DOMAIN fs : May(fs[p])

\* Whatever is under the name of an installed file is a whole copy with its
\* final mode: at no instant, nor after a program has died at any instant, is
\* it partial or open to others (install_file_copy's temporary file).
FinalNamesAreWhole ==
  \A item \in Items : Is_File(item) /\ Dst(item) \in DOMAIN fs =>
    LET node == fs[Dst(item)]
    IN  /\ node.type = "file" /\ node.src = item.src /\ node.version # 0
        /\ node.mode = item.perm

\* What the installer leaves for an item.
In_Place(item) ==
  /\ Place(item) \in DOMAIN fs
  /\ LET node == fs[Place(item)]
     IN  CASE Is_File(item) ->
                node = Node("file", item.src, built[item.src], item.perm, Uid(item))
           [] item.op = "mkdir" -> node.type = "dir" /\ node.owner = Uid(item)
           [] item.op = "symlink" -> node.type = "link" /\ node.src = item.src

\* Items that the installer has not reported are in place when it ends, whatever
\* failed for other items and whatever earlier programs left: no later item
\* undoes an earlier one.
InstalledAsListed ==
  Ended("installer") /\ ~dry => \A item \in Items \ errors : In_Place(item)

\* To run the installer again repairs everything: if no call fails it does not
\* crash, and reports only users that are unknown or that one may not give files
\* to, sources that are not built and links that exist; no temporary file stays
\* beside an installed one.
RetrySucceeds ==
  prog = "installer" /\ pc = "idle" /\ ~dry /\ ~faulted /\ All_May /\ exit # Killed =>
    /\ exit = 0
    /\ \A item \in errors :
         \/ ~Known(item) \/ (user # Root /\ Uid(item) # user)
         \/ Is_File(item) /\ built[item.src] = 0
         \/ item.op = "symlink" /\ Dst(item) \in DOMAIN fs
    /\ \A item \in Items \ errors : Is_File(item) => Tmp(Dst(item)) \notin DOMAIN fs

\* instchk does not accept a tree where the file of an item is missing, has
\* another size than its source now has, another mode or owner.
CheckFindsDamage ==
  Ended("instchk") /\ exit = 0 =>
    \A item \in Items : Known(item) =>
      /\ Place(item) \in DOMAIN fs
      /\ Is_File(item) =>
           /\ Bytes[fs[Dst(item)].version] = Bytes[built[item.src]]
           /\ fs[Dst(item)].mode \cap Checked = item.perm
           /\ fs[Dst(item)].owner = Uid(item)

\* What the installer leaves satisfies instchk, except a directory whose mode
\* it did not set: one that existed, or was made under a strict mask.
InstalledItemsPass ==
  Ended("instchk") /\ ~faulted =>
    \A item \in errors :
      \/ ~Known(item)
      \/ ~In_Place(item)
      \/ item.op = "mkdir" /\ fs[item.dir].mode \cap Checked # item.perm
      \/ item.op = "symlink" /\ \E it \in Items \cap errors : Dst(it) = Follow(Dst(item))

\* The deinstaller leaves no file of the table, and of its directories only
\* those that hold something the table does not list: the items go in an order
\* that empties a directory before it is removed.
DeinstallLeavesOnlyForeign ==
  Ended("deinstaller") /\ ~dry /\ ~faulted /\ All_May =>
    /\ Destinations \intersect DOMAIN fs = {}
    /\ \A dir \in Directories \intersect DOMAIN fs :
         \E p \in Below(dir) : p \notin Directories

\* No program touches what the table does not name: other packages' files, and
\* the directories above those of the table.
ForeignSurvives ==
  [][\A p \in DOMAIN fs \ (Destinations \union Temporaries \union Directories) :
       p \in DOMAIN fs' /\ fs'[p] = fs[p]]_vars

\* Every program comes to its end.
RunsEnd == pc # "idle" ~> pc = "idle"
=============================================================================

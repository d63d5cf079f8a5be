--------------------------- MODULE InstallerProofs ---------------------------
(***************************************************************************)
(* Theorems about Installer, for every table, every tree to begin with,    *)
(* every user and every sequence of programs, failures, kills and changes  *)
(* from outside: what is under an installed name is whole, what the table  *)
(* does not name is left alone, every node stays in a directory, and when  *)
(* a program has come to its end the installer has put in place what it    *)
(* does not report, instchk accepts no damage and reports nothing else,    *)
(* the deinstaller leaves only what is not the table's, and the installer, *)
(* run again, has repaired what earlier programs left.                     *)
(***************************************************************************)
EXTENDS Installer, Induction

(***************************************************************************)
(* The inductive invariant.                                                *)
(***************************************************************************)
Is_Node(node) ==
  node = Node(node.type, node.src, node.version, node.mode, node.owner)

Whole(node, item) ==
  /\ node.type = "file" /\ node.src = item.src /\ node.version # 0
  /\ node.mode = item.perm

\* Nothing but a whole copy is under an installed name, nothing but a file
\* under a temporary one.
TreeOK(tree) ==
  /\ \A p \in DOMAIN tree : Is_Node(tree[p])
  /\ \A item \in Items : Is_File(item) /\ Dst(item) \in DOMAIN tree =>
       Whole(tree[Dst(item)], item)
  /\ \A t \in Temporaries \intersect DOMAIN tree : tree[t].type = "file"

\* A copy in progress is a file of the item's source, and has more of what it
\* needs from step to step.
CopyOK ==
  pc \in {"copy", "attributes", "rename"} =>
    /\ prog = "installer" /\ Is_File(Item)
    /\ tmp \in DOMAIN fs /\ fs[tmp].src = Item.src
    /\ built[Item.src] # 0
    /\ pc # "copy" => fs[tmp].version # 0
    /\ pc = "rename" => fs[tmp].mode = Item.perm

WholeInv ==
  /\ i \in DOMAIN Table
  /\ built \in [Sources -> Version]
  /\ TreeOK(fs)
  /\ CopyOK

(***************************************************************************)
(* What changes of the tree keep TreeOK.                                   *)
(***************************************************************************)
LEMMA NodeIsNode ==
  ASSUME NEW type, NEW src, NEW version, NEW mode, NEW owner
  PROVE  /\ Is_Node(Node(type, src, version, mode, owner))
         /\ Node(type, src, version, mode, owner).type = type
         /\ Node(type, src, version, mode, owner).src = src
         /\ Node(type, src, version, mode, owner).version = version
         /\ Node(type, src, version, mode, owner).mode = mode
  BY DEF Is_Node, Node

\* To remove something.
LEMMA WithoutOK ==
  ASSUME NEW tree, NEW paths, TreeOK(tree)
  PROVE  TreeOK(Without(tree, paths))
  BY DEF TreeOK, Without, Restrict

\* To enter a node under a name that no file of the table has.
LEMMA WithForeignOK ==
  ASSUME NEW tree, NEW path, NEW node, TreeOK(tree), Is_Node(node),
         path \notin Installed \union Temporaries
  PROVE  TreeOK(With(tree, path, node))
<1> DEFINE new == With(tree, path, node)
<1> SUFFICES TreeOK(new)
  OBVIOUS
<1>1. /\ DOMAIN new = DOMAIN tree \union {path}
      /\ \A p \in DOMAIN new : new[p] = IF p = path THEN node ELSE tree[p]
  BY DEF With
<1>2. \A item \in Items : Is_File(item) => Dst(item) \in Installed
  BY DEF Installed
<1> HIDE DEF new
<1> QED  BY <1>1, <1>2 DEF TreeOK

\* To change or make a temporary file.
LEMMA TemporaryOK ==
  ASSUME NEW tree, NEW new, NEW path \in Temporaries, TreeOK(tree),
         DOMAIN new = DOMAIN tree \union {path},
         \A p \in DOMAIN tree : p # path => new[p] = tree[p],
         Is_Node(new[path]), new[path].type = "file"
  PROVE  TreeOK(new)
<1>1. \A item \in Items : Is_File(item) => Dst(item) \in Destinations
  BY DEF Destinations, Is_File, Files
<1>2. \A item \in Items : Is_File(item) => Dst(item) # path
  BY <1>1, TableAssumption DEF TableAssumption
<1> QED  BY <1>2 DEF TreeOK

\* To put a whole copy in its place.
LEMMA InstalledOK ==
  ASSUME NEW tree, NEW node, NEW item \in Items, TreeOK(tree), Is_Node(node),
         Is_File(item), Whole(node, item)
  PROVE  TreeOK(With(tree, Dst(item), node))
<1> DEFINE new == With(tree, Dst(item), node)
<1> SUFFICES TreeOK(new)
  OBVIOUS
<1>1. /\ DOMAIN new = DOMAIN tree \union {Dst(item)}
      /\ \A p \in DOMAIN new : new[p] = IF p = Dst(item) THEN node ELSE tree[p]
  BY DEF With
<1>2. \A it \in Items : Is_File(it) /\ Dst(it) = Dst(item) =>
        it.src = item.src /\ it.perm = item.perm
  BY TableAssumption DEF TableAssumption, Is_File, Files
<1>3. \A it \in Items : Is_File(it) /\ Dst(it) = Dst(item) => Whole(node, it)
  BY <1>2 DEF Whole
<1>4. node.type = "file"
  BY DEF Whole
<1> HIDE DEF new
<1> QED  BY <1>1, <1>3, <1>4 DEF TreeOK

(***************************************************************************)
(* The table and where a program is in it.                                 *)
(***************************************************************************)
LEMMA ItemInTable ==
  ASSUME i \in DOMAIN Table
  PROVE  Item \in Items
<1>1. Table \in Seq(Items)
  BY TableAssumption DEF TableAssumption
<1>2. Len(Table) \in Nat /\ DOMAIN Table = 1..Len(Table)
  BY <1>1
<1>3. Position(prog, i) \in DOMAIN Table
  BY <1>2 DEF Position
<1> QED  BY <1>3 DEF Item, Items

LEMMA InstalledNames == Installed \subseteq Destinations
  BY DEF Installed, Destinations, Is_File, Files

LEMMA FileNames ==
  ASSUME NEW item \in Items, Is_File(item)
  PROVE  /\ Dst(item) \in Installed \intersect Destinations
         /\ Tmp(Dst(item)) \in Temporaries
         /\ Tmp(Dst(item)) # Dst(item)
         /\ item.src \in Sources
<1>1. Dst(item) \in Installed \intersect Destinations
  BY DEF Installed, Destinations, Is_File, Files
<1>2. Tmp(Dst(item)) \in Temporaries
  BY <1>1 DEF Temporaries
<1>3. Tmp(Dst(item)) # Dst(item)
  BY <1>1, <1>2, TableAssumption DEF TableAssumption
<1>4. item.src \in Sources
  BY DEF Sources
<1> QED  BY <1>1, <1>2, <1>3, <1>4

\* A link is under no name of a file.
LEMMA LinkNames ==
  ASSUME NEW item \in Items, item.op = "symlink"
  PROVE  /\ Dst(item) \in Destinations
         /\ Dst(item) \notin Installed \union Temporaries
<1>1. Dst(item) \in Destinations
  BY DEF Destinations
<1>2. Dst(item) \notin Temporaries
  BY <1>1, TableAssumption DEF TableAssumption
<1>3. Dst(item) \notin Installed
  BY TableAssumption DEF TableAssumption, Installed, Is_File, Files
<1> QED  BY <1>1, <1>2, <1>3

\* After an item comes another one or the end.
LEMMA EndsInTable ==
  ASSUME i \in DOMAIN Table, NEW status, NEW count, Ends(status, count)
  PROVE  /\ i' \in DOMAIN Table
         /\ pc' \in {"idle", "item"}
<1>1. Len(Table) \in Nat /\ Len(Table) # 0 /\ DOMAIN Table = 1..Len(Table)
  BY TableAssumption DEF TableAssumption
<1>2. CASE status = "fatal" \/ i = Len(Table)
  BY <1>1, <1>2 DEF Ends, Exits
<1>3. CASE ~(status = "fatal" \/ i = Len(Table))
  BY <1>1, <1>3 DEF Ends
<1> QED  BY <1>2, <1>3

LEMMA ExitsInTable ==
  ASSUME NEW status, Exits(status)
  PROVE  i' \in DOMAIN Table /\ pc' = "idle"
<1>1. Len(Table) \in Nat /\ Len(Table) # 0 /\ DOMAIN Table = 1..Len(Table)
  BY TableAssumption DEF TableAssumption
<1> QED  BY <1>1 DEF Exits

(***************************************************************************)
(* The operations on the tree.                                             *)
(***************************************************************************)
LEMMA RmkdirOK ==
  ASSUME TreeOK(fs), NEW item \in Items, item.op = "mkdir", NEW n, NEW perm
  PROVE  TreeOK(Rmkdir(item.dir, n, perm))
<1> DEFINE tree == Rmkdir(item.dir, n, perm)
           made == {p \in Prefixes(item.dir) : p \notin DOMAIN fs /\ Len(p) <= n}
           node == Node("dir", <<>>, 0, perm \ umask, user)
           grown == [p \in DOMAIN fs \union made |-> IF p \in made THEN node ELSE fs[p]]
<1>1. tree = fs \/ tree = grown
  <2>1. made = {p \in {q \in Prefixes(item.dir) : q \notin DOMAIN fs} : Len(p) <= n}
    OBVIOUS
  <2> QED  BY <2>1 DEF Rmkdir
<1>2. CASE tree = fs
  BY <1>2
<1>3. CASE tree = grown
  <2>1. made \intersect (Installed \union Temporaries) = {}
    BY TableAssumption, InstalledNames DEF TableAssumption, Ancestors
  <2>2. Is_Node(node)
    BY NodeIsNode
  <2>3. /\ DOMAIN tree = DOMAIN fs \union made
        /\ \A p \in DOMAIN tree : tree[p] = IF p \in made THEN node ELSE fs[p]
    BY <1>3
  <2>4. \A it \in Items : Is_File(it) => Dst(it) \in Installed
    BY DEF Installed
  <2> SUFFICES TreeOK(tree)
    OBVIOUS
  <2> HIDE DEF tree, made, node
  <2> QED  BY <2>1, <2>2, <2>3, <2>4 DEF TreeOK
<1> QED  BY <1>1, <1>2, <1>3

\* A change of owner.
LEMMA OwnerOK ==
  ASSUME NEW tree, TreeOK(tree), NEW path, NEW owner, path \notin Installed \union Temporaries
  PROVE  TreeOK([tree EXCEPT ![path].owner = owner])
<1> DEFINE new == [tree EXCEPT ![path].owner = owner]
<1> SUFFICES TreeOK(new)
  OBVIOUS
<1>1. DOMAIN new = DOMAIN tree /\ \A p \in DOMAIN tree : p # path => new[p] = tree[p]
  OBVIOUS
<1>2. ASSUME path \in DOMAIN tree PROVE Is_Node(new[path])
  <2>1. new[path] = [tree[path] EXCEPT !.owner = owner]
    BY <1>2
  <2>2. tree[path] = Node(tree[path].type, tree[path].src, tree[path].version,
                          tree[path].mode, tree[path].owner)
    BY <1>2 DEF TreeOK, Is_Node
  <2> QED  BY <2>1, <2>2 DEF Is_Node, Node
<1>3. \A it \in Items : Is_File(it) => Dst(it) \in Installed
  BY DEF Installed
<1> HIDE DEF new
<1> QED  BY <1>1, <1>2, <1>3 DEF TreeOK

(***************************************************************************)
(* Every step keeps WholeInv.                                              *)
(***************************************************************************)

\* Between two items nothing is asked of a copy.
LEMMA BetweenItems ==
  ASSUME TreeOK(fs'), built' \in [Sources -> Version], i' \in DOMAIN Table,
         pc' \in {"idle", "item"}
  PROVE  WholeInv'
  BY DEF WholeInv, CopyOK

LEMMA CopyErrorOK ==
  ASSUME WholeInv, UNCHANGED built, Copy_Error
  PROVE  WholeInv'
<1>1. i' \in DOMAIN Table /\ pc' \in {"idle", "item"}
  BY EndsInTable DEF Copy_Error, WholeInv
<1>2. TreeOK(fs')
  <2>1. fs' = Without(fs, {tmp}) \/ fs' = fs
    BY DEF Copy_Error
  <2> QED  BY <2>1, WithoutOK DEF WholeInv
<1> QED  BY <1>1, <1>2, BetweenItems DEF WholeInv

LEMMA CopyErrorUndefinedOK ==
  ASSUME WholeInv, UNCHANGED built, Copy_Error_Undefined
  PROVE  WholeInv'
<1>1. CASE Copy_Error
  BY <1>1, CopyErrorOK
<1>2. CASE Dies(Crashed) /\ UNCHANGED fs
  <2>1. i' \in DOMAIN Table /\ pc' = "idle"
    BY <1>2, ExitsInTable DEF Dies
  <2> QED  BY <1>2, <2>1, BetweenItems DEF WholeInv
<1> QED  BY <1>1, <1>2 DEF Copy_Error_Undefined

\* A step of a copy that goes on to the next, with its file in hand.
LEMMA NextOfCopy ==
  ASSUME WholeInv, NEW label, Copying(label), NEW next, Goes_To(next),
         TreeOK(fs'), built[Item.src] # 0,
         tmp \in DOMAIN fs', fs'[tmp].src = Item.src,
         next # "copy" => fs'[tmp].version # 0,
         next = "rename" => fs'[tmp].mode = Item.perm
  PROVE  WholeInv'
<1>1. UNCHANGED <<prog, i, built>> /\ pc' = next /\ prog = "installer" /\ Is_File(Item)
  BY DEF Copying, Goes_To, of_run
<1>2. Item' = Item
  BY <1>1 DEF Item, Position
<1>3. tmp' = tmp
  BY <1>2 DEF tmp
<1>4. CopyOK'
  BY <1>1, <1>2, <1>3 DEF CopyOK
<1> QED  BY <1>1, <1>4 DEF WholeInv

LEMMA OpenFilesOK ==
  ASSUME WholeInv, Open_Files
  PROVE  WholeInv'
<1> DEFINE node == Node("file", Item.src, 0, Creat \ umask, user)
<1>1. Item \in Items /\ Is_File(Item) /\ tmp \in Temporaries
  BY ItemInTable, FileNames DEF WholeInv, Open_Files, Copying, tmp
<1>2. /\ DOMAIN fs' = DOMAIN fs \union {tmp}
      /\ \A p \in DOMAIN fs : p # tmp => fs'[p] = fs[p]
      /\ Is_Node(fs'[tmp]) /\ fs'[tmp].type = "file" /\ fs'[tmp].src = Item.src
  <2>1. CASE tmp \in DOMAIN fs
    <3>1. fs' = [fs EXCEPT ![tmp].src = Item.src, ![tmp].version = 0]
      BY <2>1 DEF Open_Files
    <3>2. fs[tmp].type = "file"
      BY <1>1, <2>1 DEF WholeInv, TreeOK
    <3>3. fs[tmp] = Node(fs[tmp].type, fs[tmp].src, fs[tmp].version, fs[tmp].mode, fs[tmp].owner)
      BY <2>1 DEF WholeInv, TreeOK, Is_Node
    <3>4. fs'[tmp] = [[fs[tmp] EXCEPT !.src = Item.src] EXCEPT !.version = 0]
      BY <2>1, <3>1
    <3>5. Is_Node(fs'[tmp]) /\ fs'[tmp].type = "file" /\ fs'[tmp].src = Item.src
      BY <3>2, <3>3, <3>4 DEF Is_Node, Node
    <3> QED  BY <2>1, <3>1, <3>5
  <2>2. CASE tmp \notin DOMAIN fs
    <3>1. fs' = With(fs, tmp, node)
      BY <2>2 DEF Open_Files
    <3>2. fs'[tmp] = node
      BY <3>1 DEF With
    <3>3. Is_Node(node) /\ node.type = "file" /\ node.src = Item.src
      BY NodeIsNode
    <3> HIDE DEF node
    <3> QED  BY <3>1, <3>2, <3>3 DEF With
  <2> QED  BY <2>1, <2>2
<1>3. TreeOK(fs')
  BY <1>1, <1>2, TemporaryOK DEF WholeInv
<1>4. Copying("item") /\ Goes_To("copy") /\ built[Item.src] # 0
  BY DEF Open_Files
<1> QED  BY <1>2, <1>3, <1>4, NextOfCopy

LEMMA CopyDataOK ==
  ASSUME WholeInv, Copy_Data
  PROVE  WholeInv'
<1> USE DEF Copy_Data
<1>1. Copying("copy") /\ UNCHANGED built
  BY DEF Copying
<1>2. CASE /\ fs' = [fs EXCEPT ![tmp].version = built[Item.src]]
           /\ Goes_To("attributes")
  <2>1. Item \in Items /\ Is_File(Item) /\ tmp \in Temporaries
    BY <1>1, ItemInTable, FileNames DEF WholeInv, Copying, tmp
  <2>2. tmp \in DOMAIN fs /\ fs[tmp].src = Item.src /\ built[Item.src] # 0
    BY <1>1 DEF WholeInv, CopyOK, Copying
  <2>3. fs[tmp].type = "file"
    BY <2>1, <2>2 DEF WholeInv, TreeOK
  <2>4. fs[tmp] = Node(fs[tmp].type, fs[tmp].src, fs[tmp].version, fs[tmp].mode, fs[tmp].owner)
    BY <2>2 DEF WholeInv, TreeOK, Is_Node
  <2>5. fs'[tmp] = [fs[tmp] EXCEPT !.version = built[Item.src]]
    BY <1>2, <2>2
  <2>6. /\ Is_Node(fs'[tmp]) /\ fs'[tmp].type = "file" /\ fs'[tmp].src = Item.src
        /\ fs'[tmp].version # 0
    BY <2>2, <2>3, <2>4, <2>5 DEF Is_Node, Node
  <2>7. DOMAIN fs' = DOMAIN fs \union {tmp} /\ \A p \in DOMAIN fs : p # tmp => fs'[p] = fs[p]
    BY <1>2, <2>2
  <2>8. TreeOK(fs')
    BY <2>1, <2>6, <2>7, TemporaryOK DEF WholeInv
  <2> QED  BY <1>1, <1>2, <2>2, <2>6, <2>7, <2>8, NextOfCopy
<1>3. CASE Copy_Error
  BY <1>1, <1>3, CopyErrorOK
<1> QED  BY <1>2, <1>3

LEMMA SetAttributesOK ==
  ASSUME WholeInv, Set_Attributes
  PROVE  WholeInv'
<1> USE DEF Set_Attributes
<1>1. Copying("attributes") /\ UNCHANGED built
  BY DEF Copying
<1>2. CASE /\ fs' = [fs EXCEPT ![tmp].mode = Item.perm, ![tmp].owner = Uid(Item)]
           /\ Goes_To("rename")
  <2>1. Item \in Items /\ Is_File(Item) /\ tmp \in Temporaries
    BY <1>1, ItemInTable, FileNames DEF WholeInv, Copying, tmp
  <2>2. /\ tmp \in DOMAIN fs /\ fs[tmp].src = Item.src /\ built[Item.src] # 0
        /\ fs[tmp].version # 0
    BY <1>1 DEF WholeInv, CopyOK, Copying
  <2>3. fs[tmp].type = "file"
    BY <2>1, <2>2 DEF WholeInv, TreeOK
  <2>4. fs[tmp] = Node(fs[tmp].type, fs[tmp].src, fs[tmp].version, fs[tmp].mode, fs[tmp].owner)
    BY <2>2 DEF WholeInv, TreeOK, Is_Node
  <2>5. fs'[tmp] = [[fs[tmp] EXCEPT !.mode = Item.perm] EXCEPT !.owner = Uid(Item)]
    BY <1>2, <2>2
  <2>6. /\ Is_Node(fs'[tmp]) /\ fs'[tmp].type = "file" /\ fs'[tmp].src = Item.src
        /\ fs'[tmp].version # 0 /\ fs'[tmp].mode = Item.perm
    BY <2>2, <2>3, <2>4, <2>5 DEF Is_Node, Node
  <2>7. DOMAIN fs' = DOMAIN fs \union {tmp} /\ \A p \in DOMAIN fs : p # tmp => fs'[p] = fs[p]
    BY <1>2, <2>2
  <2>8. TreeOK(fs')
    BY <2>1, <2>6, <2>7, TemporaryOK DEF WholeInv
  <2> QED  BY <1>1, <1>2, <2>2, <2>6, <2>7, <2>8, NextOfCopy
<1>3. CASE Copy_Error
  BY <1>1, <1>3, CopyErrorOK
<1> QED  BY <1>2, <1>3

\* The temporary file is whole when it is renamed.
LEMMA RenameTmpOK ==
  ASSUME WholeInv, Rename_Tmp
  PROVE  WholeInv'
<1>1. Copying("rename") /\ UNCHANGED built
  BY DEF Rename_Tmp, Copying
<1>2. CASE fs' = With(Without(fs, {tmp}), Dst(Item), fs[tmp]) /\ Ends("ok", 0)
  <2>1. Item \in Items /\ Is_File(Item) /\ tmp \in Temporaries
    BY <1>1, ItemInTable, FileNames DEF WholeInv, Copying, tmp
  <2>2. tmp \in DOMAIN fs /\ Whole(fs[tmp], Item) /\ Is_Node(fs[tmp])
    BY <1>1, <2>1 DEF WholeInv, CopyOK, Copying, TreeOK, Whole
  <2>3. TreeOK(Without(fs, {tmp}))
    BY WithoutOK DEF WholeInv
  <2>4. TreeOK(fs')
    BY <1>2, <2>1, <2>2, <2>3, InstalledOK
  <2>5. i' \in DOMAIN Table /\ pc' \in {"idle", "item"}
    BY <1>2, EndsInTable DEF WholeInv
  <2> QED  BY <1>1, <2>4, <2>5, BetweenItems DEF WholeInv
<1>3. CASE Copy_Error_Undefined
  BY <1>1, <1>3, CopyErrorUndefinedOK
<1> QED  BY <1>2, <1>3 DEF Rename_Tmp

LEMMA MkdirOK ==
  ASSUME WholeInv, Mkdir
  PROVE  WholeInv'
<1>1. PICK n \in 0..Len(Item.dir), broken \in BOOLEAN :
        LET tree == Rmkdir(Item.dir, n, Item.perm)
            owned == /\ ~broken
                     /\ Item.dir \in DOMAIN tree
                     /\ May_Chown(tree[Item.dir], Uid(Item))
        IN  /\ fs' = IF owned THEN [tree EXCEPT ![Item.dir].owner = Uid(Item)] ELSE tree
            /\ Ends(IF owned THEN "ok" ELSE "error", 0)
  BY DEF Mkdir
<1> DEFINE tree == Rmkdir(Item.dir, n, Item.perm)
<1>2. Item \in Items /\ Item.op = "mkdir"
  BY ItemInTable DEF WholeInv, Mkdir, At
<1>3. TreeOK(tree)
  BY <1>2, RmkdirOK DEF WholeInv
<1>4. Item.dir \notin Installed \union Temporaries
  BY <1>2, TableAssumption, InstalledNames DEF TableAssumption, Ancestors
<1>5. TreeOK([tree EXCEPT ![Item.dir].owner = Uid(Item)])
  BY <1>3, <1>4, OwnerOK
<1> HIDE DEF tree
<1>6. TreeOK(fs')
  BY <1>1, <1>3, <1>5 DEF tree
<1>7. i' \in DOMAIN Table /\ pc' \in {"idle", "item"}
  BY <1>1, EndsInTable DEF WholeInv
<1> QED  BY <1>6, <1>7, BetweenItems DEF WholeInv, Mkdir

LEMMA LinkOK ==
  ASSUME WholeInv, Link
  PROVE  WholeInv'
<1>1. Item \in Items /\ Item.op = "symlink"
  BY ItemInTable DEF WholeInv, Link, At
<1> DEFINE node == Node("link", Item.src, 0, Bits, user)
<1>2. PICK status : Ends(status, 0)
  BY DEF Link
<1>3. fs' = fs \/ fs' = With(fs, Dst(Item), node)
  BY DEF Link
<1>4. TreeOK(With(fs, Dst(Item), node))
  BY <1>1, LinkNames, NodeIsNode, WithForeignOK DEF WholeInv
<1>5. i' \in DOMAIN Table /\ pc' \in {"idle", "item"}
  BY <1>2, EndsInTable DEF WholeInv
<1> QED  BY <1>3, <1>4, <1>5, BetweenItems DEF WholeInv, Link

LEMMA RemoveFileOK ==
  ASSUME WholeInv, Remove_File
  PROVE  WholeInv'
<1>1. PICK status : Ends(status, 0)
  BY DEF Remove_File
<1>2. fs' = fs \/ fs' = Without(fs, {Dst(Item)})
  BY DEF Remove_File
<1>3. i' \in DOMAIN Table /\ pc' \in {"idle", "item"}
  BY <1>1, EndsInTable DEF WholeInv
<1> QED  BY <1>2, <1>3, WithoutOK, BetweenItems DEF WholeInv, Remove_File

LEMMA RemoveDirectoryOK ==
  ASSUME WholeInv, Remove_Directory
  PROVE  WholeInv'
<1>1. PICK status : Ends(status, 0)
  BY DEF Remove_Directory
<1>2. fs' = fs \/ fs' = Without(fs, {Item.dir})
  BY DEF Remove_Directory
<1>3. i' \in DOMAIN Table /\ pc' \in {"idle", "item"}
  BY <1>1, EndsInTable DEF WholeInv
<1> QED  BY <1>2, <1>3, WithoutOK, BetweenItems DEF WholeInv, Remove_Directory

\* Steps that leave the tree alone.
LEMMA QuietOK ==
  ASSUME WholeInv,
         \/ Lookup_Fails \/ Dry_Run \/ Check \/ Open_Source_Fails \/ Kill
         \/ \E p, u, d : Start(p, u, d)
  PROVE  WholeInv'
<1>1. UNCHANGED <<fs, built>>
  BY DEF Lookup_Fails, Dry_Run, Check, Open_Source_Fails, Kill, Start, Copying
<1>2. (\E status, count : Ends(status, count)) \/ (\E status : Exits(status))
      \/ (i' = i /\ pc' = "item")
  BY DEF Lookup_Fails, Dry_Run, Check, Open_Source_Fails, Kill, Start, Dies
<1>3. i' \in DOMAIN Table /\ pc' \in {"idle", "item"}
  BY <1>2, EndsInTable, ExitsInTable DEF WholeInv
<1> QED  BY <1>1, <1>3, BetweenItems DEF WholeInv

LEMMA OthersOK ==
  ASSUME WholeInv,
         \/ \E src \in Sources, v \in Version : Rebuild(src, v)
         \/ \E dir \in Directories : Add_Stranger(dir)
  PROVE  WholeInv'
<1>1. Others_Change
  BY DEF Rebuild, Add_Stranger
<1>2. i' \in DOMAIN Table /\ pc' \in {"idle", "item"}
  BY <1>1 DEF Others_Change, WholeInv
<1>3. CASE \E src \in Sources, v \in Version : Rebuild(src, v)
  <2>1. UNCHANGED fs /\ built' \in [Sources -> Version]
    BY <1>3 DEF Rebuild, WholeInv
  <2> QED  BY <1>2, <2>1, BetweenItems DEF WholeInv
<1>4. CASE \E dir \in Directories : Add_Stranger(dir)
  <2>1. PICK dir \in Directories : Add_Stranger(dir)
    BY <1>4
  <2> DEFINE path == Append(dir, Stranger)
             node == Node("file", <<>>, 1, Creat, Root)
  <2>2. path \notin Installed \union Temporaries
    BY TableAssumption, InstalledNames DEF TableAssumption, Directories
  <2>3. TreeOK(With(fs, path, node))
    BY <2>2, NodeIsNode, WithForeignOK DEF WholeInv
  <2>4. fs' = With(fs, path, node) /\ UNCHANGED built
    BY <2>1 DEF Add_Stranger
  <2> QED  BY <1>2, <2>3, <2>4, BetweenItems DEF WholeInv
<1> QED  BY <1>3, <1>4

LEMMA WholeInit == Init => WholeInv
<1> SUFFICES ASSUME Init PROVE WholeInv
  OBVIOUS
<1>1. 1 \in DOMAIN Table
  BY TableAssumption DEF TableAssumption
<1>2. built \in [Sources -> Version]
  BY VersionAssumption DEF VersionAssumption, Init
<1>3. TreeOK(fs)
  <2>1. /\ \A p \in DOMAIN fs : Is_Node(fs[p])
        /\ DOMAIN fs \intersect (Installed \union Temporaries) = {}
    BY TreesAssumption, InstalledNames DEF TreesAssumption, Init, Is_Node
  <2> QED  BY <2>1 DEF TreeOK, Installed
<1> QED  BY <1>1, <1>2, <1>3 DEF WholeInv, CopyOK, Init

LEMMA WholeStep == WholeInv /\ [Next]_vars => WholeInv'
<1> SUFFICES ASSUME WholeInv, [Next]_vars PROVE WholeInv'
  OBVIOUS
<1>1. CASE UNCHANGED vars
  BY <1>1 DEF vars, WholeInv, CopyOK, TreeOK, tmp, Item, Position
<1>2. CASE Step
  <2>1. CASE Lookup_Fails \/ Dry_Run \/ Check \/ Open_Source_Fails
    BY <2>1, QuietOK
  <2>2. CASE Mkdir
    BY <2>2, MkdirOK
  <2>3. CASE Link
    BY <2>3, LinkOK
  <2>4. CASE Open_Destination_Fails
    BY <2>4, CopyErrorUndefinedOK DEF Open_Destination_Fails, Copying
  <2>5. CASE Open_Files
    BY <2>5, OpenFilesOK
  <2>6. CASE Copy_Data
    BY <2>6, CopyDataOK
  <2>7. CASE Set_Attributes
    BY <2>7, SetAttributesOK
  <2>8. CASE Rename_Tmp
    BY <2>8, RenameTmpOK
  <2>9. CASE Remove_File \/ Remove_Directory
    BY <2>9, RemoveFileOK, RemoveDirectoryOK
  <2> QED  BY <1>2, <2>1, <2>2, <2>3, <2>4, <2>5, <2>6, <2>7, <2>8, <2>9 DEF Step
<1>3. CASE Kill \/ \E p, u, d : Start(p, u, d)
  BY <1>3, QuietOK
<1>4. CASE \/ \E src \in Sources, v \in Version : Rebuild(src, v)
           \/ \E dir \in Directories : Add_Stranger(dir)
  BY <1>4, OthersOK
<1> QED  BY <1>1, <1>2, <1>3, <1>4 DEF Next

LEMMA WholeAlways == Spec => []WholeInv
  BY WholeInit, WholeStep, PTL DEF Spec

\* At no instant, and after a death at any instant, is a partial copy, or one
\* of another mode than the table's, under the name of an installed file:
\* install_file_copy writes a temporary file and renames it.
THEOREM WholeFiles == Spec => []FinalNamesAreWhole
<1>1. WholeInv => FinalNamesAreWhole
  BY DEF WholeInv, TreeOK, Whole, FinalNamesAreWhole
<1> QED  BY <1>1, WholeAlways, PTL

(***************************************************************************)
(* What the table does not name.                                           *)
(***************************************************************************)
Foreign(p) == p \notin Destinations \union Temporaries \union Directories

\* To remove or change a name of the table leaves the others.
LEMMA ForeignWithout ==
  ASSUME NEW path, ~Foreign(path), fs' = Without(fs, {path})
  PROVE  \A p \in DOMAIN fs : Foreign(p) => p \in DOMAIN fs' /\ fs'[p] = fs[p]
  BY DEF Without, Restrict

LEMMA ForeignCopyError ==
  ASSUME Item \in Items, Is_File(Item), Copy_Error \/ Copy_Error_Undefined
  PROVE  \A p \in DOMAIN fs : Foreign(p) => p \in DOMAIN fs' /\ fs'[p] = fs[p]
<1>1. ~Foreign(tmp)
  BY FileNames DEF Foreign, tmp
<1>2. fs' = Without(fs, {tmp}) \/ fs' = fs
  BY DEF Copy_Error, Copy_Error_Undefined
<1> QED  BY <1>1, <1>2, ForeignWithout

LEMMA ForeignCopy ==
  ASSUME WholeInv, Open_Destination_Fails \/ Open_Files \/ Copy_Data \/ Set_Attributes \/ Rename_Tmp
  PROVE  \A p \in DOMAIN fs : Foreign(p) => p \in DOMAIN fs' /\ fs'[p] = fs[p]
<1>1. Item \in Items /\ Is_File(Item)
  BY ItemInTable
     DEF WholeInv, Open_Destination_Fails, Open_Files, Copy_Data, Set_Attributes, Rename_Tmp, Copying
<1>2. ~Foreign(tmp) /\ ~Foreign(Dst(Item))
  BY <1>1, FileNames DEF Foreign, tmp
<1>3. CASE Copy_Error \/ Copy_Error_Undefined
  BY <1>1, <1>3, ForeignCopyError
<1>4. CASE Open_Files
  <2>1. \/ fs' = [fs EXCEPT ![tmp].src = Item.src, ![tmp].version = 0]
        \/ fs' = With(fs, tmp, Node("file", Item.src, 0, Creat \ umask, user))
    BY <1>4 DEF Open_Files
  <2> QED  BY <1>2, <2>1 DEF With
<1>5. CASE fs' = [fs EXCEPT ![tmp].version = built[Item.src]]
  BY <1>2, <1>5
<1>6. CASE fs' = [fs EXCEPT ![tmp].mode = Item.perm, ![tmp].owner = Uid(Item)]
  BY <1>2, <1>6
<1>7. CASE fs' = With(Without(fs, {tmp}), Dst(Item), fs[tmp])
  BY <1>2, <1>7 DEF With, Without, Restrict
<1> QED
  BY <1>3, <1>4, <1>5, <1>6, <1>7 DEF Open_Destination_Fails, Copy_Data, Set_Attributes, Rename_Tmp

LEMMA ForeignMkdir ==
  ASSUME WholeInv, Mkdir
  PROVE  \A p \in DOMAIN fs : Foreign(p) => p \in DOMAIN fs' /\ fs'[p] = fs[p]
<1>1. PICK n : LET tree == Rmkdir(Item.dir, n, Item.perm)
               IN  fs' = tree \/ fs' = [tree EXCEPT ![Item.dir].owner = Uid(Item)]
  BY DEF Mkdir
<1> DEFINE tree == Rmkdir(Item.dir, n, Item.perm)
<1>2. Item \in Items /\ Item.op = "mkdir"
  BY ItemInTable DEF WholeInv, Mkdir, At
<1>3. DOMAIN fs \subseteq DOMAIN tree /\ \A p \in DOMAIN fs : tree[p] = fs[p]
  BY DEF Rmkdir
<1>4. ~Foreign(Item.dir)
  BY <1>2 DEF Foreign, Directories
<1>5. fs' = tree \/ fs' = [tree EXCEPT ![Item.dir].owner = Uid(Item)]
  BY <1>1
<1> HIDE DEF tree
<1> QED  BY <1>3, <1>4, <1>5

LEMMA ForeignLink ==
  ASSUME WholeInv, Link
  PROVE  \A p \in DOMAIN fs : Foreign(p) => p \in DOMAIN fs' /\ fs'[p] = fs[p]
<1>1. Item \in Items /\ Item.op = "symlink"
  BY ItemInTable DEF WholeInv, Link, At
<1>2. fs' = fs \/ fs' = With(fs, Dst(Item), Node("link", Item.src, 0, Bits, user))
  BY DEF Link
<1>3. ~Foreign(Dst(Item))
  BY <1>1, LinkNames DEF Foreign
<1> QED  BY <1>2, <1>3 DEF With

LEMMA ForeignRemove ==
  ASSUME WholeInv, Remove_File \/ Remove_Directory
  PROVE  \A p \in DOMAIN fs : Foreign(p) => p \in DOMAIN fs' /\ fs'[p] = fs[p]
<1>1. Item \in Items
  BY ItemInTable DEF WholeInv
<1>2. CASE Remove_File
  <2>1. ~Foreign(Dst(Item))
    BY <1>1, <1>2, FileNames, LinkNames DEF Foreign, Remove_File, At, Is_File
  <2>2. fs' = fs \/ fs' = Without(fs, {Dst(Item)})
    BY <1>2 DEF Remove_File
  <2> QED  BY <2>1, <2>2, ForeignWithout
<1>3. CASE Remove_Directory
  <2>1. ~Foreign(Item.dir)
    BY <1>1, <1>3 DEF Foreign, Directories, Remove_Directory, At
  <2>2. fs' = fs \/ fs' = Without(fs, {Item.dir})
    BY <1>3 DEF Remove_Directory
  <2> QED  BY <2>1, <2>2, ForeignWithout
<1> QED  BY <1>2, <1>3

LEMMA ForeignStep ==
  ASSUME WholeInv, [Next]_vars
  PROVE  \A p \in DOMAIN fs : Foreign(p) => p \in DOMAIN fs' /\ fs'[p] = fs[p]
<1>1. CASE Step
  <2>1. CASE Lookup_Fails \/ Dry_Run \/ Check \/ Open_Source_Fails
    BY <2>1 DEF Lookup_Fails, Dry_Run, Check, Open_Source_Fails
  <2>2. CASE \/ Open_Destination_Fails \/ Open_Files \/ Copy_Data
             \/ Set_Attributes \/ Rename_Tmp
    BY <2>2, ForeignCopy
  <2>3. CASE Mkdir \/ Link \/ Remove_File \/ Remove_Directory
    BY <2>3, ForeignMkdir, ForeignLink, ForeignRemove
  <2> QED  BY <1>1, <2>1, <2>2, <2>3 DEF Step
<1>2. CASE \/ Kill \/ \E p, u, d : Start(p, u, d)
           \/ \E src \in Sources, v \in Version : Rebuild(src, v)
           \/ UNCHANGED vars
  BY <1>2 DEF Kill, Start, Rebuild, vars
<1>3. CASE \E dir \in Directories : Add_Stranger(dir)
  BY <1>3 DEF Add_Stranger, With
<1> QED  BY <1>1, <1>2, <1>3 DEF Next

\* Installing, checking and deinstalling, however they fail, leave alone every
\* file that is not in the table, the directories above the table's included.
THEOREM ForeignFiles == Spec => ForeignSurvives
<1>1. WholeInv /\ [Next]_vars =>
        [\A p \in DOMAIN fs \ (Destinations \union Temporaries \union Directories) :
           p \in DOMAIN fs' /\ fs'[p] = fs[p]]_vars
  BY ForeignStep DEF Foreign
<1> QED  BY <1>1, WholeAlways, PTL DEF Spec, ForeignSurvives

(***************************************************************************)
(* The loop of a program.                                                  *)
(***************************************************************************)
LoopOK ==
  /\ prog \in {"none", "installer", "deinstaller", "instchk"}
  /\ user \in Users /\ umask \in Umasks /\ dry \in BOOLEAN
  /\ pc \in {"idle", "item", "copy", "attributes", "rename"}
  /\ i \in DOMAIN Table /\ (pc = "idle" => i = 1)
  /\ install_failed \in 0..(i - 1)
  /\ exit \in {0, 1, 112, Killed, Crashed}
  /\ errors \subseteq Items
  /\ faulted \in BOOLEAN

LEMMA TableIs == Len(Table) \in Nat \ {0} /\ DOMAIN Table = 1..Len(Table)
  BY TableAssumption DEF TableAssumption

LEMMA LoopEnds ==
  ASSUME LoopOK, UNCHANGED <<prog, user, umask, dry>>, faulted' \in BOOLEAN,
         NEW status, NEW count \in {0, 1}, Ends(status, count)
  PROVE  LoopOK'
<1>1. Item \in Items
  BY ItemInTable DEF LoopOK
<1>2. errors' \subseteq Items
  BY <1>1 DEF LoopOK, Ends
<1>3. CASE status = "fatal" \/ i = Len(Table)
  <2>1. Exits(IF status = "fatal" THEN 112 ELSE IF install_failed + count > 0 THEN 1 ELSE 0)
    BY <1>3 DEF Ends
  <2>2. pc' = "idle" /\ exit' \in {0, 1, 112} /\ i' = 1 /\ install_failed' = 0
    BY <2>1 DEF Exits
  <2> QED  BY <1>2, <2>2, TableIs DEF LoopOK
<1>4. CASE ~(status = "fatal" \/ i = Len(Table))
  <2>1. pc' = "item" /\ i' = i + 1 /\ install_failed' = install_failed + count /\ exit' = exit
    BY <1>4 DEF Ends
  <2>2. i' \in DOMAIN Table /\ install_failed' \in 0..(i' - 1)
    BY <1>4, <2>1, TableIs DEF LoopOK
  <2> QED  BY <1>2, <2>1, <2>2 DEF LoopOK
<1> QED  BY <1>3, <1>4

LEMMA LoopExits ==
  ASSUME LoopOK, user' \in Users, umask' \in Umasks, dry' \in BOOLEAN, faulted' \in BOOLEAN,
         prog' \in {"none", "installer", "deinstaller", "instchk"},
         NEW status \in {112, Killed, Crashed}, Exits(status), errors' = {}
  PROVE  LoopOK'
<1>1. pc' = "idle" /\ exit' = status /\ i' = 1 /\ install_failed' = 0
  BY DEF Exits
<1> QED  BY <1>1, TableIs DEF LoopOK

LEMMA FaultIs ==
  ASSUME faulted \in BOOLEAN, NEW b, Fault(b)
  PROVE  faulted' \in BOOLEAN
  BY DEF Fault

LEMMA LoopCopyError ==
  ASSUME LoopOK, UNCHANGED <<prog, user, umask, dry>>, faulted' \in BOOLEAN,
         Copy_Error \/ Copy_Error_Undefined
  PROVE  LoopOK'
<1>1. CASE Ends("error", 0)
  BY <1>1, LoopEnds
<1>2. CASE Dies(Crashed)
  BY <1>2, LoopExits DEF Dies, LoopOK
<1> QED  BY <1>1, <1>2 DEF Copy_Error, Copy_Error_Undefined

LEMMA LoopCopy ==
  ASSUME LoopOK, \/ Open_Source_Fails \/ Open_Destination_Fails \/ Open_Files
                 \/ Copy_Data \/ Set_Attributes \/ Rename_Tmp
  PROVE  LoopOK'
<1>1. UNCHANGED <<prog, user, umask, dry>> /\ faulted' \in BOOLEAN
  <2>1. UNCHANGED <<prog, user, umask, dry>>
    BY DEF Open_Source_Fails, Open_Destination_Fails, Open_Files, Copy_Data, Set_Attributes,
           Rename_Tmp, Copying, of_run
  <2>2. faulted' = TRUE \/ faulted' = faulted
    BY DEF Open_Source_Fails, Open_Destination_Fails, Open_Files, Copy_Data, Set_Attributes,
           Rename_Tmp, Fault
  <2> QED  BY <2>1, <2>2 DEF LoopOK
<1>2. CASE Copy_Error \/ Copy_Error_Undefined
  BY <1>1, <1>2, LoopCopyError
<1>3. CASE Ends("error", 0) \/ Ends("ok", 0)
  BY <1>1, <1>3, LoopEnds
<1>4. CASE Goes_To("copy") \/ Goes_To("attributes") \/ Goes_To("rename")
  BY <1>1, <1>4 DEF Goes_To, LoopOK, Copying
<1> QED
  BY <1>2, <1>3, <1>4
     DEF Open_Source_Fails, Open_Destination_Fails, Open_Files, Copy_Data, Set_Attributes, Rename_Tmp

LEMMA LoopItem ==
  ASSUME LoopOK, \/ Lookup_Fails \/ Dry_Run \/ Mkdir \/ Link \/ Check
                 \/ Remove_File \/ Remove_Directory
  PROVE  LoopOK'
<1>1. UNCHANGED <<prog, user, umask, dry>>
  BY DEF Lookup_Fails, Dry_Run, Mkdir, Link, Check, Remove_File, Remove_Directory, of_run
<1>2. faulted' = TRUE \/ faulted' = faulted
  BY DEF Lookup_Fails, Dry_Run, Mkdir, Link, Check, Remove_File, Remove_Directory, Fault
<1>3. \E status : \E count \in {0, 1} : Ends(status, count)
  <2>1. CASE Lookup_Fails \/ Dry_Run
    BY <2>1 DEF Lookup_Fails, Dry_Run
  <2>2. CASE Mkdir
    BY <2>2 DEF Mkdir
  <2>3. CASE Link
    BY <2>3 DEF Link
  <2>4. CASE Check
    BY <2>4 DEF Check
  <2>5. CASE Remove_File \/ Remove_Directory
    BY <2>5 DEF Remove_File, Remove_Directory
  <2> QED  BY <2>1, <2>2, <2>3, <2>4, <2>5
<1> QED  BY <1>1, <1>2, <1>3, LoopEnds DEF LoopOK

LEMMA LoopStep == LoopOK /\ [Next]_vars => LoopOK'
<1> SUFFICES ASSUME LoopOK, [Next]_vars PROVE LoopOK'
  OBVIOUS
<1>1. CASE UNCHANGED vars
  BY <1>1 DEF vars, LoopOK
<1>2. CASE Step
  BY <1>2, LoopCopy, LoopItem DEF Step
<1>3. CASE \E u \in Users :
             \/ \E d \in BOOLEAN : Start("installer", u, d) \/ Start("deinstaller", u, d)
             \/ Start("instchk", u, FALSE)
  <2>1. PICK p \in {"installer", "deinstaller", "instchk"}, u \in Users, d \in BOOLEAN :
          Start(p, u, d)
    BY <1>3
  <2>2. /\ prog' = p /\ user' = u /\ dry' = d /\ umask' = umask /\ errors' = {}
        /\ pc = "idle"
    BY <2>1 DEF Start
  <2>3. CASE Exits(112) /\ faulted' = TRUE
    BY <2>2, <2>3, LoopExits DEF LoopOK
  <2>4. CASE pc' = "item" /\ exit' = 0 /\ faulted' = FALSE /\ UNCHANGED <<i, install_failed>>
    BY <2>2, <2>4 DEF LoopOK
  <2> QED  BY <2>1, <2>3, <2>4 DEF Start
<1>4. CASE (\E s \in Sources, v \in Version : Rebuild(s, v)) \/ (\E dir \in Directories : Add_Stranger(dir))
  BY <1>4 DEF Rebuild, Add_Stranger, Others_Change, LoopOK
<1>5. CASE Kill
  BY <1>5, LoopExits DEF Kill, Dies, of_run, LoopOK
<1> QED  BY <1>1, <1>2, <1>3, <1>4, <1>5 DEF Next

LEMMA LoopInit == Init => LoopOK
<1>1. 1 \in DOMAIN Table /\ 0 \in 0..(1 - 1) /\ Root \in Users
  BY TableIs, AccountsAssumption DEF AccountsAssumption
<1> QED  BY <1>1 DEF Init, LoopOK

(***************************************************************************)
(* Paths.                                                                  *)
(***************************************************************************)
Is_Path(p) == \E S : p \in Seq(S)

LEMMA PrefixIs ==
  ASSUME NEW S, NEW dir \in Seq(S), NEW l \in 0..Len(dir)
  PROVE  /\ SubSeq(dir, 1, l) \in Seq(S) /\ Len(SubSeq(dir, 1, l)) = l
         /\ \A k \in 1..l : SubSeq(dir, 1, l)[k] = dir[k]
<1>1. Len(dir) \in Nat
  OBVIOUS
<1>2. 1 \in 1..(Len(dir) + 1) /\ l \in (1 - 1)..Len(dir)
  BY <1>1
<1> QED  BY <1>2, SubSeqProperties

LEMMA FrontIs ==
  ASSUME NEW S, NEW p \in Seq(S), p # <<>>
  PROVE  /\ Front(p) \in Seq(S) /\ Len(Front(p)) = Len(p) - 1
         /\ \A k \in 1..(Len(p) - 1) : Front(p)[k] = p[k]
<1>1. Len(p) \in Nat /\ Len(p) # 0
  BY EmptySeq
<1>2. Len(p) - 1 \in 0..Len(p)
  BY <1>1
<1> DEFINE f == SubSeq(p, 1, Len(p) - 1)
<1>3. /\ f \in Seq(S) /\ Len(f) = Len(p) - 1
      /\ \A k \in 1..(Len(p) - 1) : f[k] = p[k]
  BY <1>2, PrefixIs
<1> HIDE DEF f
<1> QED  BY <1>3 DEF Front, f

LEMMA FrontIsAbove ==
  ASSUME NEW p, Is_Path(p), p # <<>>
  PROVE  IsStrictPrefix(Front(p), p)
<1>1. PICK S : p \in Seq(S)
  BY DEF Is_Path
<1> DEFINE f == Front(p)
<1>2. /\ f \in Seq(S) /\ Len(f) = Len(p) - 1
      /\ \A k \in 1..(Len(p) - 1) : f[k] = p[k]
  BY <1>1, FrontIs
<1>3. Len(p) \in Nat /\ Len(p) # 0
  BY <1>1, EmptySeq
<1>4. f = SubSeq(p, 1, Len(p) - 1)
  BY DEF Front
<1> HIDE DEF f
<1>5. SubSeq(f, 1, Len(f)) = f
  BY <1>2, SubSeqFull
<1>6. SubSeq(p, 1, Len(f)) = f
  BY <1>2, <1>4
<1>7. f # p /\ Len(f) <= Len(p)
  BY <1>2, <1>3
<1>8. IsStrictPrefix(f, p)
  BY <1>5, <1>6, <1>7 DEF IsStrictPrefix, IsPrefix
<1> QED  BY <1>8 DEF f

LEMMA FrontOfPrefix ==
  ASSUME NEW S, NEW dir \in Seq(S), NEW l \in 1..Len(dir)
  PROVE  Front(SubSeq(dir, 1, l)) = SubSeq(dir, 1, l - 1) /\ SubSeq(dir, 1, l) # <<>>
<1> DEFINE p == SubSeq(dir, 1, l)
           q == SubSeq(dir, 1, l - 1)
<1>1. l \in 0..Len(dir) /\ l - 1 \in 0..Len(dir) /\ l \in Nat /\ l # 0
  OBVIOUS
<1>2. p \in Seq(S) /\ Len(p) = l /\ \A k \in 1..l : p[k] = dir[k]
  BY <1>1, PrefixIs
<1>3. q \in Seq(S) /\ Len(q) = l - 1 /\ \A k \in 1..(l - 1) : q[k] = dir[k]
  BY <1>1, PrefixIs
<1> HIDE DEF p, q
<1>4. p # <<>>
  BY <1>1, <1>2, EmptySeq
<1> DEFINE f == Front(p)
<1>5. f \in Seq(S) /\ Len(f) = l - 1 /\ \A k \in 1..(l - 1) : f[k] = p[k]
  BY <1>2, <1>4, FrontIs
<1> HIDE DEF f
<1>6. \A k \in 1..(l - 1) : f[k] = q[k]
  BY <1>1, <1>2, <1>3, <1>5
<1>7. f = q
  BY <1>3, <1>5, <1>6, SeqEqual
<1> QED  BY <1>4, <1>7 DEF f, p, q

(***************************************************************************)
(* A sound tree.                                                           *)
(***************************************************************************)
Node_OK(node) ==
  /\ node.type \in {"file", "dir", "link"}
  /\ node.version \in Version
  /\ node.mode \subseteq Bits
  /\ node.owner \in Users

\* Every node is in a directory, and what the table calls a directory, and
\* nothing else that it names, is one.
Sound(tree) ==
  /\ \A p \in DOMAIN tree : Is_Path(p) /\ Node_OK(tree[p])
  /\ \A p \in DOMAIN tree : p # <<>> => Is_Dir(tree, Front(p))
  /\ \A p \in DOMAIN tree \intersect Destinations : ~Is_Dir(tree, p)
  /\ \A p \in DOMAIN tree \intersect Directories : Is_Dir(tree, p)

\* To remove what has nothing below it.
LEMMA RemoveSound ==
  ASSUME NEW tree, Sound(tree), NEW path,
         \A p \in DOMAIN tree : p # <<>> /\ p # path => Front(p) # path
  PROVE  Sound(Without(tree, {path}))
<1> DEFINE new == Without(tree, {path})
<1>1. DOMAIN new = DOMAIN tree \ {path} /\ \A p \in DOMAIN new : new[p] = tree[p]
  BY DEF Without, Restrict
<1> HIDE DEF new
<1>2. Sound(new)
  BY <1>1 DEF Sound, Is_Dir
<1> QED  BY <1>2 DEF new

\* To enter a file or a link into a directory, or in place of another.
LEMMA EnterSound ==
  ASSUME NEW tree, Sound(tree), NEW path, Is_Path(path), Is_Dir(tree, Front(path)),
         ~Is_Dir(tree, path), path \notin Directories,
         NEW node, Node_OK(node), node.type # "dir"
  PROVE  Sound(With(tree, path, node))
<1> DEFINE new == With(tree, path, node)
<1>1. /\ DOMAIN new = DOMAIN tree \union {path}
      /\ \A p \in DOMAIN new : new[p] = IF p = path THEN node ELSE tree[p]
  BY DEF With
<1> HIDE DEF new
<1>2. Sound(new)
  BY <1>1 DEF Sound, Is_Dir
<1> QED  BY <1>2 DEF new

\* To change nodes that stay of the same type.
LEMMA ChangeSound ==
  ASSUME NEW tree, Sound(tree), NEW new, DOMAIN new = DOMAIN tree,
         \A p \in DOMAIN tree : new[p].type = tree[p].type /\ Node_OK(new[p])
  PROVE  Sound(new)
  BY DEF Sound, Is_Dir

\* Where a prefix of a path is, the shorter ones are.
LEMMA ShorterPrefixes ==
  ASSUME NEW tree, Sound(tree), NEW S, NEW dir \in Seq(S), NEW m \in 0..Len(dir),
         SubSeq(dir, 1, m) \in DOMAIN tree, NEW l \in 0..m
  PROVE  SubSeq(dir, 1, l) \in DOMAIN tree
<1> DEFINE N == {k \in Nat : k <= m => SubSeq(dir, 1, m - k) \in DOMAIN tree}
<1>1. 0 \in N
  <2>1. Len(dir) \in Nat /\ m - 0 = m
    OBVIOUS
  <2> QED  BY <2>1
<1>2. ASSUME NEW k \in Nat, k \in N PROVE k + 1 \in N
  <2> SUFFICES ASSUME k + 1 <= m PROVE SubSeq(dir, 1, m - (k + 1)) \in DOMAIN tree
    OBVIOUS
  <2>1. Len(dir) \in Nat /\ m - k \in 1..Len(dir) /\ (m - k) - 1 = m - (k + 1)
    OBVIOUS
  <2>2. SubSeq(dir, 1, m - k) \in DOMAIN tree
    BY <1>2
  <2>3. /\ Front(SubSeq(dir, 1, m - k)) = SubSeq(dir, 1, m - (k + 1))
        /\ SubSeq(dir, 1, m - k) # <<>>
    BY <2>1, FrontOfPrefix
  <2> QED  BY <2>2, <2>3, Zenon DEF Sound, Is_Dir
<1> HIDE DEF N
<1>3. m - l \in Nat /\ m - l <= m /\ m - (m - l) = l
  <2>1. Len(dir) \in Nat /\ m \in Nat /\ l \in Nat
    OBVIOUS
  <2> QED  BY <2>1
<1>4. m - l \in N
  BY <1>1, <1>2, <1>3, InductiveSet
<1>5. SubSeq(dir, 1, m - (m - l)) \in DOMAIN tree
  BY <1>3, <1>4 DEF N
<1> QED  BY <1>3, <1>5

\* To make the missing directories of a path, all or the first of them.
LEMMA RmkdirSound ==
  ASSUME Sound(fs), user \in Users, NEW item \in Items, item.op = "mkdir", NEW n \in Nat
  PROVE  Sound(Rmkdir(item.dir, n, item.perm))
<1> DEFINE dir == item.dir
           missing == {p \in Prefixes(dir) : p \notin DOMAIN fs}
           first == CHOOSE p \in missing : \A q \in missing : Len(p) <= Len(q)
           made == {p \in missing : Len(p) <= n}
           node == Node("dir", <<>>, 0, item.perm \ umask, user)
           grown == [p \in DOMAIN fs \union made |-> IF p \in made THEN node ELSE fs[p]]
<1>1. Rmkdir(dir, n, item.perm) = IF missing = {} \/ ~May_Enter(fs, first) THEN fs ELSE grown
  BY DEF Rmkdir
<1>2. SUFFICES ASSUME missing # {}, May_Enter(fs, first) PROVE Sound(grown)
  <2> HIDE DEF missing, first, grown
  <2> QED  BY <1>1
<1>3. dir \in Seq(STRING) /\ Len(dir) \in Nat
  BY TableAssumption DEF TableAssumption
<1> HIDE DEF dir
<1>4. \A p \in missing : \E l \in 0..Len(dir) : p = SubSeq(dir, 1, l) /\ Len(p) = l
  <2> SUFFICES ASSUME NEW p \in missing PROVE \E l \in 0..Len(dir) : p = SubSeq(dir, 1, l) /\ Len(p) = l
    OBVIOUS
  <2>1. PICK l \in 0..Len(dir) : p = SubSeq(dir, 1, l)
    BY DEF Prefixes
  <2>2. Len(p) = l
    BY <1>3, <2>1, PrefixIs
  <2> QED  BY <2>1, <2>2
<1>5. \A l \in 0..Len(dir) : SubSeq(dir, 1, l) \notin DOMAIN fs => SubSeq(dir, 1, l) \in missing
  BY DEF Prefixes
<1> HIDE DEF missing
<1>6. first \in missing /\ \A q \in missing : Len(first) <= Len(q)
  <2> DEFINE T == {Len(p) : p \in missing}
  <2>1. T \subseteq Nat /\ T # {}
    <3>1. \A p \in missing : Len(p) \in Nat
      BY <1>3, <1>4
    <3> QED  BY <1>2, <3>1
  <2>2. PICK t \in T : \A u \in T : t <= u
    BY <2>1, LeastNatural
  <2>3. \E p \in missing : \A q \in missing : Len(p) <= Len(q)
    BY <2>2
  <2> QED  BY <2>3, Zenon
<1> HIDE DEF first
<1>7. ASSUME NEW p \in made, p # <<>>
      PROVE  Front(p) \in made \/ Is_Dir(fs, Front(p))
  <2>1. PICK l \in 0..Len(dir) : p = SubSeq(dir, 1, l) /\ Len(p) = l
    BY <1>4
  <2>2. l # 0
    <3>1. dir \in Seq(STRING) /\ SubSeq(dir, 1, 0) = <<>>
      BY <1>3, SubSeqEmpty
    <3> QED  BY <1>7, <2>1, <3>1
  <2>3. l \in 1..Len(dir) /\ l - 1 \in 0..Len(dir) /\ l \in Nat
    BY <1>3, <2>2
  <2>4. Front(p) = SubSeq(dir, 1, l - 1) /\ Len(Front(p)) = l - 1
    BY <1>3, <2>1, <2>3, FrontOfPrefix, PrefixIs
  <2>5. CASE Front(p) \notin DOMAIN fs
    <3>1. Front(p) \in missing
      BY <1>5, <2>3, <2>4, <2>5
    <3>2. l <= n
      BY <2>1
    <3>3. l - 1 <= n
      BY <2>3, <3>2
    <3> QED  BY <2>4, <3>1, <3>3
  <2>6. CASE Front(p) \in DOMAIN fs
    <3>1. PICK k \in 0..Len(dir) : first = SubSeq(dir, 1, k) /\ Len(first) = k
      BY <1>4, <1>6
    <3>2. k <= l
      BY <1>6, <2>1, <3>1
    <3>3. first \notin DOMAIN fs
      BY <1>6 DEF missing
    <3>4. ASSUME k <= l - 1 PROVE FALSE
      <4>1. k \in 0..(l - 1)
        BY <2>3, <3>1, <3>4
      <4>2. SubSeq(dir, 1, l - 1) \in DOMAIN fs
        BY <2>4, <2>6
      <4> QED  BY <1>3, <2>3, <3>1, <3>3, <4>1, <4>2, ShorterPrefixes
    <3>5. k = l
      BY <1>3, <2>3, <3>1, <3>2, <3>4
    <3> QED  BY <1>2, <2>1, <3>1, <3>5 DEF May_Enter
  <2> QED  BY <2>5, <2>6
<1>8. \A p \in made : Is_Path(p)
  BY <1>3, <1>4, PrefixIs DEF Is_Path
<1>9. made \intersect Destinations = {}
  BY TableAssumption DEF TableAssumption, Ancestors, missing, dir
<1>10. Node_OK(node) /\ node.type = "dir"
  BY AccountsAssumption, TableAssumption, VersionAssumption
     DEF AccountsAssumption, TableAssumption, VersionAssumption, Node_OK, Node
<1>11. /\ DOMAIN grown = DOMAIN fs \union made
       /\ \A p \in DOMAIN grown : grown[p] = IF p \in made THEN node ELSE fs[p]
  OBVIOUS
<1>12. made \intersect DOMAIN fs = {}
  BY DEF missing
<1> HIDE DEF grown, node, made
<1>13. \A p : p \in made \/ Is_Dir(fs, p) => Is_Dir(grown, p)
  BY <1>10, <1>11, <1>12 DEF Is_Dir
<1>14. \A p \in DOMAIN grown : Is_Path(p) /\ Node_OK(grown[p])
  BY <1>8, <1>10, <1>11 DEF Sound
<1>15. \A p \in DOMAIN grown : p # <<>> => Is_Dir(grown, Front(p))
  BY <1>7, <1>11, <1>13 DEF Sound
<1>16. \A p \in DOMAIN grown \intersect Destinations : ~Is_Dir(grown, p)
  BY <1>9, <1>11, <1>12 DEF Sound, Is_Dir
<1>17. \A p \in DOMAIN grown \intersect Directories : Is_Dir(grown, p)
  BY <1>11, <1>13 DEF Sound
<1> QED  BY <1>14, <1>15, <1>16, <1>17 DEF Sound

\* To remove a file or a link, or what is not there.
LEMMA RemoveFileSound ==
  ASSUME NEW tree, Sound(tree), NEW path, ~Is_Dir(tree, path)
  PROVE  Sound(Without(tree, {path}))
<1>1. \A p \in DOMAIN tree : p # <<>> /\ p # path => Front(p) # path
  BY DEF Sound
<1> QED  BY <1>1, RemoveSound

(***************************************************************************)
(* The names of the table are paths.                                       *)
(***************************************************************************)
LEMMA AppendIsPath ==
  ASSUME NEW S, NEW p \in Seq(S), NEW x
  PROVE  Is_Path(Append(p, x)) /\ Append(p, x) # <<>> /\ Front(Append(p, x)) = p
<1> DEFINE T == S \union {x}
<1>1. p \in Seq(T) /\ x \in T
  OBVIOUS
<1> HIDE DEF T
<1>2. Append(p, x) \in Seq(T) /\ Append(p, x) # <<>>
  BY <1>1, AppendProperties
<1>3. Front(Append(p, x)) = p
  BY <1>1, FrontOfAppend
<1> QED  BY <1>2, <1>3 DEF Is_Path

LEMMA FilePaths ==
  ASSUME NEW item \in Items, Is_File(item)
  PROVE  /\ Is_Path(Dst(item)) /\ Dst(item) # <<>>
         /\ Is_Path(Tmp(Dst(item))) /\ Tmp(Dst(item)) # <<>>
         /\ Front(Dst(item)) = item.dir /\ Front(Tmp(Dst(item))) = item.dir
<1>1. item.dir \in Seq(STRING)
  BY TableAssumption DEF TableAssumption
<1>2. Dst(item) = Append(item.dir, Last(IF item.dst = <<>> THEN item.src ELSE item.dst))
  BY DEF Dst
<1>3. Is_Path(Dst(item)) /\ Dst(item) # <<>> /\ Front(Dst(item)) = item.dir
  BY <1>1, <1>2, AppendIsPath
<1>4. Tmp(Dst(item)) = Append(item.dir, Last(Dst(item)) \o ".tmp")
  BY <1>3 DEF Tmp
<1> QED  BY <1>1, <1>3, <1>4, AppendIsPath

LEMMA LinkPaths ==
  ASSUME NEW item \in Items, item.op = "symlink"
  PROVE  Is_Path(Dst(item)) /\ Dst(item) # <<>>
<1>1. item.dir \in Seq(STRING) /\ item.dst \in Seq(STRING) /\ item.dst # <<>>
  BY TableAssumption, OrderAssumption DEF TableAssumption, OrderAssumption
<1>2. Dst(item) = item.dir \o item.dst
  BY DEF Dst, Is_File, Files
<1> DEFINE a == item.dir
           b == item.dst
<1>3. a \in Seq(STRING) /\ b \in Seq(STRING) /\ b # <<>>
  BY <1>1
<1> HIDE DEF a, b
<1>4. Len(a) \in Nat /\ Len(b) \in Nat \ {0}
  BY <1>3, EmptySeq
<1>5. a \o b \in Seq(STRING) /\ Len(a \o b) = Len(a) + Len(b)
  BY <1>3, ConcatProperties
<1>6. a \o b # <<>>
  BY <1>4, <1>5, EmptySeq
<1> QED  BY <1>2, <1>5, <1>6 DEF a, b, Is_Path

\* No name stands for a directory and for something else.
LEMMA DirectoryNames ==
  /\ Directories \intersect (Destinations \union Temporaries) = {}
  /\ \A item \in Items : item.op = "mkdir" => item.dir \in Directories
  /\ \A dir \in Directories : Append(dir, Stranger) \notin
       Destinations \union Temporaries \union Directories
<1>1. \A item \in Items : item.op = "mkdir" =>
        /\ item.dir \notin Destinations \union Temporaries
        /\ Append(item.dir, Stranger) \notin Destinations \union Temporaries \union Directories
  BY TableAssumption DEF TableAssumption, Ancestors
<1>2. \A dir \in Directories : \E item \in Items : item.op = "mkdir" /\ dir = item.dir
  BY DEF Directories
<1>3. \A item \in Items : item.op = "mkdir" => item.dir \in Directories
  BY DEF Directories
<1> QED  BY <1>1, <1>2, <1>3, Zenon

\* The user that an item names, when there is one.
LEMMA UidIs ==
  ASSUME LoopOK, NEW item, Known(item)
  PROVE  Uid(item) \in Users
  BY DEF LoopOK, Known, Uid

(***************************************************************************)
(* Every step keeps the tree sound.                                        *)
(***************************************************************************)
SoundInv == WholeInv /\ LoopOK /\ Sound(fs)

\* A copy in progress.
LEMMA CopyingIs ==
  ASSUME SoundInv, NEW label, Copying(label)
  PROVE  /\ Item \in Items /\ Is_File(Item) /\ Known(Item) /\ Uid(Item) \in Users
         /\ Dst(Item) \in Destinations \ Directories /\ tmp \in Temporaries \ Directories
         /\ tmp = Tmp(Dst(Item)) /\ tmp # Dst(Item)
         /\ tmp \in DOMAIN fs => fs[tmp].type = "file"
         /\ ~Is_Dir(fs, tmp)
         /\ built[Item.src] \in Version
<1>1. Item \in Items /\ Is_File(Item) /\ Known(Item)
  BY ItemInTable DEF Copying, SoundInv, LoopOK
<1>2. /\ Dst(Item) \in Destinations /\ Tmp(Dst(Item)) \in Temporaries
      /\ Tmp(Dst(Item)) # Dst(Item) /\ Item.src \in Sources
  BY <1>1, FileNames
<1>3. tmp \in DOMAIN fs => fs[tmp].type = "file"
  BY <1>2 DEF SoundInv, WholeInv, TreeOK, tmp
<1>4. Uid(Item) \in Users
  BY <1>1, UidIs DEF SoundInv
<1> QED
  BY <1>1, <1>2, <1>3, <1>4, DirectoryNames DEF tmp, Is_Dir, SoundInv, WholeInv

LEMMA SoundCopyError ==
  ASSUME SoundInv, NEW label, Copying(label), Copy_Error \/ Copy_Error_Undefined
  PROVE  Sound(fs')
<1>1. fs' = Without(fs, {tmp}) \/ fs' = fs
  BY DEF Copy_Error, Copy_Error_Undefined
<1>2. ~Is_Dir(fs, tmp)
  BY CopyingIs
<1> QED  BY <1>1, <1>2, RemoveFileSound DEF SoundInv

LEMMA SoundOpenFiles ==
  ASSUME SoundInv, Open_Files
  PROVE  Sound(fs')
<1>1. Copying("item") /\ Can_Write(tmp)
  BY DEF Open_Files
<1>2. /\ Item \in Items /\ Is_File(Item) /\ tmp \notin Directories /\ ~Is_Dir(fs, tmp)
      /\ tmp = Tmp(Dst(Item))
  BY <1>1, CopyingIs
<1>3. CASE tmp \in DOMAIN fs
  <2>1. fs' = [fs EXCEPT ![tmp].src = Item.src, ![tmp].version = 0]
    BY <1>3 DEF Open_Files
  <2>2. /\ Is_Node(fs[tmp]) /\ \A p \in DOMAIN fs : Node_OK(fs[p])
    BY <1>3 DEF SoundInv, WholeInv, TreeOK, Sound
  <2>3. fs'[tmp] = [[fs[tmp] EXCEPT !.src = Item.src] EXCEPT !.version = 0]
    BY <1>3, <2>1
  <2>4. fs'[tmp].type = fs[tmp].type /\ Node_OK(fs'[tmp])
    BY <1>3, <2>2, <2>3, VersionAssumption DEF VersionAssumption, Is_Node, Node, Node_OK
  <2>5. DOMAIN fs' = DOMAIN fs /\ \A p \in DOMAIN fs : p # tmp => fs'[p] = fs[p]
    BY <2>1
  <2> QED  BY <2>2, <2>4, <2>5, ChangeSound DEF SoundInv
<1>4. CASE tmp \notin DOMAIN fs
  <2> DEFINE node == Node("file", Item.src, 0, Creat \ umask, user)
  <2>1. fs' = With(fs, tmp, node)
    BY <1>4 DEF Open_Files
  <2>2. Node_OK(node) /\ node.type # "dir"
    BY VersionAssumption, AccountsAssumption
       DEF VersionAssumption, AccountsAssumption, Node, Node_OK, SoundInv, LoopOK
  <2>3. Is_Path(tmp) /\ Is_Dir(fs, Front(tmp))
    BY <1>1, <1>2, <1>4, FilePaths DEF Can_Write, May_Enter
  <2> HIDE DEF node
  <2> QED  BY <1>2, <2>1, <2>2, <2>3, EnterSound DEF SoundInv
<1> QED  BY <1>3, <1>4

LEMMA SoundCopyData ==
  ASSUME SoundInv, Copy_Data \/ Set_Attributes
  PROVE  Sound(fs')
<1>1. PICK label \in {"copy", "attributes"} : Copying(label)
  BY DEF Copy_Data, Set_Attributes
<1>2. /\ tmp \in DOMAIN fs /\ Item \in Items /\ Uid(Item) \in Users
      /\ built[Item.src] \in Version
  BY <1>1, CopyingIs DEF SoundInv, WholeInv, CopyOK, Copying
<1>3. CASE Copy_Error
  BY <1>1, <1>3, SoundCopyError
<1>4. Is_Node(fs[tmp]) /\ \A p \in DOMAIN fs : Node_OK(fs[p])
  BY <1>2 DEF SoundInv, WholeInv, TreeOK, Sound
<1>5. CASE fs' = [fs EXCEPT ![tmp].version = built[Item.src]]
  <2>1. fs'[tmp] = [fs[tmp] EXCEPT !.version = built[Item.src]]
    BY <1>2, <1>5
  <2>2. fs'[tmp].type = fs[tmp].type /\ Node_OK(fs'[tmp])
    BY <1>2, <1>4, <2>1 DEF Is_Node, Node, Node_OK
  <2>3. DOMAIN fs' = DOMAIN fs /\ \A p \in DOMAIN fs : p # tmp => fs'[p] = fs[p]
    BY <1>5
  <2> QED  BY <1>4, <2>2, <2>3, ChangeSound DEF SoundInv
<1>6. CASE fs' = [fs EXCEPT ![tmp].mode = Item.perm, ![tmp].owner = Uid(Item)]
  <2>1. fs'[tmp] = [[fs[tmp] EXCEPT !.mode = Item.perm] EXCEPT !.owner = Uid(Item)]
    BY <1>2, <1>6
  <2>2. Item.perm \subseteq Bits
    BY <1>2, TableAssumption, AccountsAssumption DEF TableAssumption, AccountsAssumption
  <2>3. fs'[tmp].type = fs[tmp].type /\ Node_OK(fs'[tmp])
    BY <1>2, <1>4, <2>1, <2>2 DEF Is_Node, Node, Node_OK
  <2>4. DOMAIN fs' = DOMAIN fs /\ \A p \in DOMAIN fs : p # tmp => fs'[p] = fs[p]
    BY <1>6
  <2> QED  BY <1>4, <2>3, <2>4, ChangeSound DEF SoundInv
<1> QED  BY <1>3, <1>5, <1>6 DEF Copy_Data, Set_Attributes

LEMMA SoundRename ==
  ASSUME SoundInv, Rename_Tmp
  PROVE  Sound(fs')
<1>1. Copying("rename")
  BY DEF Rename_Tmp
<1>2. /\ tmp \in DOMAIN fs /\ Item \in Items /\ Is_File(Item) /\ Dst(Item) \notin Directories
      /\ ~Is_Dir(fs, tmp)
  BY <1>1, CopyingIs DEF SoundInv, WholeInv, CopyOK, Copying
<1>3. CASE Copy_Error_Undefined
  BY <1>1, <1>3, SoundCopyError
<1>4. CASE /\ fs' = With(Without(fs, {tmp}), Dst(Item), fs[tmp])
           /\ May_Enter(fs, Dst(Item)) /\ ~Is_Dir(fs, Dst(Item))
  <2> DEFINE tree == Without(fs, {tmp})
  <2>1. Sound(tree)
    BY <1>2, RemoveFileSound DEF SoundInv
  <2>2. \A p : Is_Dir(tree, p) <=> Is_Dir(fs, p)
    BY <1>2 DEF Without, Restrict, Is_Dir
  <2>3. Is_Dir(tree, Front(Dst(Item))) /\ ~Is_Dir(tree, Dst(Item))
    BY <1>4, <2>2 DEF May_Enter
  <2>4. Is_Path(Dst(Item))
    BY <1>2, FilePaths
  <2>5. Node_OK(fs[tmp]) /\ fs[tmp].type # "dir"
    BY <1>2 DEF SoundInv, Sound, Is_Dir
  <2> HIDE DEF tree
  <2>6. Sound(With(tree, Dst(Item), fs[tmp]))
    BY <1>2, <2>1, <2>3, <2>4, <2>5, EnterSound
  <2> QED  BY <1>4, <2>6 DEF tree
<1> QED  BY <1>3, <1>4 DEF Rename_Tmp

LEMMA SoundMkdir ==
  ASSUME SoundInv, Mkdir
  PROVE  Sound(fs')
<1>1. PICK n \in 0..Len(Item.dir), broken \in BOOLEAN :
        LET tree == Rmkdir(Item.dir, n, Item.perm)
            owned == /\ ~broken
                     /\ Item.dir \in DOMAIN tree
                     /\ May_Chown(tree[Item.dir], Uid(Item))
        IN  fs' = IF owned THEN [tree EXCEPT ![Item.dir].owner = Uid(Item)] ELSE tree
  BY DEF Mkdir
<1> DEFINE tree == Rmkdir(Item.dir, n, Item.perm)
<1>2. Item \in Items /\ Item.op = "mkdir" /\ Uid(Item) \in Users
  BY ItemInTable, UidIs DEF SoundInv, WholeInv, Mkdir, At
<1>3. Sound(tree) /\ TreeOK(tree)
  <2>1. n \in Nat
    OBVIOUS
  <2> QED  BY <1>2, <2>1, RmkdirSound, RmkdirOK DEF SoundInv, LoopOK, WholeInv
<1> HIDE DEF tree
<1>4. \/ fs' = tree
      \/ Item.dir \in DOMAIN tree /\ fs' = [tree EXCEPT ![Item.dir].owner = Uid(Item)]
  BY <1>1 DEF tree
<1>5. CASE Item.dir \in DOMAIN tree /\ fs' = [tree EXCEPT ![Item.dir].owner = Uid(Item)]
  <2>1. Is_Node(tree[Item.dir]) /\ \A p \in DOMAIN tree : Node_OK(tree[p])
    BY <1>3, <1>5 DEF TreeOK, Sound
  <2>2. fs'[Item.dir] = [tree[Item.dir] EXCEPT !.owner = Uid(Item)]
    BY <1>5
  <2>3. fs'[Item.dir].type = tree[Item.dir].type /\ Node_OK(fs'[Item.dir])
    BY <1>2, <1>5, <2>1, <2>2 DEF Is_Node, Node, Node_OK
  <2>4. DOMAIN fs' = DOMAIN tree /\ \A p \in DOMAIN tree : p # Item.dir => fs'[p] = tree[p]
    BY <1>5
  <2> QED  BY <1>3, <2>1, <2>3, <2>4, ChangeSound
<1> QED  BY <1>3, <1>4, <1>5

LEMMA SoundLink ==
  ASSUME SoundInv, Link
  PROVE  Sound(fs')
<1> DEFINE node == Node("link", Item.src, 0, Bits, user)
<1>1. Item \in Items /\ Item.op = "symlink"
  BY ItemInTable DEF SoundInv, WholeInv, Link, At
<1>2. \/ fs' = fs
      \/ fs' = With(fs, Dst(Item), node) /\ Dst(Item) \notin DOMAIN fs /\ May_Enter(fs, Dst(Item))
  BY DEF Link
<1>3. Is_Path(Dst(Item)) /\ Dst(Item) \notin Directories
  BY <1>1, LinkPaths, LinkNames, DirectoryNames
<1>4. Node_OK(node) /\ node.type # "dir"
  BY VersionAssumption, AccountsAssumption
     DEF VersionAssumption, AccountsAssumption, Node, Node_OK, SoundInv, LoopOK
<1> HIDE DEF node
<1> QED  BY <1>2, <1>3, <1>4, EnterSound DEF SoundInv, May_Enter, Is_Dir

LEMMA SoundRemove ==
  ASSUME SoundInv, Remove_File \/ Remove_Directory
  PROVE  Sound(fs')
<1>1. \/ fs' = fs
      \/ fs' = Without(fs, {Dst(Item)}) /\ ~Is_Dir(fs, Dst(Item))
      \/ fs' = Without(fs, {Item.dir}) /\ Below(Item.dir) = {}
  BY DEF Remove_File, Remove_Directory
<1>2. ASSUME Below(Item.dir) = {}, NEW p \in DOMAIN fs, p # <<>>, p # Item.dir
      PROVE  Front(p) # Item.dir
  BY <1>2, FrontIsAbove DEF Below, SoundInv, Sound
<1>3. CASE fs' = Without(fs, {Item.dir}) /\ Below(Item.dir) = {}
  BY <1>2, <1>3, RemoveSound DEF SoundInv
<1> QED  BY <1>1, <1>3, RemoveFileSound DEF SoundInv

LEMMA SoundStranger ==
  ASSUME SoundInv, NEW dir \in Directories, Add_Stranger(dir)
  PROVE  Sound(fs')
<1> DEFINE path == Append(dir, Stranger)
           node == Node("file", <<>>, 1, Creat, Root)
<1>1. dir \in Seq(STRING)
  BY TableAssumption DEF TableAssumption, Directories
<1>2. Is_Path(path) /\ Front(path) = dir
  BY <1>1, AppendIsPath
<1>3. path \notin Directories
  BY DirectoryNames
<1>4. Node_OK(node) /\ node.type # "dir"
  BY VersionAssumption, AccountsAssumption
     DEF VersionAssumption, AccountsAssumption, Node, Node_OK
<1>5. fs' = With(fs, path, node) /\ Is_Dir(fs, dir) /\ path \notin DOMAIN fs
  BY DEF Add_Stranger
<1> HIDE DEF path, node
<1> QED  BY <1>2, <1>3, <1>4, <1>5, EnterSound DEF SoundInv, Is_Dir

LEMMA SoundStep == SoundInv /\ [Next]_vars => SoundInv'
<1> SUFFICES ASSUME SoundInv, [Next]_vars PROVE SoundInv'
  OBVIOUS
<1>1. WholeInv' /\ LoopOK'
  BY WholeStep, LoopStep DEF SoundInv
<1>2. Sound(fs')
  <2>1. CASE UNCHANGED fs
    BY <2>1 DEF SoundInv
  <2>2. CASE Mkdir \/ Link \/ Remove_File \/ Remove_Directory
    BY <2>2, SoundMkdir, SoundLink, SoundRemove
  <2>3. CASE \/ Open_Destination_Fails \/ Open_Files \/ Copy_Data \/ Set_Attributes
             \/ Rename_Tmp
    <3>1. CASE Open_Destination_Fails
      BY <3>1, SoundCopyError DEF Open_Destination_Fails
    <3> QED  BY <2>3, <3>1, SoundOpenFiles, SoundCopyData, SoundRename
  <2>4. CASE Step /\ ~UNCHANGED fs
    BY <2>2, <2>3, <2>4
       DEF Step, Lookup_Fails, Dry_Run, Open_Source_Fails, Check
  <2>5. CASE \E dir \in Directories : Add_Stranger(dir)
    BY <2>5, SoundStranger
  <2> QED  BY <2>1, <2>4, <2>5 DEF Next, vars, Start, Rebuild, Kill
<1> QED  BY <1>1, <1>2 DEF SoundInv

LEMMA SoundInit == Init => SoundInv
<1> SUFFICES ASSUME Init PROVE SoundInv
  OBVIOUS
<1>1. Sound(fs)
  <2>1. \A p \in DOMAIN fs : p \in Seq(STRING) /\ Node_OK(fs[p])
    BY TreesAssumption DEF TreesAssumption, Init, Node_OK
  <2>2. \A p \in DOMAIN fs : p # <<>> => Is_Dir(fs, Front(p))
    BY TreesAssumption DEF TreesAssumption, Init
  <2>3. /\ DOMAIN fs \intersect Destinations = {}
        /\ \A p \in DOMAIN fs \intersect Directories : Is_Dir(fs, p)
    BY TreesAssumption DEF TreesAssumption, Init
  <2> QED  BY <2>1, <2>2, <2>3 DEF Sound, Is_Path
<1> QED  BY <1>1, WholeInit, LoopInit DEF SoundInv

LEMMA SoundAlways == Spec => []SoundInv
  BY SoundInit, SoundStep, PTL DEF Spec

\* The types, and that every node is in a directory, whatever the programs do
\* and wherever they stop.
THEOREM Types == Spec => []TypeOK
<1>1. SoundInv => TypeOK
  <2> SUFFICES ASSUME SoundInv PROVE TypeOK
    OBVIOUS
  <2>1. install_failed \in 0..Len(Table)
    BY TableIs DEF SoundInv, LoopOK
  <2> QED  BY <2>1 DEF SoundInv, LoopOK, WholeInv, Sound, Node_OK, TypeOK
<1> QED  BY <1>1, SoundAlways, PTL

(***************************************************************************)
(* How far a program has come.                                             *)
(***************************************************************************)
Passed ==
  IF pc = "idle" THEN Items ELSE {Table[Position(prog, k)] : k \in 1..(i - 1)}

\* A program runs, or has come to the end of its loop.
Active(p) == prog = p /\ (pc = "idle" => exit \in {0, 1})

LEMMA EveryPosition ==
  ASSUME NEW p, NEW item \in Items
  PROVE  \E k \in 1..Len(Table) : item = Table[Position(p, k)]
<1>1. PICK j \in 1..Len(Table) : item = Table[j]
  BY TableIs DEF Items
<1>2. CASE p = "deinstaller"
  <2>1. /\ Len(Table) + 1 - j \in 1..Len(Table)
        /\ Len(Table) + 1 - (Len(Table) + 1 - j) = j
    BY TableIs
  <2> QED  BY <1>1, <1>2, <2>1 DEF Position
<1>3. CASE p # "deinstaller"
  BY <1>1, <1>3 DEF Position
<1> QED  BY <1>2, <1>3

LEMMA PassedEnds ==
  ASSUME LoopOK, pc # "idle", UNCHANGED prog,
         NEW status, status # "fatal", NEW count \in {0, 1}, Ends(status, count)
  PROVE  /\ Passed' \subseteq Passed \union {Item}
         /\ errors' = IF status = "error" THEN errors \union {Item} ELSE errors
         /\ pc' = "idle" /\ exit' = 0 => install_failed = 0 /\ count = 0
         /\ pc' # "idle" /\ install_failed' = 0 => install_failed = 0 /\ count = 0
<1>1. Len(Table) \in Nat \ {0} /\ i \in 1..Len(Table) /\ install_failed \in Nat
  BY TableIs DEF LoopOK
<1>2. CASE i = Len(Table)
  <2>1. ASSUME NEW item \in Items PROVE item \in Passed \union {Item}
    <3>1. PICK k \in 1..Len(Table) : item = Table[Position(prog, k)]
      BY EveryPosition
    <3>2. CASE k = i
      BY <3>1, <3>2 DEF Item
    <3>3. CASE k # i
      <4>1. k \in 1..(i - 1)
        BY <1>1, <1>2, <3>3
      <4> QED  BY <3>1, <4>1 DEF Passed
    <3> QED  BY <3>2, <3>3
  <2>2. pc' = "idle" /\ exit' = IF install_failed + count > 0 THEN 1 ELSE 0
    BY <1>2 DEF Ends, Exits
  <2> QED  BY <1>1, <2>1, <2>2 DEF Passed, Ends
<1>3. CASE i # Len(Table)
  <2>1. pc' = "item" /\ i' = i + 1 /\ install_failed' = install_failed + count
    BY <1>3 DEF Ends
  <2>2. ASSUME NEW k \in 1..(i' - 1) PROVE Table[Position(prog, k)] \in Passed \union {Item}
    <3>1. CASE k = i
      BY <3>1 DEF Item
    <3>2. CASE k # i
      <4>1. k \in 1..(i - 1)
        BY <1>1, <2>1, <3>2
      <4> QED  BY <4>1 DEF Passed
    <3> QED  BY <3>1, <3>2
  <2>3. Position(prog, 1)' = Position(prog, 1) /\ \A k : Position(prog, k)' = Position(prog, k)
    BY DEF Position
  <2>4. Passed' = {Table[Position(prog, k)] : k \in 1..(i' - 1)}
    BY <2>1 DEF Passed
  <2> QED  BY <1>1, <2>1, <2>2, <2>4 DEF Ends
<1> QED  BY <1>2, <1>3

LEMMA PassedGoesOn ==
  ASSUME pc # "idle", UNCHANGED prog, NEW label, label # "idle", Goes_To(label)
  PROVE  Passed' = Passed /\ Item' = Item /\ errors' = errors /\ pc' = label
  BY DEF Passed, Goes_To, Item, Position

LEMMA PassedStart ==
  ASSUME LoopOK, NEW p, NEW u, NEW d, Start(p, u, d)
  PROVE  \/ pc' = "idle" /\ exit' = 112
         \/ pc' # "idle" /\ Passed' = {} /\ errors' = {} /\ pc' = "item"
<1>1. CASE Exits(112)
  BY <1>1 DEF Exits
<1>2. CASE pc' = "item" /\ UNCHANGED i
  <2>1. i' = 1 /\ 1..(1 - 1) = {}
    BY <1>2 DEF Start, LoopOK
  <2> QED  BY <1>2, <2>1 DEF Passed, Start
<1> QED  BY <1>1, <1>2 DEF Start

(***************************************************************************)
(* instchk                                                                 *)
(***************************************************************************)
CheckedInv ==
  Active("instchk") =>
    /\ \A item \in Passed \ errors : Known(item) /\ File_Check(item)
    /\ (pc = "idle" => exit = 0) /\ (pc # "idle" => install_failed = 0) =>
         \A item \in errors : ~Known(item)
    /\ ~faulted => \A item \in errors : ~(Known(item) /\ File_Check(item))

LEMMA CheckedSame ==
  ASSUME UNCHANGED <<fs, built, user>>, NEW item
  PROVE  (File_Check(item)' <=> File_Check(item)) /\ (Known(item)' <=> Known(item))
  BY DEF File_Check, Known, Follow, Uid, Place

LEMMA CheckedStep ==
  ASSUME SoundInv, CheckedInv, [Next]_vars
  PROVE  CheckedInv'
<1> SUFFICES ASSUME Active("instchk")'
             PROVE  /\ \A item \in Passed' \ errors' : Known(item)' /\ File_Check(item)'
                    /\ (pc' = "idle" => exit' = 0) /\ (pc' # "idle" => install_failed' = 0) =>
                         \A item \in errors' : ~Known(item)'
                    /\ ~faulted' => \A item \in errors' : ~(Known(item)' /\ File_Check(item)')
  BY DEF CheckedInv
<1>1. prog' = "instchk" /\ (pc' = "idle" => exit' \in {0, 1})
  BY DEF Active
<1>2. prog = "instchk" => pc \in {"idle", "item"}
  BY DEF SoundInv, WholeInv, CopyOK, LoopOK
<1>3. CASE UNCHANGED vars
  <2>1. UNCHANGED <<fs, built, user, pc, i, prog, errors, faulted, exit, install_failed>>
    BY <1>3 DEF vars
  <2>2. Passed' = Passed /\ Active("instchk")
    BY <1>1, <2>1 DEF Passed, Active, Position
  <2> QED  BY <2>1, <2>2, CheckedSame DEF CheckedInv
<1>4. CASE Lookup_Fails
  <2>1. prog = "instchk" /\ pc = "item" /\ UNCHANGED <<fs, built, user, faulted, prog>>
    BY <1>1, <1>4 DEF Lookup_Fails, of_run, At
  <2>2. ~Known(Item) /\ Ends("error", 0)
    BY <1>4 DEF Lookup_Fails
  <2>3. /\ Passed' \subseteq Passed \union {Item} /\ errors' = errors \union {Item}
        /\ pc' = "idle" /\ exit' = 0 => install_failed = 0
        /\ pc' # "idle" /\ install_failed' = 0 => install_failed = 0
    BY <2>1, <2>2, PassedEnds DEF SoundInv
  <2> QED  BY <2>1, <2>2, <2>3, CheckedSame DEF CheckedInv, Active
<1>5. CASE Check
  <2>1. prog = "instchk" /\ pc = "item" /\ UNCHANGED <<fs, built, user, prog>> /\ Known(Item)
    BY <1>5 DEF Check, of_run
  <2>2. PICK broken \in BOOLEAN :
          /\ IF File_Check(Item) /\ ~broken THEN Ends("ok", 0) ELSE Ends("error", 1)
          /\ Fault(broken)
    BY <1>5 DEF Check
  <2>3. CASE File_Check(Item) /\ ~broken
    <3>1. Ends("ok", 0) /\ faulted' = faulted
      BY <2>2, <2>3 DEF Fault
    <3>2. /\ Passed' \subseteq Passed \union {Item} /\ errors' = errors
          /\ pc' = "idle" /\ exit' = 0 => install_failed = 0
          /\ pc' # "idle" /\ install_failed' = 0 => install_failed = 0
      BY <2>1, <3>1, PassedEnds DEF SoundInv
    <3> QED  BY <2>1, <2>3, <3>1, <3>2, CheckedSame DEF CheckedInv, Active
  <2>4. CASE ~(File_Check(Item) /\ ~broken)
    <3>1. Ends("error", 1)
      BY <2>2, <2>4
    <3>2. ~faulted' => ~faulted /\ ~File_Check(Item)
      BY <2>2, <2>4 DEF Fault
    <3>3. /\ Passed' \subseteq Passed \union {Item} /\ errors' = errors \union {Item}
          /\ ~(pc' = "idle" /\ exit' = 0) /\ ~(pc' # "idle" /\ install_failed' = 0)
      BY <2>1, <3>1, PassedEnds DEF SoundInv
    <3> QED  BY <2>1, <3>2, <3>3, CheckedSame DEF CheckedInv, Active
  <2> QED  BY <2>3, <2>4
<1>6. CASE \E p, u, d : Start(p, u, d)
  BY <1>1, <1>6, PassedStart DEF SoundInv
<1>7. CASE Kill
  BY <1>1, <1>7 DEF Kill, Dies, Exits, Killed
<1>8. CASE Step /\ ~Lookup_Fails /\ ~Check
  BY <1>1, <1>8
     DEF Step, Dry_Run, Mkdir, Link, Open_Source_Fails, Open_Destination_Fails, Open_Files,
         Copy_Data, Set_Attributes, Rename_Tmp, Remove_File, Remove_Directory, Copying, At, of_run
<1>9. CASE \/ \E s \in Sources, v \in Version : Rebuild(s, v)
           \/ \E dir \in Directories : Add_Stranger(dir)
  BY <1>1, <1>9 DEF Rebuild, Add_Stranger, Others_Change
<1> QED  BY <1>3, <1>4, <1>5, <1>6, <1>7, <1>8, <1>9 DEF Next

LEMMA CheckedAlways == Spec => [](SoundInv /\ CheckedInv)
<1>1. Init => CheckedInv
  BY DEF Init, CheckedInv, Active
<1> QED  BY <1>1, SoundInit, SoundStep, CheckedStep, PTL DEF Spec

\* Nothing that is installed leads elsewhere.
LEMMA FileStays ==
  ASSUME SoundInv, NEW item \in Items, Is_File(item)
  PROVE  Follow(Dst(item)) = Dst(item)
  BY DEF SoundInv, WholeInv, TreeOK, Whole, Follow

\* instchk accepts no tree in which an item is missing, has another size than its
\* source now has, or another mode or owner than the table says.
THEOREM DamageIsFound == Spec => []CheckFindsDamage
<1>1. SoundInv /\ CheckedInv => CheckFindsDamage
  <2> SUFFICES ASSUME SoundInv, CheckedInv, Ended("instchk"), exit = 0,
                      NEW item \in Items, Known(item)
               PROVE  /\ Place(item) \in DOMAIN fs
                      /\ Is_File(item) =>
                           /\ Bytes[fs[Dst(item)].version] = Bytes[built[item.src]]
                           /\ fs[Dst(item)].mode \cap Checked = item.perm
                           /\ fs[Dst(item)].owner = Uid(item)
    BY DEF CheckFindsDamage
  <2>1. File_Check(item)
    BY DEF CheckedInv, Active, Ended, Passed
  <2>2. Place(item) \in DOMAIN fs
    BY <2>1 DEF File_Check, Follow
  <2>3. ASSUME Is_File(item)
        PROVE  Follow(Place(item)) = Dst(item)
    BY <2>3, FileStays DEF Place, Is_File, Files
  <2> QED  BY <2>1, <2>2, <2>3 DEF File_Check
<1> QED  BY <1>1, CheckedAlways, PTL

\* What the installer has put in place satisfies instchk, whatever the table,
\* but for directories that it found there or made under a strict mask.
THEOREM InstalledPasses == Spec => []InstalledItemsPass
<1>1. SoundInv /\ CheckedInv => InstalledItemsPass
  <2> SUFFICES ASSUME SoundInv, CheckedInv, Ended("instchk"), ~faulted,
                      NEW item \in errors, Known(item), In_Place(item)
               PROVE  \/ item.op = "mkdir" /\ fs[item.dir].mode \cap Checked # item.perm
                      \/ item.op = "symlink" /\ \E it \in Items \cap errors : Dst(it) = Follow(Dst(item))
    BY DEF InstalledItemsPass
  <2>1. /\ ~File_Check(item) /\ item \in Items
        /\ \A it \in Items \ errors : File_Check(it)
    BY DEF CheckedInv, Active, Ended, Passed, SoundInv, LoopOK
  <2>2. Place(item) \in DOMAIN fs /\ item.perm \cap Checked = item.perm
    BY <2>1, TableAssumption DEF TableAssumption, In_Place
  <2>3. CASE Is_File(item)
    <3>1. fs[Dst(item)] = Node("file", item.src, built[item.src], item.perm, Uid(item))
      BY <2>3 DEF In_Place, Place, Is_File, Files
    <3>2. Follow(Place(item)) = Dst(item) /\ Place(item) = Dst(item)
      BY <2>1, <2>3, FileStays DEF Place, Is_File, Files
    <3> QED  BY <2>1, <2>2, <3>1, <3>2 DEF File_Check, Node
  <2>4. CASE item.op = "mkdir"
    <3>1. fs[item.dir].type = "dir" /\ fs[item.dir].owner = Uid(item) /\ item.dir \in DOMAIN fs
      BY <2>4 DEF In_Place, Place, Is_File, Files
    <3>2. Follow(Place(item)) = item.dir /\ ~Is_File(item)
      BY <2>4, <3>1 DEF Follow, Place, Is_File, Files
    <3> QED  BY <2>1, <2>4, <3>1, <3>2 DEF File_Check
  <2>5. CASE item.op = "symlink"
    <3>1. /\ fs[Dst(item)].type = "link" /\ fs[Dst(item)].src = item.src /\ Dst(item) \in DOMAIN fs
          /\ ~Is_File(item) /\ Place(item) = Dst(item)
      BY <2>5 DEF In_Place, Place, Is_File, Files
    <3>2. PICK it \in Items : /\ Is_File(it) /\ Dst(it) = Front(Dst(item)) \o item.src
                              /\ it.perm = item.perm /\ it.owner = item.owner
      BY <2>1, <2>5, LinksAssumption DEF LinksAssumption
    <3>3. Follow(Dst(item)) = Dst(it)
      BY <3>1, <3>2 DEF Follow
    <3>4. ASSUME File_Check(it) PROVE FALSE
      <4>1. Follow(Place(it)) = Dst(it)
        BY <3>2, FileStays DEF Place, Is_File, Files
      <4> QED  BY <2>1, <3>1, <3>2, <3>3, <3>4, <4>1 DEF File_Check, Uid
    <3> QED  BY <2>1, <2>5, <3>2, <3>3, <3>4
  <2> QED  BY <2>1, <2>3, <2>4, <2>5, TableAssumption DEF TableAssumption, Is_File
<1> QED  BY <1>1, CheckedAlways, PTL

(***************************************************************************)
(* installer                                                               *)
(***************************************************************************)

\* The copy in progress is of the source as it is, and gets its owner.
CopyIs ==
  /\ pc \in {"attributes", "rename"} => fs[tmp].version = built[Item.src]
  /\ pc = "rename" => fs[tmp].owner = Uid(Item)

InstalledInv ==
  /\ CopyIs
  /\ Active("installer") /\ ~dry => \A item \in Passed \ errors : In_Place(item)

LEMMA PlaceNames ==
  ASSUME NEW item \in Items
  PROVE  /\ Place(item) \in (Destinations \union Directories) \ Temporaries
         /\ item.op # "mkdir" => Place(item) = Dst(item) /\ Dst(item) \in Destinations
         /\ item.op = "mkdir" => Place(item) = item.dir /\ ~Is_File(item)
         /\ Is_File(item) => item.op # "mkdir" /\ item.op # "symlink"
         /\ Is_File(item) \/ item.op = "mkdir" \/ item.op = "symlink"
<1>1. Destinations \intersect Temporaries = {}
  BY TableAssumption DEF TableAssumption
<1>2. item.op # "mkdir" => Dst(item) \in Destinations
  BY DEF Destinations
<1>3. item.op = "mkdir" => item.dir \in Directories
  BY DEF Directories
<1>4. Is_File(item) \/ item.op = "mkdir" \/ item.op = "symlink"
  BY TableAssumption DEF TableAssumption, Is_File
<1> QED  BY <1>1, <1>2, <1>3, <1>4, DirectoryNames DEF Place, Is_File, Files

\* What a step leaves alone stays in place.
LEMMA StaysInPlace ==
  ASSUME NEW item, In_Place(item), UNCHANGED <<built, user>>,
         Place(item) \in DOMAIN fs', fs'[Place(item)] = fs[Place(item)]
  PROVE  In_Place(item)'
<1>1. Place(item)' = Place(item) /\ Uid(item)' = Uid(item)
  BY DEF Place, Uid
<1> QED  BY <1>1 DEF In_Place

\* What is done to a temporary file disturbs nothing.
LEMMA TemporaryApart ==
  ASSUME UNCHANGED <<built, user>>, NEW t \in Temporaries,
         \A p \in DOMAIN fs : p # t => p \in DOMAIN fs' /\ fs'[p] = fs[p],
         NEW item \in Items, In_Place(item)
  PROVE  In_Place(item)'
<1>1. Place(item) # t /\ Place(item) \in DOMAIN fs
  BY PlaceNames DEF In_Place
<1> QED  BY <1>1, StaysInPlace

LEMMA PassedInTable ==
  ASSUME LoopOK
  PROVE  Passed \subseteq Items
<1>1. ASSUME NEW k \in 1..(i - 1) PROVE Table[Position(prog, k)] \in Items
  <2>1. Position(prog, k) \in DOMAIN Table
    BY TableIs DEF LoopOK, Position
  <2> QED  BY <2>1 DEF Items
<1> QED  BY <1>1 DEF Passed

\* The end of an item that is in place, or is reported.
LEMMA InstalledEnds ==
  ASSUME SoundInv, InstalledInv, prog = "installer", pc # "idle", UNCHANGED <<prog, dry>>,
         NEW status \in {"ok", "error"}, Ends(status, 0),
         ~dry => \A item \in Items : In_Place(item) => In_Place(item)',
         NEW it, it = Item, ~dry /\ status = "ok" => In_Place(it)'
  PROVE  InstalledInv'
<1>1. /\ Passed' \subseteq Passed \union {it}
      /\ errors' = IF status = "error" THEN errors \union {it} ELSE errors
  BY PassedEnds DEF SoundInv
<1>2. pc' \in {"idle", "item"}
  BY EndsInTable DEF SoundInv, LoopOK
<1>3. Passed \subseteq Items /\ Active("installer")
  BY PassedInTable DEF SoundInv, Active
<1>4. ASSUME ~dry, NEW item \in Passed' \ errors' PROVE In_Place(item)'
  <2>1. CASE item = it
    <3>1. status = "ok"
      BY <1>1, <1>4, <2>1
    <3> QED  BY <1>4, <2>1, <3>1
  <2>2. CASE item # it
    <3>1. item \in Passed \ errors
      BY <1>1, <1>4, <2>2
    <3>2. In_Place(item) /\ item \in Items
      BY <1>3, <1>4, <3>1 DEF InstalledInv
    <3> QED  BY <1>4, <3>2
  <2> QED  BY <2>1, <2>2
<1> QED  BY <1>2, <1>4 DEF InstalledInv, CopyIs

LEMMA InstalledCopyError ==
  ASSUME SoundInv, InstalledInv, NEW label \in {"item", "copy", "attributes", "rename"},
         Copying(label), Copy_Error \/ Copy_Error_Undefined
  PROVE  InstalledInv'
<1>1. /\ prog = "installer" /\ pc # "idle" /\ UNCHANGED <<prog, dry, built, user>>
      /\ tmp \in Temporaries
  BY CopyingIs DEF Copying, of_run
<1>2. CASE Copy_Error
  <2>1. \A p \in DOMAIN fs : p # tmp => p \in DOMAIN fs' /\ fs'[p] = fs[p]
    BY <1>2 DEF Copy_Error, Without, Restrict
  <2>2. \A item \in Items : In_Place(item) => In_Place(item)'
    BY <1>1, <2>1, TemporaryApart
  <2> QED  BY <1>1, <1>2, <2>2, InstalledEnds DEF Copy_Error
<1>3. CASE Dies(Crashed)
  BY <1>3 DEF Dies, Exits, Crashed, InstalledInv, Active, CopyIs
<1> QED  BY <1>2, <1>3 DEF Copy_Error_Undefined

\* A step of a copy that goes on.
LEMMA InstalledGoesOn ==
  ASSUME SoundInv, InstalledInv, NEW label \in {"item", "copy", "attributes", "rename"},
         Copying(label), NEW next \in {"copy", "attributes", "rename"}, Goes_To(next),
         \A p \in DOMAIN fs : p # tmp => p \in DOMAIN fs' /\ fs'[p] = fs[p],
         next # "copy" => fs'[tmp].version = built[Item.src],
         next = "rename" => fs'[tmp].owner = Uid(Item)
  PROVE  InstalledInv'
<1>1. /\ prog = "installer" /\ pc # "idle" /\ UNCHANGED <<prog, dry, built, user>>
      /\ tmp \in Temporaries
  BY CopyingIs DEF Copying, of_run
<1>2. Passed' = Passed /\ Item' = Item /\ errors' = errors /\ pc' = next
  BY <1>1, PassedGoesOn
<1>3. tmp' = tmp /\ Uid(Item)' = Uid(Item)
  BY <1>1, <1>2 DEF tmp, Uid
<1>4. CopyIs'
  BY <1>1, <1>2, <1>3 DEF CopyIs
<1>5. Passed \subseteq Items
  BY PassedInTable DEF SoundInv
<1>6. ASSUME ~dry, NEW item \in Passed \ errors PROVE In_Place(item)'
  <2>1. In_Place(item) /\ item \in Items
    BY <1>1, <1>5, <1>6 DEF InstalledInv, Active
  <2> QED  BY <1>1, <2>1, TemporaryApart
<1> QED  BY <1>1, <1>2, <1>4, <1>6 DEF InstalledInv

LEMMA InstalledCopy ==
  ASSUME SoundInv, InstalledInv, Open_Files \/ Copy_Data \/ Set_Attributes
  PROVE  InstalledInv'
<1>1. CASE Open_Files
  <2>1. Copying("item") /\ Goes_To("copy")
    BY <1>1 DEF Open_Files
  <2>2. \/ fs' = [fs EXCEPT ![tmp].src = Item.src, ![tmp].version = 0]
        \/ fs' = With(fs, tmp, Node("file", Item.src, 0, Creat \ umask, user))
    BY <1>1 DEF Open_Files
  <2>3. \A p \in DOMAIN fs : p # tmp => p \in DOMAIN fs' /\ fs'[p] = fs[p]
    BY <2>2 DEF With
  <2> QED  BY <2>1, <2>3, InstalledGoesOn
<1>2. CASE Copy_Data
  <2>1. Copying("copy") /\ tmp \in DOMAIN fs
    BY <1>2 DEF Copy_Data, Copying, SoundInv, WholeInv, CopyOK
  <2>2. CASE Copy_Error
    BY <2>1, <2>2, InstalledCopyError
  <2>3. CASE fs' = [fs EXCEPT ![tmp].version = built[Item.src]] /\ Goes_To("attributes")
    <3>1. Is_Node(fs[tmp])
      BY <2>1 DEF SoundInv, WholeInv, TreeOK
    <3>2. fs'[tmp] = [fs[tmp] EXCEPT !.version = built[Item.src]]
      BY <2>1, <2>3
    <3>3. fs'[tmp].version = built[Item.src]
      BY <3>1, <3>2 DEF Is_Node, Node
    <3>4. \A p \in DOMAIN fs : p # tmp => p \in DOMAIN fs' /\ fs'[p] = fs[p]
      BY <2>3
    <3> QED  BY <2>1, <2>3, <3>3, <3>4, InstalledGoesOn
  <2> QED  BY <1>2, <2>2, <2>3 DEF Copy_Data
<1>3. CASE Set_Attributes
  <2>1. Copying("attributes") /\ tmp \in DOMAIN fs /\ fs[tmp].version = built[Item.src]
    BY <1>3 DEF Set_Attributes, Copying, SoundInv, WholeInv, CopyOK, InstalledInv, CopyIs
  <2>2. CASE Copy_Error
    BY <2>1, <2>2, InstalledCopyError
  <2>3. CASE fs' = [fs EXCEPT ![tmp].mode = Item.perm, ![tmp].owner = Uid(Item)] /\ Goes_To("rename")
    <3>1. Is_Node(fs[tmp])
      BY <2>1 DEF SoundInv, WholeInv, TreeOK
    <3>2. fs'[tmp] = [[fs[tmp] EXCEPT !.mode = Item.perm] EXCEPT !.owner = Uid(Item)]
      BY <2>1, <2>3
    <3>3. fs'[tmp].version = built[Item.src] /\ fs'[tmp].owner = Uid(Item)
      BY <2>1, <3>1, <3>2 DEF Is_Node, Node
    <3>4. \A p \in DOMAIN fs : p # tmp => p \in DOMAIN fs' /\ fs'[p] = fs[p]
      BY <2>3
    <3> QED  BY <2>1, <2>3, <3>3, <3>4, InstalledGoesOn
  <2> QED  BY <1>3, <2>2, <2>3 DEF Set_Attributes
<1> QED  BY <1>1, <1>2, <1>3

LEMMA InstalledRename ==
  ASSUME SoundInv, InstalledInv, Rename_Tmp
  PROVE  InstalledInv'
<1>1. Copying("rename")
  BY DEF Rename_Tmp
<1>2. CASE Copy_Error_Undefined
  BY <1>1, <1>2, InstalledCopyError
<1>3. CASE fs' = With(Without(fs, {tmp}), Dst(Item), fs[tmp]) /\ Ends("ok", 0)
  <2>1. /\ Item \in Items /\ Is_File(Item) /\ tmp \in Temporaries /\ tmp \in DOMAIN fs
        /\ Dst(Item) \in Destinations \ Directories
        /\ prog = "installer" /\ pc # "idle" /\ UNCHANGED <<prog, dry, built, user>>
    BY <1>1, CopyingIs DEF SoundInv, WholeInv, CopyOK, Copying, of_run
  <2>2. fs[tmp] = Node("file", Item.src, built[Item.src], Item.perm, Uid(Item))
    <3>1. /\ fs[tmp].src = Item.src /\ fs[tmp].mode = Item.perm
          /\ fs[tmp].version = built[Item.src] /\ fs[tmp].owner = Uid(Item)
      BY <1>1 DEF Copying, SoundInv, WholeInv, CopyOK, InstalledInv, CopyIs
    <3>2. fs[tmp].type = "file" /\ Is_Node(fs[tmp])
      BY <2>1 DEF SoundInv, WholeInv, TreeOK
    <3> QED  BY <3>1, <3>2 DEF Is_Node
  <2>3. /\ fs'[Dst(Item)] = fs[tmp] /\ Dst(Item) \in DOMAIN fs'
        /\ \A p \in DOMAIN fs : p # tmp /\ p # Dst(Item) => p \in DOMAIN fs' /\ fs'[p] = fs[p]
    BY <1>3 DEF With, Without, Restrict
  <2>4. ASSUME NEW item \in Items, Is_File(item), Dst(item) = Dst(Item) PROVE In_Place(item)'
    <3>1. item.src = Item.src /\ item.perm = Item.perm /\ item.owner = Item.owner
      BY <2>1, <2>4, TableAssumption DEF TableAssumption, Is_File, Files
    <3>2. Place(item)' = Dst(item) /\ Uid(item)' = Uid(Item) /\ built' = built
      BY <2>1, <2>4, <3>1 DEF Place, Is_File, Files, Uid
    <3>3. /\ Dst(Item) \in DOMAIN fs'
          /\ fs'[Dst(Item)] = Node("file", item.src, built[item.src], item.perm, Uid(Item))
      BY <2>2, <2>3, <3>1
    <3>4. Is_File(item)'
      BY <2>4 DEF Is_File, Files
    <3>5. fs'[Place(item)'] = Node("file", item.src, built'[item.src], item.perm, Uid(item)')
      BY <2>4, <3>2, <3>3
    <3>6. Place(item)' \in DOMAIN fs'
      BY <2>4, <3>2, <3>3
    <3>7. item.op # "mkdir" /\ item.op # "symlink"
      BY <2>4 DEF Is_File, Files
    <3> QED  BY <3>4, <3>5, <3>6, <3>7, Zenon DEF In_Place
  <2>5. ASSUME NEW item \in Items, In_Place(item) PROVE In_Place(item)'
    <3>1. CASE Is_File(item) /\ Dst(item) = Dst(Item)
      BY <2>4, <3>1
    <3>2. CASE ~(Is_File(item) /\ Dst(item) = Dst(Item))
      <4>1. Place(item) # Dst(Item)
        <5>1. CASE item.op = "mkdir"
          BY <2>1, <5>1, PlaceNames DEF Directories
        <5>2. CASE item.op # "mkdir"
          BY <2>1, <3>2, <5>2, PlaceNames, TableAssumption DEF TableAssumption
        <5> QED  BY <5>1, <5>2
      <4>2. Place(item) # tmp /\ Place(item) \in DOMAIN fs
        BY <2>1, <2>5, PlaceNames DEF In_Place
      <4> QED  BY <2>1, <2>3, <2>5, <4>1, <4>2, StaysInPlace
    <3> QED  BY <3>1, <3>2
  <2>6. PICK it : it = Item
    OBVIOUS
  <2>7. In_Place(it)'
    BY <2>1, <2>4, <2>6
  <2> QED  BY <1>3, <2>1, <2>5, <2>6, <2>7, InstalledEnds
<1> QED  BY <1>2, <1>3 DEF Rename_Tmp

LEMMA InstalledMkdir ==
  ASSUME SoundInv, InstalledInv, Mkdir
  PROVE  InstalledInv'
<1>1. PICK n \in 0..Len(Item.dir), broken \in BOOLEAN :
        LET tree == Rmkdir(Item.dir, n, Item.perm)
            owned == /\ ~broken
                     /\ Item.dir \in DOMAIN tree
                     /\ May_Chown(tree[Item.dir], Uid(Item))
        IN  /\ fs' = IF owned THEN [tree EXCEPT ![Item.dir].owner = Uid(Item)] ELSE tree
            /\ Ends(IF owned THEN "ok" ELSE "error", 0)
  BY DEF Mkdir
<1>2. /\ Item \in Items /\ Item.op = "mkdir"
      /\ prog = "installer" /\ pc # "idle" /\ UNCHANGED <<prog, dry, built, user>>
  BY ItemInTable DEF SoundInv, LoopOK, Mkdir, At, of_run
<1> DEFINE tree == Rmkdir(Item.dir, n, Item.perm)
<1>3. DOMAIN fs \subseteq DOMAIN tree /\ \A p \in DOMAIN fs : tree[p] = fs[p]
  BY DEF Rmkdir
<1>4. Sound(tree)
  <2>1. n \in Nat
    OBVIOUS
  <2> QED  BY <1>2, <2>1, RmkdirSound DEF SoundInv, LoopOK
<1>5. PICK it : it = Item
  OBVIOUS
<1>6. PICK uid : uid = Uid(Item)
  OBVIOUS
<1>7. \/ fs' = tree /\ Ends("error", 0)
      \/ /\ fs' = [tree EXCEPT ![it.dir].owner = uid] /\ it.dir \in DOMAIN tree
         /\ Ends("ok", 0)
  BY <1>1, <1>5, <1>6
<1> HIDE DEF tree
<1>8. CASE fs' = tree /\ Ends("error", 0)
  <2>1. ASSUME NEW item \in Items, In_Place(item) PROVE In_Place(item)'
    <3>1. Place(item) \in DOMAIN fs
      BY <2>1 DEF In_Place
    <3> QED  BY <1>2, <1>3, <1>8, <2>1, <3>1, StaysInPlace
  <2> QED  BY <1>2, <1>5, <1>8, <2>1, InstalledEnds
<1>9. CASE /\ fs' = [tree EXCEPT ![it.dir].owner = uid] /\ it.dir \in DOMAIN tree
           /\ Ends("ok", 0)
  <2>1. tree[it.dir].type = "dir" /\ Node_OK(tree[it.dir])
    <3>1. it.dir \in Directories
      BY <1>2, <1>5, DirectoryNames
    <3> QED  BY <1>4, <1>9, <3>1 DEF Sound, Is_Dir
  <2>2. fs'[it.dir].type = "dir" /\ fs'[it.dir].owner = uid /\ it.dir \in DOMAIN fs'
    <3>1. it.dir \in DOMAIN fs'
      BY <1>9
    <3>2. fs'[it.dir] = [tree[it.dir] EXCEPT !.owner = uid]
      BY <1>9
    <3>3. fs'[it.dir].type = tree[it.dir].type
      BY <3>2
    <3>4. Is_Node(tree[it.dir])
      BY <1>2, <1>5, <1>9, RmkdirOK DEF SoundInv, WholeInv, tree, TreeOK
    <3>5. fs'[it.dir].owner = uid
      BY <3>2, <3>4 DEF Is_Node, Node
    <3> QED  BY <2>1, <3>1, <3>3, <3>5
  <2>3. ASSUME NEW item \in Items, item.op = "mkdir", item.dir = it.dir PROVE In_Place(item)'
    <3>1. item.owner = it.owner
      BY <1>2, <1>5, <2>3, TableAssumption DEF TableAssumption
    <3>2. Place(item)' = it.dir /\ Uid(item)' = uid /\ ~Is_File(item)'
      BY <1>2, <1>5, <1>6, <2>3, <3>1 DEF Place, Uid, Is_File, Files
    <3> QED  BY <2>2, <2>3, <3>2 DEF In_Place
  <2>4. ASSUME NEW item \in Items, In_Place(item) PROVE In_Place(item)'
    <3>1. CASE item.op = "mkdir" /\ item.dir = it.dir
      BY <2>3, <3>1
    <3>2. CASE ~(item.op = "mkdir" /\ item.dir = it.dir)
      <4>1. Place(item) # it.dir
        BY <1>2, <1>5, <3>2, PlaceNames, DirectoryNames
      <4>2. Place(item) \in DOMAIN fs
        BY <2>4 DEF In_Place
      <4>3. Place(item) \in DOMAIN fs' /\ fs'[Place(item)] = fs[Place(item)]
        BY <1>3, <1>9, <4>1, <4>2
      <4> QED  BY <1>2, <2>4, <4>3, StaysInPlace
    <3> QED  BY <3>1, <3>2
  <2>5. In_Place(it)'
    BY <1>2, <1>5, <2>3
  <2> QED  BY <1>2, <1>5, <1>9, <2>4, <2>5, InstalledEnds
<1> QED  BY <1>7, <1>8, <1>9

LEMMA InstalledLink ==
  ASSUME SoundInv, InstalledInv, Link
  PROVE  InstalledInv'
<1>1. /\ Item \in Items /\ Item.op = "symlink"
      /\ prog = "installer" /\ pc # "idle" /\ UNCHANGED <<prog, dry, built, user>>
  BY ItemInTable DEF SoundInv, LoopOK, Link, At, of_run
<1>2. PICK it : it = Item
  OBVIOUS
<1> DEFINE node == Node("link", it.src, 0, Bits, user)
<1>3. \/ UNCHANGED fs /\ Ends("error", 0)
      \/ UNCHANGED fs /\ dry /\ Ends("ok", 0)
      \/ (UNCHANGED fs \/ Dst(it) \notin DOMAIN fs) /\ Ends("fatal", 0)
      \/ /\ fs' = With(fs, Dst(it), node) /\ Dst(it) \notin DOMAIN fs
         /\ Ends("ok", 0)
  BY <1>2 DEF Link
<1>4. ASSUME UNCHANGED fs, NEW item \in Items, In_Place(item) PROVE In_Place(item)'
  <2>1. Place(item) \in DOMAIN fs
    BY <1>4 DEF In_Place
  <2> QED  BY <1>1, <1>4, <2>1, StaysInPlace
<1>5. CASE UNCHANGED fs /\ Ends("error", 0)
  BY <1>1, <1>2, <1>4, <1>5, InstalledEnds
<1>6. CASE UNCHANGED fs /\ dry /\ Ends("ok", 0)
  BY <1>1, <1>2, <1>4, <1>6, InstalledEnds
<1>7. CASE Ends("fatal", 0)
  BY <1>7 DEF Ends, Exits, InstalledInv, Active, CopyIs
<1>8. CASE /\ fs' = With(fs, Dst(it), node) /\ Dst(it) \notin DOMAIN fs
           /\ Ends("ok", 0)
  <2>1. /\ \A p \in DOMAIN fs : p \in DOMAIN fs' /\ fs'[p] = fs[p]
        /\ Dst(it) \in DOMAIN fs' /\ fs'[Dst(it)] = node
    BY <1>8 DEF With
  <2>2. ASSUME NEW item \in Items, In_Place(item) PROVE In_Place(item)'
    <3>1. Place(item) \in DOMAIN fs
      BY <2>2 DEF In_Place
    <3> QED  BY <1>1, <2>1, <2>2, <3>1, StaysInPlace
  <2>3. In_Place(it)'
    <3>1. Place(it)' = Dst(it) /\ ~Is_File(it)' /\ it.op = "symlink"
      BY <1>1, <1>2 DEF Place, Is_File, Files
    <3>2. node.type = "link" /\ node.src = it.src
      BY DEF Node
    <3> QED  BY <2>1, <3>1, <3>2 DEF In_Place
  <2> QED  BY <1>1, <1>2, <1>8, <2>2, <2>3, InstalledEnds
<1> QED  BY <1>3, <1>5, <1>6, <1>7, <1>8

LEMMA InstalledStep ==
  ASSUME SoundInv, InstalledInv, [Next]_vars
  PROVE  InstalledInv'
<1>1. ASSUME UNCHANGED <<fs, built, user>>, NEW item \in Items, In_Place(item)
      PROVE  In_Place(item)'
  <2>1. Place(item) \in DOMAIN fs
    BY <1>1 DEF In_Place
  <2> QED  BY <1>1, <2>1, StaysInPlace
<1>2. CASE UNCHANGED vars
  <2>1. UNCHANGED <<fs, built, user, pc, i, prog, dry, errors, exit>>
    BY <1>2 DEF vars
  <2>2. /\ Passed' = Passed /\ Active("installer")' = Active("installer") /\ Item' = Item
        /\ Passed \subseteq Items
    BY <2>1, PassedInTable DEF Passed, Active, Item, Position, SoundInv
  <2>3. CopyIs'
    BY <2>1, <2>2 DEF InstalledInv, CopyIs, tmp, Uid
  <2> QED  BY <1>1, <2>1, <2>2, <2>3 DEF InstalledInv
<1>3. CASE Open_Files \/ Copy_Data \/ Set_Attributes \/ Rename_Tmp \/ Mkdir \/ Link
  BY <1>3, InstalledCopy, InstalledRename, InstalledMkdir, InstalledLink
<1>4. CASE Open_Destination_Fails
  BY <1>4, InstalledCopyError DEF Open_Destination_Fails
<1>5. CASE (Lookup_Fails \/ Dry_Run \/ Open_Source_Fails) /\ prog = "installer"
  <2>1. pc # "idle" /\ UNCHANGED <<fs, built, user, prog, dry>>
    BY <1>5 DEF Lookup_Fails, Dry_Run, Open_Source_Fails, Copying, At, of_run
  <2>2. PICK status \in {"ok", "error"} : Ends(status, 0) /\ (dry \/ status = "error")
    BY <1>5 DEF Lookup_Fails, Dry_Run, Open_Source_Fails
  <2>3. PICK it : it = Item
    OBVIOUS
  <2> QED  BY <1>1, <1>5, <2>1, <2>2, <2>3, InstalledEnds
<1>6. CASE Step /\ prog # "installer"
  <2>1. /\ prog' = prog /\ \E status, count : Ends(status, count)
    <3>1. CASE Lookup_Fails \/ Dry_Run \/ Check
      BY <3>1 DEF Lookup_Fails, Dry_Run, Check, of_run
    <3>2. CASE Remove_File \/ Remove_Directory
      BY <3>2 DEF Remove_File, Remove_Directory, of_run
    <3> QED
      BY <1>6, <3>1, <3>2
         DEF Step, Mkdir, Link, Open_Source_Fails, Open_Destination_Fails, Open_Files,
             Copy_Data, Set_Attributes, Rename_Tmp, Copying, At
  <2>2. pc' \in {"idle", "item"}
    BY <2>1, EndsInTable DEF SoundInv, LoopOK
  <2> QED  BY <1>6, <2>1, <2>2 DEF InstalledInv, CopyIs, Active
<1>7. CASE Step
  BY <1>3, <1>4, <1>5, <1>6, <1>7 DEF Step, Check, Remove_File, Remove_Directory, At
<1>8. CASE \E p, u, d : Start(p, u, d)
  <2>1. (pc' = "idle" /\ exit' = 112) \/ (pc' = "item" /\ Passed' = {})
    BY <1>8, PassedStart DEF SoundInv
  <2> QED  BY <2>1 DEF InstalledInv, CopyIs, Active
<1>9. CASE Kill
  BY <1>9 DEF Kill, Dies, Exits, Killed, InstalledInv, CopyIs, Active
<1>10. CASE \/ \E s \in Sources, v \in Version : Rebuild(s, v)
            \/ \E dir \in Directories : Add_Stranger(dir)
  BY <1>10 DEF Rebuild, Add_Stranger, Others_Change, InstalledInv, CopyIs, Active
<1> QED  BY <1>2, <1>7, <1>8, <1>9, <1>10 DEF Next

LEMMA InstalledAlways == Spec => [](SoundInv /\ InstalledInv)
<1>1. Init => InstalledInv
  BY DEF Init, InstalledInv, Active, CopyIs
<1> QED  BY <1>1, SoundInit, SoundStep, InstalledStep, PTL DEF Spec

\* When the installer has come to its end, what it has not reported as ERROR is in
\* place, with the contents its source has, its mode and its owner, whatever
\* failed for the other items and whatever earlier programs left.
THEOREM Installs == Spec => []InstalledAsListed
<1>1. SoundInv /\ InstalledInv => InstalledAsListed
  BY DEF InstalledInv, InstalledAsListed, Ended, Active, Passed
<1> QED  BY <1>1, InstalledAlways, PTL

(***************************************************************************)
(* deinstaller                                                             *)
(***************************************************************************)
LEMMA StrictPrefixIs ==
  ASSUME NEW S, NEW s \in Seq(S), NEW t \in Seq(S)
  PROVE  IsStrictPrefix(s, t) <=> Len(s) < Len(t) /\ \A k \in 1..Len(s) : s[k] = t[k]
<1>1. Len(s) \in Nat /\ Len(t) \in Nat
  OBVIOUS
<1>2. SubSeq(s, 1, Len(s)) = s
  BY SubSeqFull
<1>3. ASSUME Len(s) <= Len(t)
      PROVE  SubSeq(t, 1, Len(s)) = s <=> \A k \in 1..Len(s) : s[k] = t[k]
  <2> DEFINE f == SubSeq(t, 1, Len(s))
  <2>1. f \in Seq(S) /\ Len(f) = Len(s) /\ \A k \in 1..Len(s) : f[k] = t[k]
    <3>1. Len(s) \in 0..Len(t)
      BY <1>1, <1>3
    <3> QED  BY <3>1, PrefixIs
  <2> HIDE DEF f
  <2>2. (\A k \in 1..Len(s) : s[k] = t[k]) => f = s
    BY <2>1, SeqEqual
  <2>3. f = s => \A k \in 1..Len(s) : s[k] = t[k]
    BY <2>1
  <2> QED  BY <2>2, <2>3 DEF f
<1>4. ASSUME Len(s) = Len(t), \A k \in 1..Len(s) : s[k] = t[k] PROVE s = t
  BY <1>4, SeqEqual
<1>5. CASE Len(s) <= Len(t)
  <2>1. IsPrefix(s, t) <=> \A k \in 1..Len(s) : s[k] = t[k]
    BY <1>2, <1>3, <1>5 DEF IsPrefix
  <2> QED  BY <1>1, <1>4, <1>5, <2>1 DEF IsStrictPrefix
<1>6. CASE ~(Len(s) <= Len(t))
  BY <1>1, <1>6 DEF IsStrictPrefix, IsPrefix
<1> QED  BY <1>5, <1>6

LEMMA BelowIsTransitive ==
  ASSUME NEW p, NEW q, NEW r, Is_Path(p), Is_Path(q), Is_Path(r),
         IsStrictPrefix(p, q), IsStrictPrefix(q, r)
  PROVE  IsStrictPrefix(p, r)
<1>1. PICK P, Q, R : p \in Seq(P) /\ q \in Seq(Q) /\ r \in Seq(R)
  BY DEF Is_Path
<1> DEFINE S == P \union Q \union R
<1>2. p \in Seq(S) /\ q \in Seq(S) /\ r \in Seq(S)
  BY <1>1
<1> HIDE DEF S
<1>3. Len(p) < Len(q) /\ \A k \in 1..Len(p) : p[k] = q[k]
  BY <1>2, StrictPrefixIs
<1>4. Len(q) < Len(r) /\ \A k \in 1..Len(q) : q[k] = r[k]
  BY <1>2, StrictPrefixIs
<1>5. Len(p) < Len(r) /\ \A k \in 1..Len(p) : p[k] = r[k]
  <2>1. Len(p) \in Nat /\ Len(q) \in Nat /\ Len(r) \in Nat
    BY <1>2
  <2> QED  BY <1>3, <1>4, <2>1
<1> QED  BY <1>2, <1>5, StrictPrefixIs

\* Something is in a directory that the user may not change.
Stuck == \E c \in DOMAIN fs : Front(c) \in DOMAIN fs /\ ~May(fs[Front(c)])

\* Files and links passed are gone, and directories hold what the table does
\* not list.
Removed(item) ==
  /\ item.op # "mkdir" => Dst(item) \notin DOMAIN fs
  /\ item.op = "mkdir" /\ item.dir \in DOMAIN fs =>
       \E p \in Below(item.dir) : p \notin Directories \union Destinations

RemovedInv ==
  Active("deinstaller") /\ ~dry /\ ~faulted => Stuck \/ \A item \in Passed : Removed(item)

\* What is below a directory is listed after it.
LEMMA PassedBelow ==
  ASSUME SoundInv, prog = "deinstaller", pc # "idle", Item.op = "mkdir",
         NEW item \in Items, IsStrictPrefix(Item.dir, Place(item))
  PROVE  item \in Passed
<1>1. Len(Table) \in Nat /\ i \in 1..Len(Table) /\ DOMAIN Table = 1..Len(Table)
  BY TableIs DEF SoundInv, LoopOK
<1>2. Item = Table[Len(Table) + 1 - i] /\ Len(Table) + 1 - i \in DOMAIN Table
  BY <1>1 DEF Item, Position
<1>3. PICK k \in DOMAIN Table : item = Table[k]
  BY DEF Items
<1>4. Len(Table) + 1 - i < k
  BY <1>2, <1>3, OrderAssumption DEF OrderAssumption
<1>5. /\ Len(Table) + 1 - k \in 1..(i - 1)
      /\ Len(Table) + 1 - (Len(Table) + 1 - k) = k
  BY <1>1, <1>4
<1>6. item = Table[Position(prog, Len(Table) + 1 - k)]
  BY <1>3, <1>5 DEF Position
<1> QED  BY <1>5, <1>6 DEF Passed

\* So a directory that cannot be emptied holds something of others.
LEMMA HoldsForeign ==
  ASSUME SoundInv, prog = "deinstaller", pc # "idle", Item.op = "mkdir", Item \in Items,
         \A item \in Passed : Removed(item), Below(Item.dir) # {}
  PROVE  Removed(Item)
<1>1. PICK p \in DOMAIN fs : IsStrictPrefix(Item.dir, p)
  BY DEF Below
<1>2. Is_Path(Item.dir) /\ \A q \in DOMAIN fs : Is_Path(q)
  BY TableAssumption DEF TableAssumption, Is_Path, SoundInv, Sound
<1>3. CASE p \in Destinations
  <2>1. PICK item \in Items : item.op # "mkdir" /\ p = Dst(item)
    BY <1>3 DEF Destinations
  <2>2. item \in Passed
    BY <1>1, <2>1, PlaceNames, PassedBelow
  <2> QED  BY <2>1, <2>2 DEF Removed
<1>4. CASE p \in Directories
  <2>1. PICK item \in Items : item.op = "mkdir" /\ p = item.dir
    BY <1>4 DEF Directories
  <2>2. item \in Passed
    BY <1>1, <2>1, PlaceNames, PassedBelow
  <2>3. PICK q \in DOMAIN fs : IsStrictPrefix(p, q) /\ q \notin Directories \union Destinations
    BY <2>1, <2>2 DEF Removed, Below
  <2>4. IsStrictPrefix(Item.dir, q)
    BY <1>1, <1>2, <2>3, BelowIsTransitive
  <2> QED  BY <2>3, <2>4 DEF Removed, Below
<1>5. CASE p \notin Directories \union Destinations
  BY <1>1, <1>5 DEF Removed, Below
<1> QED  BY <1>3, <1>4, <1>5

\* The user that runs the deinstaller cannot unlock what he is stuck at, and what
\* is gone stays so.
LEMMA RemovedStays ==
  ASSUME SoundInv, UNCHANGED user, NEW path \in DOMAIN fs, path \in Destinations \union Directories,
         May_Enter(fs, path), \A c \in DOMAIN fs : c # path => Front(c) # path,
         fs' = Without(fs, {path})
  PROVE  /\ Stuck => Stuck'
         /\ \A item : Removed(item) => Removed(item)'
<1>1. /\ DOMAIN fs' = DOMAIN fs \ {path} /\ \A p \in DOMAIN fs' : fs'[p] = fs[p]
  BY DEF Without, Restrict
<1>2. ASSUME Stuck PROVE Stuck'
  <2>1. PICK c \in DOMAIN fs : Front(c) \in DOMAIN fs /\ ~May(fs[Front(c)])
    BY <1>2 DEF Stuck
  <2>2. c # path
    BY <2>1 DEF May_Enter
  <2>3. c \in DOMAIN fs' /\ Front(c) \in DOMAIN fs' /\ fs'[Front(c)] = fs[Front(c)]
    BY <1>1, <2>1, <2>2
  <2> QED  BY <2>1, <2>3 DEF Stuck, May
<1>3. ASSUME NEW item, Removed(item) PROVE Removed(item)'
  <2>1. item.op # "mkdir" => Dst(item) \notin DOMAIN fs'
    BY <1>1, <1>3 DEF Removed
  <2>2. ASSUME item.op = "mkdir", item.dir \in DOMAIN fs'
        PROVE  \E p \in DOMAIN fs' : IsStrictPrefix(item.dir, p) /\ p \notin Directories \union Destinations
    BY <1>1, <1>3, <2>2 DEF Removed, Below
  <2> QED  BY <2>1, <2>2 DEF Removed, Below
<1> QED  BY <1>2, <1>3

LEMMA FrontOfRoot == Front(<<>>) = <<>>
<1>1. Len(<<>>) - 1 \in Int /\ Len(<<>>) - 1 < 1 /\ 1 \in Int
  OBVIOUS
<1> DEFINE n == Len(<<>>) - 1
<1>2. SubSeq(<<>>, 1, n) = <<>>
  <2>1. n \in Int /\ n < 1
    BY <1>1
  <2> HIDE DEF n
  <2> QED  BY <2>1, SubSeqEmpty
<1> QED  BY <1>2 DEF Front

\* The end of an item that is gone, or where the user is stuck.
LEMMA RemovedEnds ==
  ASSUME SoundInv, RemovedInv, prog = "deinstaller", pc # "idle", UNCHANGED <<prog, dry, user>>,
         faulted' = faulted \/ faulted' = TRUE,
         NEW status \in {"ok", "error"}, Ends(status, 0),
         ~dry /\ ~faulted' =>
           /\ Stuck => Stuck'
           /\ \A item : Removed(item) => Removed(item)',
         NEW it, it = Item,
         ~dry /\ ~faulted' /\ ~Stuck /\ (\A item \in Passed : Removed(item)) => Stuck' \/ Removed(it)'
  PROVE  RemovedInv'
<1>1. Passed' \subseteq Passed \union {it}
  BY PassedEnds DEF SoundInv
<1> SUFFICES ASSUME ~dry, ~faulted', ~Stuck' PROVE \A item \in Passed' : Removed(item)'
  BY DEF RemovedInv
<1>2. ~Stuck /\ ~faulted /\ Active("deinstaller")
  BY DEF Active
<1>3. \A item \in Passed : Removed(item)
  BY <1>2 DEF RemovedInv
<1>4. Removed(it)'
  BY <1>2, <1>3
<1> QED  BY <1>1, <1>3, <1>4

LEMMA RemovedFile ==
  ASSUME SoundInv, RemovedInv, Remove_File
  PROVE  RemovedInv'
<1>1. /\ Item \in Items /\ Item.op # "mkdir" /\ Dst(Item) \in Destinations
      /\ Dst(Item) # <<>> /\ prog = "deinstaller" /\ pc # "idle" /\ ~dry
      /\ UNCHANGED <<prog, dry, user>>
  <2>1. Item \in Items /\ Item.op \in Files \union {"symlink"}
    BY ItemInTable DEF SoundInv, LoopOK, Remove_File, At
  <2>2. Dst(Item) # <<>>
    BY <2>1, FilePaths, LinkPaths DEF Is_File
  <2> QED  BY <2>1, <2>2, PlaceNames DEF Remove_File, At, of_run, Files
<1>2. PICK it : it = Item
  OBVIOUS
<1> DEFINE can == Dst(it) \in DOMAIN fs /\ ~Is_Dir(fs, Dst(it)) /\ May_Enter(fs, Dst(it))
<1>3. \/ can /\ fs' = Without(fs, {Dst(it)}) /\ Ends("ok", 0) /\ faulted' = faulted
      \/ Ends("error", 0) /\ Fault(can) /\ UNCHANGED fs
  BY <1>2 DEF Remove_File
<1>4. CASE can /\ fs' = Without(fs, {Dst(it)}) /\ Ends("ok", 0) /\ faulted' = faulted
  <2>1. ASSUME NEW c \in DOMAIN fs, c # Dst(it) PROVE Front(c) # Dst(it)
    <3>1. c # <<>> => Is_Dir(fs, Front(c))
      BY DEF SoundInv, Sound
    <3>2. c = <<>> => Front(c) = c
      BY FrontOfRoot
    <3> QED  BY <1>4, <2>1, <3>1, <3>2
  <2>2. /\ Stuck => Stuck'
        /\ \A item : Removed(item) => Removed(item)'
    BY <1>1, <1>2, <1>4, <2>1, RemovedStays
  <2>3. Removed(it)'
    <3>1. Dst(it) \notin DOMAIN fs'
      BY <1>4 DEF Without, Restrict
    <3> QED  BY <1>1, <1>2, <3>1 DEF Removed
  <2> QED  BY <1>1, <1>2, <1>4, <2>2, <2>3, RemovedEnds
<1>5. CASE Ends("error", 0) /\ Fault(can) /\ UNCHANGED fs
  <2>1. faulted' = TRUE \/ (faulted' = faulted /\ ~can)
    BY <1>5 DEF Fault
  <2>2. /\ Stuck => Stuck'
        /\ \A item : Removed(item) => Removed(item)'
    BY <1>1, <1>5 DEF Stuck, May, Removed, Below
  <2>3. ASSUME ~can, ~Stuck PROVE Removed(it)'
    <3>1. ASSUME Dst(it) \in DOMAIN fs PROVE FALSE
      <4>1. ~Is_Dir(fs, Dst(it)) /\ Is_Dir(fs, Front(Dst(it)))
        BY <1>1, <1>2, <3>1 DEF SoundInv, Sound
      <4>2. May(fs[Front(Dst(it))])
        BY <2>3, <3>1, <4>1 DEF Stuck, Is_Dir
      <4> QED  BY <2>3, <3>1, <4>1, <4>2 DEF May_Enter
    <3> QED  BY <1>1, <1>2, <1>5, <3>1 DEF Removed
  <2> QED  BY <1>1, <1>2, <1>5, <2>1, <2>2, <2>3, RemovedEnds
<1> QED  BY <1>3, <1>4, <1>5

LEMMA RemovedDirectory ==
  ASSUME SoundInv, RemovedInv, Remove_Directory
  PROVE  RemovedInv'
<1>1. /\ Item \in Items /\ Item.op = "mkdir" /\ Item.dir \in Directories
      /\ prog = "deinstaller" /\ pc # "idle" /\ ~dry /\ UNCHANGED <<prog, dry, user>>
  BY ItemInTable, DirectoryNames DEF SoundInv, LoopOK, Remove_Directory, At, of_run
<1>2. PICK it : it = Item
  OBVIOUS
<1> DEFINE dir == it.dir
           can == Is_Dir(fs, dir) /\ Below(dir) = {} /\ May_Enter(fs, dir)
<1>3. \/ can /\ fs' = Without(fs, {dir}) /\ Ends("ok", 0) /\ faulted' = faulted
      \/ Ends("error", 0) /\ Fault(can) /\ UNCHANGED fs
  BY <1>2 DEF Remove_Directory
<1>4. CASE can /\ fs' = Without(fs, {dir}) /\ Ends("ok", 0) /\ faulted' = faulted
  <2>1. ASSUME NEW c \in DOMAIN fs, c # dir PROVE Front(c) # dir
    <3>1. c = <<>> => Front(c) = c
      BY FrontOfRoot
    <3>2. c # <<>> => IsStrictPrefix(Front(c), c)
      BY FrontIsAbove DEF SoundInv, Sound
    <3> QED  BY <1>4, <2>1, <3>1, <3>2 DEF Below
  <2>2. /\ Stuck => Stuck'
        /\ \A item : Removed(item) => Removed(item)'
    <3>1. dir \in DOMAIN fs /\ dir \in Destinations \union Directories /\ May_Enter(fs, dir)
      BY <1>1, <1>2, <1>4 DEF Is_Dir
    <3> QED  BY <1>1, <1>4, <2>1, <3>1, RemovedStays
  <2>3. Removed(it)'
    <3>1. dir \notin DOMAIN fs'
      BY <1>4 DEF Without, Restrict
    <3> QED  BY <1>1, <1>2, <3>1 DEF Removed
  <2> QED  BY <1>1, <1>2, <1>4, <2>2, <2>3, RemovedEnds
<1>5. CASE Ends("error", 0) /\ Fault(can) /\ UNCHANGED fs
  <2>1. faulted' = TRUE \/ (faulted' = faulted /\ ~can)
    BY <1>5 DEF Fault
  <2>2. /\ Stuck => Stuck'
        /\ \A item : Removed(item) => Removed(item)'
    BY <1>1, <1>5 DEF Stuck, May, Removed, Below
  <2>3. ASSUME ~can, ~Stuck, \A item \in Passed : Removed(item) PROVE Removed(it)
    <3>1. CASE dir \notin DOMAIN fs
      BY <1>1, <1>2, <3>1 DEF Removed
    <3>2. CASE Below(dir) # {}
      BY <1>1, <1>2, <2>3, <3>2, HoldsForeign
    <3>3. CASE dir \in DOMAIN fs /\ Below(dir) = {}
      <4>1. Is_Dir(fs, dir) /\ Is_Dir(fs, Front(dir))
        <5>1. Is_Dir(fs, dir) /\ (dir # <<>> => Is_Dir(fs, Front(dir)))
          BY <1>1, <1>2, <3>3 DEF SoundInv, Sound
        <5>2. dir = <<>> => Front(dir) = dir
          BY FrontOfRoot
        <5> QED  BY <5>1, <5>2
      <4>2. May(fs[Front(dir)])
        BY <2>3, <3>3, <4>1 DEF Stuck, Is_Dir
      <4> QED  BY <2>3, <3>3, <4>1, <4>2 DEF May_Enter
    <3> QED  BY <3>1, <3>2, <3>3
  <2> QED  BY <1>1, <1>2, <1>5, <2>1, <2>2, <2>3, RemovedEnds
<1> QED  BY <1>3, <1>4, <1>5

LEMMA RemovedStep ==
  ASSUME SoundInv, RemovedInv, [Next]_vars
  PROVE  RemovedInv'
<1>1. CASE UNCHANGED vars
  <2>1. UNCHANGED <<fs, user, pc, i, prog, dry, exit, faulted>>
    BY <1>1 DEF vars
  <2>2. Passed' = Passed /\ Active("deinstaller")' = Active("deinstaller")
    BY <2>1 DEF Passed, Active, Position
  <2>3. (Stuck <=> Stuck') /\ \A item : Removed(item) => Removed(item)'
    BY <2>1 DEF Stuck, May, Removed, Below
  <2> QED  BY <2>1, <2>2, <2>3 DEF RemovedInv
<1>2. CASE Remove_File \/ Remove_Directory
  BY <1>2, RemovedFile, RemovedDirectory
<1>3. CASE Dry_Run
  BY <1>3 DEF Dry_Run, of_run, RemovedInv
<1>4. CASE Step /\ prog # "deinstaller"
  <2>1. prog' = prog
    BY <1>4
       DEF Step, Lookup_Fails, Dry_Run, Mkdir, Link, Open_Source_Fails, Open_Destination_Fails,
           Open_Files, Copy_Data, Set_Attributes, Rename_Tmp, Check, Remove_File,
           Remove_Directory, Copying, of_run
  <2> QED  BY <1>4, <2>1 DEF RemovedInv, Active
<1>5. CASE Step
  BY <1>2, <1>3, <1>4, <1>5
     DEF Step, Lookup_Fails, Mkdir, Link, Open_Source_Fails, Open_Destination_Fails,
         Open_Files, Copy_Data, Set_Attributes, Rename_Tmp, Check, Copying, At
<1>6. CASE \E p, u, d : Start(p, u, d)
  <2>1. (pc' = "idle" /\ exit' = 112) \/ (pc' = "item" /\ Passed' = {})
    BY <1>6, PassedStart DEF SoundInv
  <2> QED  BY <2>1 DEF RemovedInv, Active
<1>7. CASE Kill
  BY <1>7 DEF Kill, Dies, Exits, Killed, RemovedInv, Active
<1>8. CASE \/ \E s \in Sources, v \in Version : Rebuild(s, v)
           \/ \E dir \in Directories : Add_Stranger(dir)
  BY <1>8 DEF Rebuild, Add_Stranger, Others_Change, RemovedInv, Active
<1> QED  BY <1>1, <1>5, <1>6, <1>7, <1>8 DEF Next

LEMMA RemovedAlways == Spec => [](SoundInv /\ RemovedInv)
<1>1. Init => RemovedInv
  BY DEF Init, RemovedInv, Active
<1> QED  BY <1>1, SoundInit, SoundStep, RemovedStep, PTL DEF Spec

\* A deinstaller that meets no failing call leaves no file and no link of the
\* table, and of its directories those that hold something of others: going
\* through the table from its end empties a directory before it is removed.
THEOREM Deinstalls == Spec => []DeinstallLeavesOnlyForeign
<1>1. SoundInv /\ RemovedInv => DeinstallLeavesOnlyForeign
  <2> SUFFICES ASSUME SoundInv, RemovedInv, Ended("deinstaller"), ~dry, ~faulted, All_May
               PROVE  /\ Destinations \intersect DOMAIN fs = {}
                      /\ \A dir \in Directories \intersect DOMAIN fs :
                           \E p \in Below(dir) : p \notin Directories
    BY DEF DeinstallLeavesOnlyForeign
  <2>1. ~Stuck
    BY DEF All_May, Stuck
  <2>2. \A item \in Items : Removed(item)
    BY <2>1 DEF RemovedInv, Active, Ended, Passed
  <2>3. ASSUME NEW p \in Destinations PROVE p \notin DOMAIN fs
    BY <2>2 DEF Destinations, Removed
  <2>4. ASSUME NEW dir \in Directories, dir \in DOMAIN fs
        PROVE  \E p \in Below(dir) : p \notin Directories
    <3>1. PICK item \in Items : item.op = "mkdir" /\ dir = item.dir
      BY DEF Directories
    <3> QED  BY <2>2, <2>4, <3>1 DEF Removed
  <2> QED  BY <2>3, <2>4
<1> QED  BY <1>1, RemovedAlways, PTL

(***************************************************************************)
(* To run the installer again.                                             *)
(***************************************************************************)

\* The directories above the table's.
Ways == {<<>>} \union UNION {Prefixes(dir) : dir \in Directories}

\* On the way to what the table names there is nothing but directories.
Open_Ways == <<>> \in DOMAIN fs /\ \A p \in Ways \intersect DOMAIN fs : Is_Dir(fs, p)

\* The files and directories of the table are not on the way to others.
LEMMA WayNames ==
  /\ Foreign(<<>>)
  /\ \A p \in Ways \ Directories : Foreign(p)
  /\ \A p \in Ways : \A dir \in Directories : p # Append(dir, Stranger)
<1>1. ASSUME NEW dir \in Directories, NEW p \in Prefixes(dir)
      PROVE  /\ p \notin Destinations \union Temporaries
             /\ \A d \in Directories : p # Append(d, Stranger)
  <2>1. PICK item \in Items : item.op = "mkdir" /\ dir = item.dir
    BY DEF Directories
  <2>2. p \in Ancestors(item)
    BY <1>1, <2>1 DEF Ancestors
  <2>3. Ancestors(item) \intersect (Destinations \union Temporaries) = {}
    BY <2>1, TableAssumption DEF TableAssumption
  <2>4. \A d \in Directories : Append(d, Stranger) \notin Ancestors(item)
    BY <2>1, PlacesAssumption DEF PlacesAssumption
  <2> QED  BY <2>2, <2>3, <2>4
<1>2. <<>> \notin Destinations
  <2> SUFFICES ASSUME NEW item \in Items, item.op # "mkdir" PROVE Dst(item) # <<>>
    BY DEF Destinations
  <2> QED  BY FilePaths, LinkPaths, PlaceNames
<1>3. <<>> \notin Temporaries
  <2> SUFFICES ASSUME NEW item \in Items, Is_File(item) PROVE Tmp(Dst(item)) # <<>>
    BY DEF Temporaries, Installed
  <2> QED  BY FilePaths
<1>4. <<>> \notin Directories
  BY PlacesAssumption DEF PlacesAssumption, Directories
<1>5. ASSUME NEW dir \in Directories PROVE <<>> # Append(dir, Stranger)
  <2>1. dir \in Seq(STRING)
    BY TableAssumption DEF TableAssumption, Directories
  <2> QED  BY <2>1, AppendIsPath
<1> QED  BY <1>1, <1>2, <1>3, <1>4, <1>5 DEF Ways, Foreign

\* Only directories come to be where the table has no file, but for what others
\* put there.
LEMMA NewNodes ==
  ASSUME SoundInv, [Next]_vars, NEW p \in DOMAIN fs' \ DOMAIN fs, Foreign(p)
  PROVE  fs'[p].type = "dir" \/ \E dir \in Directories : p = Append(dir, Stranger)
<1>1. CASE Open_Files \/ Open_Destination_Fails \/ Copy_Data \/ Set_Attributes \/ Rename_Tmp
  <2>1. \E label : Copying(label)
    BY <1>1 DEF Open_Files, Open_Destination_Fails, Copy_Data, Set_Attributes, Rename_Tmp
  <2>2. p # tmp /\ p # Dst(Item)
    BY <2>1, CopyingIs DEF Foreign
  <2>3. CASE Copy_Error \/ Copy_Error_Undefined
    BY <2>3 DEF Copy_Error, Copy_Error_Undefined, Without, Restrict
  <2>4. CASE \/ fs' = [fs EXCEPT ![tmp].src = Item.src, ![tmp].version = 0]
             \/ fs' = With(fs, tmp, Node("file", Item.src, 0, Creat \ umask, user))
             \/ fs' = [fs EXCEPT ![tmp].version = built[Item.src]]
             \/ fs' = [fs EXCEPT ![tmp].mode = Item.perm, ![tmp].owner = Uid(Item)]
    <3>1. DOMAIN fs' \subseteq DOMAIN fs \union {tmp}
      BY <2>4 DEF With
    <3> QED  BY <2>2, <3>1
  <2>5. CASE fs' = With(Without(fs, {tmp}), Dst(Item), fs[tmp])
    <3>1. DOMAIN fs' \subseteq DOMAIN fs \union {Dst(Item)}
      BY <2>5 DEF With, Without, Restrict
    <3> QED  BY <2>2, <3>1
  <2> QED
    BY <1>1, <2>3, <2>4, <2>5
       DEF Open_Files, Open_Destination_Fails, Copy_Data, Set_Attributes, Rename_Tmp
<1>2. CASE Mkdir
  <2>1. PICK n \in 0..Len(Item.dir) :
          LET tree == Rmkdir(Item.dir, n, Item.perm)
          IN  \/ fs' = tree
              \/ Item.dir \in DOMAIN tree /\ fs' = [tree EXCEPT ![Item.dir].owner = Uid(Item)]
    BY <1>2 DEF Mkdir
  <2> DEFINE tree == Rmkdir(Item.dir, n, Item.perm)
             made == Node("dir", <<>>, 0, Item.perm \ umask, user)
  <2>2. \A q \in DOMAIN tree \ DOMAIN fs : tree[q] = made
    BY DEF Rmkdir
  <2>3. DOMAIN fs' = DOMAIN tree /\ (fs'[p] = tree[p] \/ \E o : fs'[p] = [tree[p] EXCEPT !.owner = o])
    BY <2>1
  <2>4. made.type = "dir" /\ \A o : [made EXCEPT !.owner = o].type = "dir"
    BY DEF Node
  <2> HIDE DEF tree, made
  <2> QED  BY <2>2, <2>3, <2>4
<1>3. CASE Link
  <2>1. Item \in Items /\ Item.op = "symlink"
    BY <1>3, ItemInTable DEF SoundInv, LoopOK, Link, At
  <2>2. fs' = fs \/ fs' = With(fs, Dst(Item), Node("link", Item.src, 0, Bits, user))
    BY <1>3 DEF Link
  <2>3. DOMAIN fs' \subseteq DOMAIN fs \union {Dst(Item)}
    BY <2>2 DEF With
  <2> QED  BY <2>1, <2>3, LinkNames DEF Foreign
<1>4. CASE Remove_File \/ Remove_Directory
  BY <1>4 DEF Remove_File, Remove_Directory, Without, Restrict
<1>5. CASE \E dir \in Directories : Add_Stranger(dir)
  BY <1>5 DEF Add_Stranger, With
<1>6. CASE \/ Lookup_Fails \/ Dry_Run \/ Check \/ Open_Source_Fails \/ Kill
           \/ \E q, u, d : Start(q, u, d)
           \/ \E s \in Sources, v \in Version : Rebuild(s, v)
           \/ UNCHANGED vars
  BY <1>6 DEF Lookup_Fails, Dry_Run, Check, Open_Source_Fails, Kill, Start, Rebuild, vars
<1> QED  BY <1>1, <1>2, <1>3, <1>4, <1>5, <1>6 DEF Next, Step

\* No step puts a file on the way: mkdir makes the directories there.
LEMMA WaysStep ==
  ASSUME SoundInv, Open_Ways, [Next]_vars
  PROVE  Open_Ways'
<1>1. SoundInv'
  BY SoundStep
<1>2. <<>> \in DOMAIN fs'
  BY WayNames, ForeignStep DEF Open_Ways, SoundInv
<1>3. ASSUME NEW p \in Ways \intersect DOMAIN fs' PROVE Is_Dir(fs', p)
  <2>1. CASE p \in Directories
    BY <1>1, <1>3, <2>1 DEF SoundInv, Sound
  <2>2. CASE p \notin Directories /\ p \in DOMAIN fs
    <3>1. fs'[p] = fs[p]
      BY <1>3, <2>2, WayNames, ForeignStep DEF SoundInv
    <3> QED  BY <1>3, <2>2, <3>1 DEF Open_Ways, Is_Dir
  <2>3. CASE p \notin Directories /\ p \notin DOMAIN fs
    BY <1>3, <2>3, WayNames, NewNodes DEF Is_Dir
  <2> QED  BY <2>1, <2>2, <2>3
<1>4. Ways' = Ways
  BY DEF Ways, Directories
<1> QED  BY <1>2, <1>3, <1>4 DEF Open_Ways

\* Nor is one there at first.
LEMMA WaysInit == Init => Open_Ways
<1> SUFFICES ASSUME Init PROVE Open_Ways
  OBVIOUS
<1>1. fs \in Trees
  BY DEF Init
<1>2. ASSUME NEW dir \in Directories, NEW p \in Prefixes(dir) \intersect DOMAIN fs
      PROVE  Is_Dir(fs, p)
  <2>1. PICK item \in Items : item.op = "mkdir" /\ dir = item.dir
    BY DEF Directories
  <2>2. p \in Ancestors(item)
    BY <1>2, <2>1 DEF Ancestors
  <2> QED  BY <1>1, <2>1, <2>2, PlacesAssumption DEF PlacesAssumption
<1> QED  BY <1>1, <1>2, PlacesAssumption DEF PlacesAssumption, Open_Ways, Ways

\* A directory that the user may not change.
Locked == \E p \in DOMAIN fs : fs[p].type = "dir" /\ ~May(fs[p])

\* The directory of a mkdir item is there, and the user may change it.
Ready(item) == item.op = "mkdir" => Is_Dir(fs, item.dir) /\ May(fs[item.dir])

\* What the installer may report.
Excused(item) ==
  \/ ~Known(item) \/ (user # Root /\ Uid(item) # user)
  \/ Is_File(item) /\ built[item.src] = 0
  \/ item.op = "symlink" /\ Dst(item) \in DOMAIN fs

\* No temporary file is left beside the installed one.
Clean(item) == Is_File(item) => Tmp(Dst(item)) \notin DOMAIN fs

\* The temporary file of an item is being written.
In_Work == pc \in {"copy", "attributes", "rename"}

\* All goes well with the installer.
Well ==
  /\ pc = "idle" => exit = 0
  /\ install_failed = 0
  /\ \A item \in errors : Excused(item)
  /\ \A item \in Passed : Ready(item)
  /\ \A item \in Passed \ errors : Clean(item) \/ (In_Work /\ Tmp(Dst(item)) = tmp)
  /\ pc \in {"copy", "attributes"} => May(fs[tmp])

\* Where nothing fails, all goes well unless a directory is locked.
RetryInv ==
  prog = "installer" /\ ~dry /\ ~faulted /\ (pc = "idle" => exit # Killed) => Locked \/ Well

\* A link is below the directory of its item, even when dst has several names.
LEMMA LinkBelow ==
  ASSUME NEW item \in Items, item.op = "symlink"
  PROVE  IsStrictPrefix(item.dir, Dst(item))
<1> DEFINE a == item.dir
           b == item.dst
<1>1. a \in Seq(STRING) /\ b \in Seq(STRING) /\ b # <<>>
  BY TableAssumption, OrderAssumption DEF TableAssumption, OrderAssumption
<1>2. Dst(item) = a \o b
  BY DEF Dst, Is_File, Files
<1> HIDE DEF a, b
<1>3. Len(a) \in Nat /\ Len(b) \in Nat \ {0}
  BY <1>1, EmptySeq
<1>4. /\ a \o b \in Seq(STRING) /\ Len(a \o b) = Len(a) + Len(b)
      /\ \A k \in 1..Len(a) + Len(b) : (a \o b)[k] = IF k <= Len(a) THEN a[k] ELSE b[k - Len(a)]
  BY <1>1, ConcatProperties
<1> DEFINE c == a \o b
<1>5. c \in Seq(STRING) /\ Len(a) < Len(c) /\ \A k \in 1..Len(a) : a[k] = c[k]
  BY <1>3, <1>4
<1> HIDE DEF c
<1>6. IsStrictPrefix(a, c)
  BY <1>1, <1>5, StrictPrefixIs
<1> QED  BY <1>2, <1>6 DEF a, c

\* The directories of an item have been made before it.
LEMMA DirectoryPassed ==
  ASSUME LoopOK, prog = "installer", pc # "idle", Item.op # "mkdir",
         NEW dir \in {Item.dir, Front(Dst(Item))}
  PROVE  \E item \in Passed : item.op = "mkdir" /\ item.dir = dir
<1>1. Item \in Items /\ i \in DOMAIN Table /\ Item = Table[i]
  BY ItemInTable DEF LoopOK, Item, Position
<1>2. dir \in Directories
  BY <1>1, PlacesAssumption DEF PlacesAssumption
<1>3. PICK j \in DOMAIN Table : Table[j].op = "mkdir" /\ Table[j].dir = dir
  BY <1>2 DEF Directories, Items
<1>4. IsStrictPrefix(dir, Place(Item))
  <2>1. Place(Item) = Dst(Item) /\ (Is_File(Item) \/ Item.op = "symlink")
    BY <1>1, PlaceNames
  <2>2. CASE dir = Front(Dst(Item))
    <3>1. Is_Path(Dst(Item)) /\ Dst(Item) # <<>>
      BY <1>1, <2>1, FilePaths, LinkPaths
    <3> QED  BY <2>1, <2>2, <3>1, FrontIsAbove
  <2>3. CASE dir = Item.dir /\ Item.op = "symlink"
    BY <1>1, <2>1, <2>3, LinkBelow
  <2>4. CASE dir = Item.dir /\ Is_File(Item)
    BY <1>1, <2>2, <2>4, FilePaths
  <2> QED  BY <2>1, <2>2, <2>3, <2>4
<1>5. j < i
  BY <1>1, <1>3, <1>4, OrderAssumption DEF OrderAssumption
<1>6. j \in 1..(i - 1)
  BY <1>1, <1>5, TableIs
<1>7. Table[j] \in Passed
  <2>1. Table[j] = Table[Position(prog, j)]
    BY DEF Position
  <2> QED  BY <1>6, <2>1 DEF Passed
<1> QED  BY <1>3, <1>7

\* So where all goes well one may work there.
LEMMA MayWork ==
  ASSUME SoundInv, prog = "installer", pc # "idle", Item.op # "mkdir", Well
  PROVE  /\ Is_Dir(fs, Item.dir) /\ May(fs[Item.dir])
         /\ May_Enter(fs, Dst(Item))
         /\ Is_File(Item) => May_Enter(fs, tmp)
<1>1. ASSUME NEW dir \in {Item.dir, Front(Dst(Item))} PROVE Is_Dir(fs, dir) /\ May(fs[dir])
  <2>1. PICK item \in Passed : item.op = "mkdir" /\ item.dir = dir
    BY DirectoryPassed DEF SoundInv
  <2> QED  BY <2>1 DEF Well, Ready
<1>2. Is_File(Item) => Front(tmp) = Item.dir
  BY ItemInTable, FilePaths DEF tmp, SoundInv, LoopOK
<1> QED  BY <1>1, <1>2 DEF May_Enter

\* The installer removes no directory, and gives none away.
LEMMA DirectoriesStay ==
  ASSUME SoundInv, prog = "installer", Step, NEW p \in DOMAIN fs, fs[p].type = "dir"
  PROVE  /\ p \in DOMAIN fs' /\ fs'[p].type = "dir"
         /\ fs'[p].owner = fs[p].owner \/ (May(fs[p]) /\ fs'[p].owner = user)
<1>1. CASE Open_Files \/ Open_Destination_Fails \/ Copy_Data \/ Set_Attributes \/ Rename_Tmp
  <2>1. PICK label : Copying(label)
    BY <1>1 DEF Open_Files, Open_Destination_Fails, Copy_Data, Set_Attributes, Rename_Tmp
  <2>2. p # tmp /\ p # Dst(Item)
    <3>1. ~Is_Dir(fs, tmp) /\ Dst(Item) \in Destinations
      BY <2>1, CopyingIs
    <3> QED  BY <3>1 DEF Is_Dir, SoundInv, Sound
  <2>3. CASE Copy_Error \/ Copy_Error_Undefined
    BY <2>2, <2>3 DEF Copy_Error, Copy_Error_Undefined, Without, Restrict
  <2>4. CASE \/ fs' = [fs EXCEPT ![tmp].src = Item.src, ![tmp].version = 0]
             \/ fs' = With(fs, tmp, Node("file", Item.src, 0, Creat \ umask, user))
             \/ fs' = [fs EXCEPT ![tmp].version = built[Item.src]]
             \/ fs' = [fs EXCEPT ![tmp].mode = Item.perm, ![tmp].owner = Uid(Item)]
    BY <2>2, <2>4 DEF With
  <2>5. CASE fs' = With(Without(fs, {tmp}), Dst(Item), fs[tmp])
    BY <2>2, <2>5 DEF With, Without, Restrict
  <2> QED
    BY <1>1, <2>3, <2>4, <2>5
       DEF Open_Files, Open_Destination_Fails, Copy_Data, Set_Attributes, Rename_Tmp
<1>2. CASE Mkdir
  <2>1. PICK n \in 0..Len(Item.dir) :
          LET tree == Rmkdir(Item.dir, n, Item.perm)
          IN  \/ fs' = tree
              \/ /\ Item.dir \in DOMAIN tree /\ May_Chown(tree[Item.dir], Uid(Item))
                 /\ fs' = [tree EXCEPT ![Item.dir].owner = Uid(Item)]
    BY <1>2 DEF Mkdir
  <2> DEFINE tree == Rmkdir(Item.dir, n, Item.perm)
  <2>2. p \in DOMAIN tree /\ tree[p] = fs[p]
    BY DEF Rmkdir
  <2>3. Item \in Items /\ Item.op = "mkdir"
    BY <1>2, ItemInTable DEF Mkdir, At, SoundInv, LoopOK
  <2>4. Uid(Item) = user
    BY <2>3, PlacesAssumption DEF PlacesAssumption, Uid
  <2>5. Is_Node(fs[p])
    BY DEF SoundInv, WholeInv, TreeOK
  <2> HIDE DEF tree
  <2>6. CASE fs' = tree
    BY <2>2, <2>6
  <2>7. CASE p = Item.dir /\ May_Chown(tree[p], user) /\ fs' = [tree EXCEPT ![p].owner = user]
    <3>1. fs'[p] = [fs[p] EXCEPT !.owner = user]
      BY <2>2, <2>7
    <3>2. fs'[p].type = "dir" /\ fs'[p].owner = user
      BY <2>5, <3>1 DEF Is_Node, Node
    <3>3. May(fs[p])
      BY <2>2, <2>7 DEF May_Chown, May
    <3> QED  BY <2>2, <2>7, <3>2, <3>3
  <2>8. CASE p # Item.dir /\ fs' = [tree EXCEPT ![Item.dir].owner = user]
    BY <2>2, <2>8
  <2> QED  BY <2>1, <2>4, <2>6, <2>7, <2>8 DEF tree
<1>3. CASE Link
  <2>1. Item \in Items /\ Item.op = "symlink"
    BY <1>3, ItemInTable DEF SoundInv, LoopOK, Link, At
  <2>2. fs' = fs \/ fs' = With(fs, Dst(Item), Node("link", Item.src, 0, Bits, user))
    BY <1>3 DEF Link
  <2>3. p # Dst(Item)
    BY <2>1, LinkNames DEF SoundInv, Sound, Is_Dir
  <2> QED  BY <2>2, <2>3 DEF With
<1>4. CASE Lookup_Fails \/ Dry_Run \/ Open_Source_Fails
  BY <1>4 DEF Lookup_Fails, Dry_Run, Open_Source_Fails
<1> QED  BY <1>1, <1>2, <1>3, <1>4 DEF Step, Check, Remove_File, Remove_Directory, At

\* So a locked directory stays locked, and one that is ready stays ready.
LEMMA StaysLocked ==
  ASSUME SoundInv, prog = "installer", Step
  PROVE  /\ user' = user
         /\ Locked => Locked'
         /\ \A item : Ready(item) => Ready(item)'
<1>1. user' = user
  BY DEF Step, Lookup_Fails, Dry_Run, Mkdir, Link, Open_Source_Fails, Open_Destination_Fails,
         Open_Files, Copy_Data, Set_Attributes, Rename_Tmp, Copying, Check, Remove_File,
         Remove_Directory, of_run
<1>2. ASSUME Locked PROVE Locked'
  <2>1. PICK p \in DOMAIN fs : fs[p].type = "dir" /\ ~May(fs[p])
    BY <1>2 DEF Locked
  <2>2. p \in DOMAIN fs' /\ fs'[p].type = "dir" /\ fs'[p].owner = fs[p].owner
    BY <2>1, DirectoriesStay
  <2> QED  BY <1>1, <2>1, <2>2 DEF Locked, May
<1>3. ASSUME NEW item, Ready(item) PROVE Ready(item)'
  <2> SUFFICES ASSUME item.op = "mkdir" PROVE Is_Dir(fs', item.dir) /\ May(fs[item.dir])'
    BY DEF Ready, Is_Dir
  <2>1. item.dir \in DOMAIN fs /\ fs[item.dir].type = "dir" /\ May(fs[item.dir])
    BY <1>3 DEF Ready, Is_Dir
  <2>2. /\ item.dir \in DOMAIN fs' /\ fs'[item.dir].type = "dir"
        /\ fs'[item.dir].owner = fs[item.dir].owner \/ fs'[item.dir].owner = user
    BY <2>1, DirectoriesStay
  <2> QED  BY <1>1, <2>1, <2>2 DEF Is_Dir, May
<1> QED  BY <1>1, <1>2, <1>3

\* Where no directory is locked a directory of the table can be made.
LEMMA MkdirWorks ==
  ASSUME SoundInv, Open_Ways, ~Locked, NEW item \in Items, item.op = "mkdir",
         NEW n, n = Len(item.dir)
  PROVE  LET tree == Rmkdir(item.dir, n, item.perm)
         IN  item.dir \in DOMAIN tree /\ tree[item.dir].type = "dir" /\ May(tree[item.dir])
<1> DEFINE dir == item.dir
           missing == {p \in Prefixes(dir) : p \notin DOMAIN fs}
           first == CHOOSE p \in missing : \A q \in missing : Len(p) <= Len(q)
           made == {p \in missing : Len(p) <= n}
           node == Node("dir", <<>>, 0, item.perm \ umask, user)
           grown == [p \in DOMAIN fs \union made |-> IF p \in made THEN node ELSE fs[p]]
           tree == Rmkdir(dir, n, item.perm)
<1>1. tree = IF missing = {} \/ ~May_Enter(fs, first) THEN fs ELSE grown
  BY DEF Rmkdir
<1>2. dir \in Directories
  BY DEF Directories
<1>3. dir \in Seq(STRING) /\ Len(dir) \in Nat
  BY TableAssumption DEF TableAssumption
<1>4. \A p \in Prefixes(dir) : p \in Ways
  BY <1>2 DEF Ways
<1>5. dir \in Prefixes(dir)
  <2>1. dir = SubSeq(dir, 1, Len(dir))
    BY <1>3
  <2> QED  BY <1>3, <2>1 DEF Prefixes
<1> USE DEF SoundInv, Sound
<1>6. CASE dir \in DOMAIN fs
  <2>1. Is_Dir(fs, dir)
    BY <1>2, <1>6
  <2>2. fs[dir].type = "dir" /\ May(fs[dir])
    BY <1>6, <2>1 DEF Is_Dir, Locked
  <2>3. dir \notin made
    BY <1>6
  <2>4. dir \in DOMAIN grown /\ grown[dir] = fs[dir]
    BY <1>6, <2>3
  <2> HIDE DEF missing, first, grown
  <2> QED  BY <1>1, <1>6, <2>2, <2>4
<1>7. CASE dir \notin DOMAIN fs
  <2>1. dir \in missing
    BY <1>5, <1>7
  <2>2. dir \in made
    BY <1>3, <2>1
  <2>3. /\ dir \in DOMAIN grown /\ grown[dir] = node
        /\ node.type = "dir" /\ node.owner = user
    BY <2>2 DEF Node
  <2>4. \A p \in missing : p # <<>>
    BY DEF Open_Ways
  <2>5. \A p \in missing : \E l \in 0..Len(dir) : p = SubSeq(dir, 1, l) /\ Len(p) = l
    <3> SUFFICES ASSUME NEW p \in missing PROVE \E l \in 0..Len(dir) : p = SubSeq(dir, 1, l) /\ Len(p) = l
      OBVIOUS
    <3>1. PICK l \in 0..Len(dir) : p = SubSeq(dir, 1, l)
      BY DEF Prefixes
    <3>2. Len(p) = l
      BY <1>3, <3>1, PrefixIs
    <3> QED  BY <3>1, <3>2
  <2>6. \A l \in 0..Len(dir) :
          /\ SubSeq(dir, 1, l) \in Prefixes(dir)
          /\ SubSeq(dir, 1, l) \notin DOMAIN fs => SubSeq(dir, 1, l) \in missing
    BY DEF Prefixes
  <2> HIDE DEF dir, missing
  <2>7. first \in missing /\ \A q \in missing : Len(first) <= Len(q)
    <3> DEFINE T == {Len(p) : p \in missing}
    <3>1. T \subseteq Nat /\ T # {}
      <4>1. \A p \in missing : Len(p) \in Nat
        BY <1>3, <2>5
      <4> QED  BY <2>1, <4>1
    <3>2. PICK t \in T : \A u \in T : t <= u
      BY <3>1, LeastNatural
    <3>3. \E p \in missing : \A q \in missing : Len(p) <= Len(q)
      BY <3>2
    <3> QED  BY <3>3, Zenon
  <2> HIDE DEF first
  <2>8. PICK l \in 0..Len(dir) : first = SubSeq(dir, 1, l) /\ Len(first) = l
    BY <2>5, <2>7
  <2>9. l # 0
    <3>1. SubSeq(dir, 1, 0) = <<>>
      BY <1>3, SubSeqEmpty
    <3> QED  BY <2>4, <2>7, <2>8, <3>1
  <2>10. l \in 1..Len(dir) /\ l - 1 \in 0..Len(dir) /\ l \in Nat /\ ~(l <= l - 1)
    BY <1>3, <2>9
  <2>11. Front(first) = SubSeq(dir, 1, l - 1) /\ Len(Front(first)) = l - 1
    BY <1>3, <2>8, <2>10, FrontOfPrefix, PrefixIs
  <2>12. Front(first) \in DOMAIN fs
    BY <2>6, <2>7, <2>8, <2>10, <2>11
  <2>13. Is_Dir(fs, Front(first))
    BY <1>4, <2>6, <2>10, <2>11, <2>12 DEF Open_Ways
  <2>14. May_Enter(fs, first)
    BY <2>12, <2>13 DEF May_Enter, Is_Dir, Locked
  <2>15. missing # {}
    BY <2>1
  <2>16. May(node)
    BY <2>3 DEF May
  <2> HIDE DEF grown, node
  <2>17. tree = grown
    BY <1>1, <2>14, <2>15
  <2> HIDE DEF tree
  <2>18. dir \in DOMAIN tree /\ tree[dir].type = "dir" /\ May(tree[dir])
    BY <2>3, <2>16, <2>17
  <2> QED  BY <2>18 DEF tree, dir
<1> QED  BY <1>6, <1>7

\* An item that is done, or not done for a reason.
LEMMA RetryEnds ==
  ASSUME SoundInv, Well, Step, prog = "installer", pc # "idle", UNCHANGED <<prog, built>>,
         NEW status \in {"ok", "error"}, Ends(status, 0),
         \A item \in Items : item.op = "symlink" /\ Dst(item) \in DOMAIN fs => Dst(item) \in DOMAIN fs',
         \A t \in Temporaries \intersect DOMAIN fs' : t \in DOMAIN fs /\ (In_Work => t # tmp),
         NEW it, it = Item,
         status = "ok" => Ready(it)' /\ Clean(it)',
         status = "error" => Excused(it) /\ it.op # "mkdir"
  PROVE  Well'
<1>1. Passed' \subseteq Passed \union {it} /\ Passed \subseteq Items /\ it \in Items
  <2>1. Passed' \subseteq Passed \union {Item}
    BY PassedEnds DEF SoundInv
  <2> QED  BY <2>1, PassedInTable, ItemInTable DEF SoundInv, LoopOK
<1>2. errors' = IF status = "error" THEN errors \union {it} ELSE errors
  BY DEF Ends
<1>3. pc' \in {"idle", "item"} /\ install_failed' = 0 /\ (pc' = "idle" => exit' = 0)
  <2>1. install_failed + 0 = 0 /\ ~(install_failed + 0 > 0) /\ status # "fatal"
    BY DEF Well
  <2> QED  BY <2>1 DEF Ends, Exits, Well
<1>4. user' = user /\ \A item : Ready(item) => Ready(item)'
  BY StaysLocked
<1>5. ASSUME NEW item \in Items, Excused(item) PROVE Excused(item)'
  BY <1>4, <1>5 DEF Excused, Known, Uid
<1>6. \A item \in errors' : Excused(item)'
  BY <1>1, <1>2, <1>5 DEF Well, SoundInv, LoopOK
<1>7. \A item \in Passed' : Ready(item)'
  <2>1. it.op # "mkdir" => Ready(it)'
    BY DEF Ready
  <2> QED  BY <1>1, <1>4, <2>1 DEF Well
<1>8. ASSUME NEW item \in Passed' \ errors' PROVE Clean(item)'
  <2>1. CASE item = it
    BY <1>2, <1>8, <2>1
  <2>2. CASE item \in Passed \ errors
    <3> SUFFICES ASSUME Is_File(item) PROVE Tmp(Dst(item)) \notin DOMAIN fs'
      BY DEF Clean
    <3>1. Tmp(Dst(item)) \in Temporaries
      BY <1>1, <2>2, FileNames
    <3>2. Tmp(Dst(item)) \notin DOMAIN fs \/ (In_Work /\ Tmp(Dst(item)) = tmp)
      BY <2>2 DEF Well, Clean
    <3> QED  BY <3>1, <3>2
  <2> QED  BY <1>1, <1>2, <1>8, <2>1, <2>2
<1> QED  BY <1>3, <1>6, <1>7, <1>8 DEF Well

\* A copy that goes on.
LEMMA RetryGoesOn ==
  ASSUME SoundInv, Well, Step, pc # "idle", NEW label, Copying(label),
         NEW next \in {"copy", "attributes", "rename"}, Goes_To(next),
         DOMAIN fs' = DOMAIN fs \union {tmp},
         next # "rename" => fs'[tmp].owner = user \/ user = Root
  PROVE  Well'
<1>1. UNCHANGED <<prog, built>>
  BY DEF Copying, of_run
<1>2. Passed' = Passed /\ Item' = Item /\ errors' = errors /\ pc' = next
  BY <1>1, PassedGoesOn
<1>3. tmp' = tmp /\ In_Work' /\ install_failed' = install_failed
  BY <1>2 DEF tmp, In_Work, Goes_To
<1>4. user' = user /\ \A item : Ready(item) => Ready(item)'
  <2>1. prog = "installer"
    BY DEF Copying
  <2> QED  BY <2>1, StaysLocked
<1>5. ASSUME NEW item, Excused(item) PROVE Excused(item)'
  BY <1>1, <1>4, <1>5 DEF Excused, Known, Uid
<1>6. ASSUME NEW item \in Passed \ errors
      PROVE  Clean(item)' \/ Tmp(Dst(item)) = tmp
  BY DEF Well, Clean
<1>7. pc' \in {"copy", "attributes"} => user' = Root \/ fs'[tmp].owner = user'
  BY <1>2, <1>4
<1>8. pc' \in {"copy", "attributes"} => May(fs[tmp])'
  BY <1>3, <1>7 DEF May
<1> QED  BY <1>2, <1>3, <1>4, <1>5, <1>6, <1>8 DEF Well

\* What holds while the installer goes through its items and all goes well.
Going ==
  /\ SoundInv /\ Open_Ways /\ Well /\ ~Locked
  /\ prog = "installer" /\ ~dry /\ ~faulted /\ ~faulted'

\* What the operation of an item says of it.
LEMMA SpecialItems ==
  ASSUME NEW item \in Items
  PROVE  /\ item.op = "mkdir" => Known(item) /\ Uid(item) = user /\ ~Is_File(item)
         /\ Is_File(item) => item.op # "mkdir" /\ item.op # "symlink"
         /\ item.op = "symlink" => ~Is_File(item)
<1>1. item.op = "mkdir" => item.owner = ""
  BY PlacesAssumption DEF PlacesAssumption
<1> QED  BY <1>1 DEF Known, Uid, Is_File, Files

\* A user that is not known, a source that is not built.
LEMMA RetryQuiet ==
  ASSUME Going, Step, pc = "item", Lookup_Fails \/ Open_Source_Fails
  PROVE  Well'
<1>1. Item \in Items
  BY ItemInTable DEF Going, SoundInv, LoopOK
<1>2. /\ UNCHANGED <<prog, built, fs>> /\ Ends("error", 0)
      /\ ~Known(Item) \/ (Is_File(Item) /\ built[Item.src] = 0)
  <2>1. CASE Lookup_Fails
    BY <2>1 DEF Lookup_Fails, of_run
  <2>2. CASE Open_Source_Fails
    <3>1. Copying("item") /\ Ends("error", 0) /\ Fault(built[Item.src] # 0) /\ UNCHANGED fs
      BY <2>2 DEF Open_Source_Fails
    <3>2. ~(built[Item.src] # 0)
      BY <3>1 DEF Fault, Going
    <3> QED  BY <3>1, <3>2 DEF Copying, of_run
  <2> QED  BY <2>1, <2>2
<1>3. Excused(Item) /\ Item.op # "mkdir"
  BY <1>1, <1>2, SpecialItems DEF Excused
<1>4. ~In_Work /\ pc # "idle" /\ "error" # "ok"
  BY DEF In_Work
<1> QED
  <2>1. PICK it : it = Item /\ Excused(it) /\ it.op # "mkdir"
    BY <1>3
  <2> QED  BY <1>2, <1>4, <2>1, RetryEnds DEF Going

\* Without a failure mkdir makes the directory, and gives it to the user.
LEMMA RetryMkdir ==
  ASSUME Going, Step, Mkdir
  PROVE  Well'
<1>1. Item \in Items /\ pc = "item" /\ Item.op = "mkdir" /\ UNCHANGED <<prog, built>>
  BY ItemInTable DEF Going, SoundInv, LoopOK, Mkdir, At, of_run
<1>2. Known(Item) /\ Uid(Item) = user /\ ~Is_File(Item)
  BY <1>1, SpecialItems
<1>3. PICK n \in 0..Len(Item.dir), broken \in BOOLEAN :
        LET tree == Rmkdir(Item.dir, n, Item.perm)
            owned == /\ ~broken
                     /\ Item.dir \in DOMAIN tree
                     /\ May_Chown(tree[Item.dir], Uid(Item))
        IN  /\ fs' = IF owned THEN [tree EXCEPT ![Item.dir].owner = Uid(Item)]
                              ELSE tree
            /\ Ends(IF owned THEN "ok" ELSE "error", 0)
            /\ Fault(n < Len(Item.dir) \/ broken)
  BY DEF Mkdir
<1> DEFINE dir == Item.dir
           tree == Rmkdir(dir, n, Item.perm)
<1>4. ~(n < Len(dir)) /\ ~broken
  BY <1>3 DEF Fault, Going
<1>5. n = Len(dir)
  <2>1. dir \in Seq(STRING) /\ Len(dir) \in Nat
    BY <1>1, TableAssumption DEF TableAssumption
  <2> QED  BY <1>4, <2>1
<1>6. dir \in DOMAIN tree /\ tree[dir].type = "dir" /\ May(tree[dir])
  BY <1>1, <1>5, MkdirWorks DEF Going
<1>7. Is_Node(tree[dir])
  BY <1>1, <1>6, RmkdirOK DEF Going, SoundInv, WholeInv, TreeOK
<1>8. DOMAIN fs \subseteq DOMAIN tree /\ DOMAIN tree \subseteq DOMAIN fs \union Prefixes(dir)
  BY DEF Rmkdir
<1> HIDE DEF tree
<1>9. fs' = [tree EXCEPT ![dir].owner = user] /\ Ends("ok", 0)
  <2>1. May_Chown(tree[dir], user)
    BY <1>6 DEF May, May_Chown
  <2> QED  BY <1>2, <1>3, <1>4, <1>6, <2>1 DEF tree
<1>10. DOMAIN fs' = DOMAIN tree /\ fs'[dir] = [tree[dir] EXCEPT !.owner = user]
  BY <1>6, <1>9
<1>11. fs'[dir].type = "dir" /\ fs'[dir].owner = user
  BY <1>6, <1>7, <1>10 DEF Is_Node, Node
<1>12. user' = user
  BY DEF Mkdir, of_run
<1>13. \A t \in Temporaries : t \notin Prefixes(dir)
  BY <1>1, TableAssumption DEF TableAssumption, Ancestors
<1>14. PICK it : it = Item /\ it.dir = dir /\ ~Is_File(it)
  BY <1>2
<1> HIDE DEF dir
<1>15. Ready(it)' /\ Clean(it)'
  <2>1. it.dir \in DOMAIN fs' /\ fs'[it.dir].type = "dir" /\ fs'[it.dir].owner = user'
    BY <1>6, <1>10, <1>11, <1>12, <1>14
  <2> QED  BY <1>14, <2>1 DEF Ready, Clean, Is_Dir, May
<1>16. ~In_Work /\ pc # "idle" /\ "ok" # "error"
  BY <1>1 DEF In_Work
<1> QED
  <2>1. /\ \A t \in Temporaries \intersect DOMAIN fs' : t \in DOMAIN fs
        /\ \A item \in Items : Dst(item) \in DOMAIN fs => Dst(item) \in DOMAIN fs'
    BY <1>8, <1>10, <1>13
  <2> QED  BY <1>1, <1>9, <1>14, <1>15, <1>16, <2>1, RetryEnds DEF Going

\* Without a failure a link is made unless its name is taken.
LEMMA RetryLink ==
  ASSUME Going, Step, Link
  PROVE  Well'
<1>1. /\ Item \in Items /\ pc = "item" /\ Item.op = "symlink" /\ Item.op # "mkdir" /\ ~Is_File(Item)
      /\ UNCHANGED <<prog, built>> /\ pc # "idle" /\ ~In_Work
  BY ItemInTable, SpecialItems DEF Going, SoundInv, LoopOK, Link, At, of_run, In_Work
<1>2. Is_Dir(fs, Item.dir) /\ May_Enter(fs, Dst(Item))
  BY <1>1, MayWork DEF Going
<1> DEFINE dst == Dst(Item)
           can == ~dry /\ dst \notin DOMAIN fs /\ May_Enter(fs, dst)
<1>3. ~Fault(Is_Dir(fs, Item.dir))
  BY <1>2 DEF Fault, Going
<1>4. PICK made \in {FALSE, can}, back \in BOOLEAN :
        /\ fs' = IF made THEN With(fs, dst, Node("link", Item.src, 0, Bits, user)) ELSE fs
        /\ Ends(CASE ~back -> "fatal"
                  [] back /\ (made \/ dry) -> "ok"
                  [] OTHER -> "error", 0)
        /\ Fault(~back \/ (can /\ ~made))
  BY <1>3 DEF Link
<1>5. back /\ (made \/ ~can)
  BY <1>4 DEF Fault, Going
<1>6. ~dry
  BY DEF Going
<1>7. PICK it : it = Item /\ it.op = "symlink" /\ it.op # "mkdir" /\ ~Is_File(it)
  BY <1>1
<1>8. Ready(it)' /\ Clean(it)'
  BY <1>7 DEF Ready, Clean
<1>9. dst \notin Temporaries
  BY <1>1, LinkNames
<1>10. CASE made
  <2>1. Ends("ok", 0)
    <3>1. (CASE ~back -> "fatal"
             [] back /\ (made \/ dry) -> "ok"
             [] OTHER -> "error") = "ok"
      BY <1>5, <1>10, Zenon
    <3> QED  BY <1>4, <3>1
  <2>2. DOMAIN fs' = DOMAIN fs \union {dst}
    BY <1>4, <1>10 DEF With
  <2>3. "ok" # "error"
    OBVIOUS
  <2> HIDE DEF dst
  <2> QED  BY <1>1, <1>7, <1>8, <1>9, <2>1, <2>2, <2>3, RetryEnds DEF Going
<1>11. CASE ~made
  <2>1. Ends("error", 0)
    <3>1. (CASE ~back -> "fatal"
             [] back /\ (made \/ dry) -> "ok"
             [] OTHER -> "error") = "error"
      BY <1>5, <1>6, <1>11, Zenon
    <3> QED  BY <1>4, <3>1
  <2>2. fs' = fs
    BY <1>4, <1>11
  <2>3. dst \in DOMAIN fs
    BY <1>2, <1>5, <1>6, <1>11
  <2>4. Excused(it)
    BY <1>7, <2>3 DEF Excused
  <2>5. "ok" # "error"
    OBVIOUS
  <2> HIDE DEF dst
  <2> QED  BY <1>1, <1>7, <2>1, <2>2, <2>4, <2>5, RetryEnds DEF Going
<1> QED  BY <1>10, <1>11

\* A copy does what it can.
LEMMA RetryCopying ==
  ASSUME Going, NEW label, Copying(label), label # "idle"
  PROVE  /\ May_Enter(fs, tmp) /\ May_Enter(fs, Dst(Item)) /\ ~Is_Dir(fs, Dst(Item))
         /\ pc = label /\ Item.op # "mkdir" /\ UNCHANGED <<prog, built>>
<1>1. /\ Item \in Items /\ Is_File(Item) /\ Item.op # "mkdir"
      /\ pc # "idle" /\ pc = label /\ UNCHANGED <<prog, built>>
  BY CopyingIs, SpecialItems DEF Going, Copying, of_run
<1>2. May_Enter(fs, tmp) /\ May_Enter(fs, Dst(Item))
  BY <1>1, MayWork DEF Going
<1>3. ~Is_Dir(fs, Dst(Item))
  BY CopyingIs DEF Going, SoundInv, Sound, Is_Dir
<1> QED  BY <1>1, <1>2, <1>3

\* Without a failure the temporary file can be opened: so ERR is not reached with
\* a stream that is NULL.
LEMMA RetryOpen ==
  ASSUME Going, Step, Open_Destination_Fails
  PROVE  FALSE
<1>1. Copying("item")
  BY DEF Open_Destination_Fails
<1>2. May_Enter(fs, tmp) /\ ~Is_Dir(fs, tmp)
  BY <1>1, RetryCopying, CopyingIs DEF Going
<1> DEFINE left_over == tmp \in DOMAIN fs /\ (fs[tmp].owner # user \/ Write \notin fs[tmp].mode)
<1>3. ~left_over => Can_Write(tmp)
  BY <1>2 DEF Can_Write
<1>4. IF ~Can_Write(tmp) /\ left_over
      THEN faulted' = TRUE /\ UNCHANGED events
      ELSE Fault(Can_Write(tmp))
  BY DEF Open_Destination_Fails
<1> QED  BY <1>3, <1>4 DEF Fault, Going

\* The temporary file is the user's, or was his.
LEMMA RetryOpens ==
  ASSUME Going, Step, Open_Files
  PROVE  Well'
<1>1. Copying("item") /\ Goes_To("copy") /\ Can_Write(tmp)
  BY DEF Open_Files
<1>2. pc # "idle"
  BY <1>1 DEF Copying
<1>3. DOMAIN fs' = DOMAIN fs \union {tmp}
  BY DEF Open_Files, With
<1>4. fs'[tmp].owner = user \/ user = Root
  <2>1. CASE tmp \in DOMAIN fs
    <3>1. fs[tmp].owner = user \/ user = Root
      BY <1>1, <2>1 DEF Can_Write
    <3>2. Is_Node(fs[tmp])
      BY <2>1 DEF Going, SoundInv, WholeInv, TreeOK
    <3>3. fs'[tmp] = [fs[tmp] EXCEPT !.src = Item.src, !.version = 0]
      BY <2>1 DEF Open_Files
    <3>4. fs'[tmp].owner = fs[tmp].owner
      BY <3>2, <3>3 DEF Is_Node, Node
    <3> QED  BY <3>1, <3>4
  <2>2. CASE tmp \notin DOMAIN fs
    <3>1. fs'[tmp] = Node("file", Item.src, 0, Creat \ umask, user)
      BY <2>2 DEF Open_Files, With
    <3> QED  BY <3>1 DEF Node
  <2> QED  BY <2>1, <2>2
<1>5. "copy" \in {"copy", "attributes", "rename"}
  OBVIOUS
<1> QED  BY <1>1, <1>2, <1>3, <1>4, <1>5, RetryGoesOn DEF Going

\* Without a failure the contents are copied.
LEMMA RetryCopies ==
  ASSUME Going, Step, Copy_Data
  PROVE  Well'
<1>1. Copying("copy") /\ ~Fault(TRUE)
  BY DEF Copy_Data, Fault, Going
<1>2. pc = "copy" /\ pc # "idle"
  BY <1>1 DEF Copying
<1>3. fs' = [fs EXCEPT ![tmp].version = built[Item.src]] /\ Goes_To("attributes")
  BY <1>1 DEF Copy_Data
<1>4. tmp \in DOMAIN fs /\ Is_Node(fs[tmp])
  BY <1>2 DEF Going, SoundInv, WholeInv, TreeOK, CopyOK
<1>5. fs'[tmp].owner = user \/ user = Root
  <2>1. fs[tmp].owner = user \/ user = Root
    BY <1>2 DEF Going, Well, May
  <2>2. fs'[tmp] = [fs[tmp] EXCEPT !.version = built[Item.src]]
    BY <1>3, <1>4
  <2>3. fs'[tmp].owner = fs[tmp].owner
    BY <1>4, <2>2 DEF Is_Node, Node
  <2> QED  BY <2>1, <2>3
<1>6. DOMAIN fs' = DOMAIN fs \union {tmp}
  BY <1>3, <1>4
<1>7. "attributes" \in {"copy", "attributes", "rename"}
  OBVIOUS
<1> QED  BY <1>1, <1>2, <1>3, <1>5, <1>6, <1>7, RetryGoesOn DEF Going

\* A temporary file is no link.
LEMMA LinksApart ==
  ASSUME NEW t \in Temporaries, NEW item \in Items, item.op = "symlink"
  PROVE  Dst(item) # t
BY LinkNames

\* Only the change of the owner can be refused, and then the temporary file goes.
LEMMA RetrySets ==
  ASSUME Going, Step, Set_Attributes
  PROVE  Well'
<1>1. Copying("attributes")
  BY DEF Set_Attributes
<1>2. pc = "attributes" /\ pc # "idle" /\ In_Work
  BY <1>1 DEF Copying, In_Work
<1>3. CASE /\ fs' = [fs EXCEPT ![tmp].mode = Item.perm, ![tmp].owner = Uid(Item)]
           /\ Goes_To("rename")
  <2>1. tmp \in DOMAIN fs
    BY <1>2 DEF Going, SoundInv, WholeInv, CopyOK
  <2>2. DOMAIN fs' = DOMAIN fs \union {tmp}
    BY <1>3, <2>1
  <2>3. "rename" \in {"copy", "attributes", "rename"}
    OBVIOUS
  <2> QED  BY <1>1, <1>2, <1>3, <2>2, <2>3, RetryGoesOn DEF Going
<1>4. CASE Copy_Error /\ Fault(May_Chown(fs[tmp], Uid(Item)))
  <2>1. ~May_Chown(fs[tmp], Uid(Item))
    BY <1>4 DEF Fault, Going
  <2>2. May(fs[tmp])
    BY <1>2 DEF Going, Well
  <2>3. user # Root /\ Uid(Item) # user
    BY <2>1, <2>2 DEF May, May_Chown
  <2>4. May_Enter(fs, tmp) /\ Item.op # "mkdir" /\ UNCHANGED <<prog, built>>
    BY <1>1, RetryCopying
  <2>5. PICK it : it = Item /\ it.op # "mkdir" /\ Excused(it)
    BY <2>3, <2>4 DEF Excused
  <2>6. fs' = Without(fs, {tmp}) /\ Ends("error", 0)
    BY <1>4, <2>4 DEF Copy_Error
  <2>7. DOMAIN fs' = DOMAIN fs \ {tmp}
    BY <2>6 DEF Without, Restrict
  <2>8. tmp \in Temporaries
    BY <1>1, CopyingIs DEF Going
  <2>9. \A item \in Items : item.op = "symlink" /\ Dst(item) \in DOMAIN fs => Dst(item) \in DOMAIN fs'
    BY <2>7, <2>8, LinksApart
  <2>10. \A t \in Temporaries \intersect DOMAIN fs' : t \in DOMAIN fs /\ t # tmp
    BY <2>7
  <2>11. "error" # "ok" /\ "error" \in {"ok", "error"}
    OBVIOUS
  <2> QED  BY <1>2, <2>4, <2>5, <2>6, <2>9, <2>10, <2>11, RetryEnds DEF Going
<1> QED  BY <1>3, <1>4 DEF Set_Attributes

\* Without a failure the file is renamed, and the temporary name is gone.
LEMMA RetryRenames ==
  ASSUME Going, Step, Rename_Tmp
  PROVE  Well'
<1>1. Copying("rename")
  BY DEF Rename_Tmp
<1>2. pc = "rename" /\ pc # "idle"
  BY <1>1 DEF Copying
<1> DEFINE dst == Dst(Item)
           can == May_Enter(fs, dst) /\ ~Is_Dir(fs, dst)
<1>3. can /\ Item.op # "mkdir" /\ UNCHANGED <<prog, built>>
  BY <1>1, RetryCopying
<1>4. ~Fault(can)
  BY <1>3 DEF Fault, Going
<1>5. fs' = With(Without(fs, {tmp}), dst, fs[tmp]) /\ Ends("ok", 0)
  BY <1>4 DEF Rename_Tmp
<1>6. DOMAIN fs' = (DOMAIN fs \ {tmp}) \union {dst}
  BY <1>5 DEF With, Without, Restrict
<1>7. tmp \in Temporaries /\ dst \notin Temporaries /\ tmp = Tmp(dst)
  BY <1>1, CopyingIs, TableAssumption DEF Going, TableAssumption
<1>8. PICK it : it = Item /\ it.op # "mkdir"
  BY <1>3
<1> HIDE DEF dst, can
<1>9. Ready(it)' /\ Clean(it)'
  <2>1. Tmp(Dst(it)) = tmp
    BY <1>7, <1>8 DEF dst
  <2>2. Tmp(Dst(it)) \notin DOMAIN fs'
    BY <1>6, <1>7, <2>1
  <2> QED  BY <1>8, <2>2 DEF Ready, Clean
<1>10. \A item \in Items : item.op = "symlink" /\ Dst(item) \in DOMAIN fs => Dst(item) \in DOMAIN fs'
  BY <1>6, <1>7, LinksApart
<1>11. \A t \in Temporaries \intersect DOMAIN fs' : t \in DOMAIN fs /\ t # tmp
  BY <1>6, <1>7
<1>12. "ok" # "error" /\ "ok" \in {"ok", "error"}
  OBVIOUS
<1> QED  BY <1>2, <1>3, <1>5, <1>8, <1>9, <1>10, <1>11, <1>12, RetryEnds DEF Going

\* Every step of the installer.
LEMMA RetryItem ==
  ASSUME SoundInv, Open_Ways, RetryInv, prog = "installer", Step
  PROVE  RetryInv'
<1>1. pc # "idle" /\ UNCHANGED <<prog, dry>> /\ (faulted => faulted')
  <2>1. UNCHANGED of_run /\ \E label \in {"item", "copy", "attributes", "rename"} : pc = label
    BY DEF Step, Lookup_Fails, Dry_Run, Mkdir, Link, Open_Source_Fails, Open_Destination_Fails,
           Open_Files, Copy_Data, Set_Attributes, Rename_Tmp, Copying, Check, Remove_File,
           Remove_Directory, At
  <2>2. faulted => faulted'
    BY DEF Step, Lookup_Fails, Dry_Run, Mkdir, Link, Open_Source_Fails, Open_Destination_Fails,
           Open_Files, Copy_Data, Set_Attributes, Rename_Tmp, Check, Remove_File,
           Remove_Directory, Fault
  <2> QED  BY <2>1, <2>2 DEF of_run
<1> SUFFICES ASSUME ~dry, ~faulted, ~faulted', ~Locked, ~Locked' PROVE Well'
  BY <1>1, StaysLocked DEF RetryInv
<1>2. Going
  BY <1>1 DEF Going, RetryInv
<1>3. CASE Lookup_Fails \/ Open_Source_Fails
  <2>1. pc = "item"
    BY <1>3 DEF Lookup_Fails, Open_Source_Fails, Copying, At
  <2> QED  BY <1>2, <1>3, <2>1, RetryQuiet
<1>4. ~Dry_Run
  BY DEF Dry_Run
<1>5. CASE Check \/ Remove_File \/ Remove_Directory
  BY <1>5 DEF Check, Remove_File, Remove_Directory, At
<1> QED
  BY <1>2, <1>3, <1>4, <1>5, RetryMkdir, RetryLink, RetryOpen, RetryOpens, RetryCopies, RetrySets,
     RetryRenames DEF Step

\* Every step.
LEMMA RetryStep ==
  ASSUME SoundInv, Open_Ways, RetryInv, [Next]_vars
  PROVE  RetryInv'
<1>1. CASE Step
  <2>1. prog' = prog
    BY <1>1 DEF Step, Lookup_Fails, Dry_Run, Mkdir, Link, Open_Source_Fails, Open_Destination_Fails,
           Open_Files, Copy_Data, Set_Attributes, Rename_Tmp, Copying, Check, Remove_File,
           Remove_Directory, of_run
  <2> QED  BY <1>1, <2>1, RetryItem DEF RetryInv
<1>2. ASSUME NEW p, NEW u, NEW d, Start(p, u, d) PROVE RetryInv'
  <2> SUFFICES ASSUME ~faulted' PROVE Well'
    BY DEF RetryInv
  <2>1. pc = "idle" /\ pc' = "item" /\ errors' = {} /\ UNCHANGED install_failed
    BY <1>2 DEF Start
  <2>2. Passed' = {}
    BY <1>2, <2>1, PassedStart DEF SoundInv
  <2>3. install_failed = 0
    BY <2>1 DEF SoundInv, LoopOK
  <2> QED  BY <2>1, <2>2, <2>3 DEF Well
<1>3. CASE Kill
  BY <1>3 DEF Kill, Dies, Exits, RetryInv
<1>4. CASE \/ \E s \in Sources, v \in Version : Rebuild(s, v)
           \/ \E dir \in Directories : Add_Stranger(dir)
  BY <1>4 DEF Rebuild, Add_Stranger, Others_Change, RetryInv
<1>5. CASE UNCHANGED vars
  <2>1. Passed' = Passed /\ tmp' = tmp /\ In_Work' = In_Work
    BY <1>5 DEF vars, Passed, tmp, In_Work, Item, Position
  <2> QED
    BY <1>5, <2>1 DEF vars, RetryInv, Locked, May, Well, Excused, Known, Uid, Ready, Clean, Is_Dir
<1> QED  BY <1>1, <1>2, <1>3, <1>4, <1>5 DEF Next

\* The inductive invariant of the installer that is run again.
LEMMA RetryAlways == Spec => [](SoundInv /\ Open_Ways /\ RetryInv)
<1>1. Init => SoundInv /\ Open_Ways /\ RetryInv
  BY SoundInit, WaysInit DEF Init, RetryInv
<1>2. SoundInv /\ Open_Ways /\ RetryInv /\ [Next]_vars => (SoundInv /\ Open_Ways /\ RetryInv)'
  BY SoundStep, WaysStep, RetryStep
<1> QED  BY <1>1, <1>2, PTL DEF Spec

\* RetrySucceeds: to run the installer again repairs what can be repaired, and it
\* reports only what cannot (installer.c's loop over insthier, install_file_copy).
THEOREM Retries == Spec => []RetrySucceeds
<1>1. SoundInv /\ Open_Ways /\ RetryInv => RetrySucceeds
  <2> SUFFICES ASSUME SoundInv, RetryInv, prog = "installer", pc = "idle", ~dry, ~faulted, All_May,
                      exit # Killed
               PROVE  /\ exit = 0
                      /\ \A item \in errors : Excused(item)
                      /\ \A item \in Items \ errors : Clean(item)
    BY DEF RetrySucceeds, Excused, Clean
  <2>1. ~Locked /\ ~In_Work /\ Passed = Items
    BY DEF Locked, All_May, In_Work, Passed
  <2> QED  BY <2>1 DEF RetryInv, Well
<1> QED  BY <1>1, RetryAlways, PTL
=============================================================================

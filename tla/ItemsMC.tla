------------------------------ MODULE ItemsMC ------------------------------
(***************************************************************************)
(* Items for TLC: every table of one or two items of the kinds that the    *)
(* code tells apart, with library names that are read from files, names    *)
(* that are too long, a user that does not exist and an item left          *)
(* unfinished.                                                             *)
(***************************************************************************)
EXTENDS Items, TLC

Mode_755 == {"uw", "ox"}
Mode_444 == {}

An_Item(op, src, dst, dir, owner, group, perm) ==
  [op |-> op, src |-> src, dst |-> dst, dir |-> dir, owner |-> owner,
   group |-> group, perm |-> perm]

Vlb == <<"x", ".vlb">>
Lib == <<"/", "lib">>

Kinds == {
  An_Item("copy", Vlb, NULL, Lib, "", "", Mode_444),
  An_Item("copy", Vlb, <<"b">>, Lib, "", "", Mode_755),
  An_Item("copy", <<"src", "/", "a">>, NULL, Lib, "root", "bin", Mode_444),
  An_Item("copy_exec", <<"conf">>, <<"bin", "/", "b", "/", "/">>, Lib, "", "", Mode_755),
  An_Item("symlink", <<"a">>, <<"l">>, Lib, "", "", Mode_444),
  An_Item("liblink", Vlb, <<"s", "/", "l">>, Lib, "", "", Mode_755),
  An_Item("liblink", <<"s">>, <<"/", "l">>, Lib, "", "", Mode_755),
  An_Item("mkdir", NULL, NULL, Lib, "root", "", Mode_755),
  An_Item("mkdir", NULL, NULL, Lib, "nobody", "", Mode_755),
  An_Item("mkdir", NULL, NULL, Lib, "root", "nobody", Mode_755),
  An_Item("copy", <<"a">>, NULL, Lib \o Lib \o Lib \o Lib, "", "", Mode_444),
  An_Item("symlink", <<"a">>, NULL, Lib, "", "", Mode_444)}

One_Or_Two == {<<a>> : a \in Kinds} \union {<<a, b>> : a, b \in Kinds}

\* The second is cut to its first character.
Some_Suffixes == {<<>>, <<"so", "x">>}

Some_Libraries == {
  (Vlb :> <<"s", "/", "y", "\n">>),
  (Vlb :> <<>>),
  (Vlb :> <<"0", "1", "2", "3", "4", "5", "6", "7", "8", "9">>),
  [n \in {} |-> <<>>]}

\* Sources, and places that one item or another is checked at.
Sources == {<<"src", "/", "a">>, <<"s", "/", "y">>, <<"conf">>, <<"conf", ".exe">>}
Places == {
  In(Lib, <<"a">>), In(Lib, <<"y">>), In(Lib, <<"b">>), In(Lib, <<"b", ".exe">>),
  In(Lib, <<"l">>), In(Lib, <<"l", ".", "so">>), Lib}

File(type, size, mode, owner, group) ==
  [type |-> type, size |-> size, mode |-> mode, owner |-> owner, group |-> group]

Perm(place) ==
  IF place \in {In(Lib, <<"a">>), In(Lib, <<"y">>), In(Lib, <<"l">>)}
  THEN Mode_444 \union {"gw"} ELSE Mode_755

\* All is as it should be but for one thing, the same everywhere.
World(type, size, user, group) ==
  [p \in Sources \union Places |->
     IF p \in Sources THEN File("file", 1, Mode_755, user, group)
     ELSE File(IF p = Lib THEN "directory" ELSE type, size, Perm(p), user, group)]

Some_Worlds == {
  World("file", 1, "self", "self"),
  World("file", 1, "Administrator", "None"),
  World("file", 1, "root", "bin"),
  World("file", 1, "root", "None"),
  World("file", 1, "root", "self"),
  World("file", 2, "Administrator", "None"),
  World("file", 0, "root", "bin"),
  World("directory", 1, "Administrator", "None"),
  World("directory", 1, "self", "self"),
  [p \in Sources |-> File("file", 1, Mode_755, "self", "self")]}
=============================================================================

---------------------------- MODULE InstallerMC ----------------------------
(***************************************************************************)
(* Installer for TLC: a table with an item of each kind, of the modes that *)
(* insthier has, a directory within another, and a user that does not      *)
(* exist.                                                                  *)
(***************************************************************************)
EXTENDS Installer

\* The bits: owner may write, group may write, others may search and run.
All_Bits == {"uw", "gw", "ox"}
Mode_755 == {"uw", "ox"}
Mode_444 == {}
Creat_Mode == {"uw", "gw"}

Lib == <<"opt", "lib">>
Px == <<"opt", "lib", "px">>

An_Item(op, src, dst, dir, owner, perm) ==
  [op |-> op, src |-> src, dst |-> dst, dir |-> dir, owner |-> owner, perm |-> perm]

A_Table == <<
  An_Item("mkdir", <<>>, <<>>, Lib, "", Mode_755),
  An_Item("mkdir", <<>>, <<>>, Px, "", Mode_755),
  An_Item("copy", <<"src", "x.ali">>, <<>>, Px, "", Mode_444),
  An_Item("copy_exec", <<"conf">>, <<"bin", "x">>, Lib, "nobody", Mode_755),
  An_Item("symlink", <<"px", "x.ali">>, <<"l">>, Lib, "", Mode_444)>>

Own_Tree == (<<>> :> Node("dir", <<>>, 0, Mode_755, "user"))
System_Tree ==
  (<<>> :> Node("dir", <<>>, 0, Mode_755, "root")) @@
  (<<"opt">> :> Node("dir", <<>>, 0, Mode_755, "root")) @@
  (Lib :> Node("dir", <<>>, 0, All_Bits, "root"))
Some_Trees == {Own_Tree, System_Tree}

Some_Umasks == {{"gw"}, {"gw", "ox"}}
Sizes == [v \in 0..2 |-> v]
=============================================================================

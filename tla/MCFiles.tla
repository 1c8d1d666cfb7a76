------------------------------ MODULE MCFiles ------------------------------
(* Files with names that clean alike, a folder chosen twice, names with     *)
(* backslashes, and names that are refused.                                 *)
EXTENDS Files

(* A backslash is an ordinary character of a name on macOS. *)
PartsOf(name) ==
    CASE name = "a?/x"   -> <<"a?", "x">>
      [] name = "a?\\x"  -> <<"a?", "x">>
      [] name = "a_/..." -> <<"a_", "...">>
      [] name = ".\\a_"  -> <<"a_">>
      [] name = " "      -> <<>>
      [] OTHER           -> <<name>>

CleanComponent(c) == IF c = "a?" THEN "a_" ELSE IF c = "a*" THEN "a_" ELSE c

File(name) == [name |-> name, dir |-> FALSE]
Folder(name) == [name |-> name, dir |-> TRUE]

(* Two folders that clean alike against a file that is in their way; a      *)
(* folder with a file in it against a batch whose second name is refused;   *)
(* two folders of one name and a file whose name leads into them against a  *)
(* batch whose first name has nothing in it.                                *)
Selections ==
    { [b1 |-> <<Folder("a*"), Folder("a?"), File("a?/x")>>,
       b2 |-> <<File("a_")>>],
      [b1 |-> <<Folder("a?"), File("a?/x")>>,
       b2 |-> <<Folder("a_"), File("a_/...")>>],
      [b1 |-> <<File("a?"), Folder("a?"), File("a?\\x")>>,
       b2 |-> <<File(".\\a_")>>],
      [b1 |-> <<Folder("a?"), Folder("a?"), File("a?/x")>>,
       b2 |-> <<File(" ")>>] }
=============================================================================

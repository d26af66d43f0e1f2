---------------------------- MODULE MCEndSession ----------------------------
(* Instances of EndSession for TLC: where the program may run.              *)
EXTENDS EndSession

Lomiri == [program |-> FALSE, unity |-> TRUE, manager |-> TRUE]
Gnome == [program |-> FALSE, unity |-> FALSE, manager |-> TRUE]
Mate == [program |-> TRUE, unity |-> FALSE, manager |-> FALSE]

All == {Lomiri, Gnome, Mate}
OnlyLomiri == {Lomiri}
=============================================================================

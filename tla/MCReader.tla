------------------------------ MODULE MCReader ------------------------------
(***************************************************************************)
(* A command of two fields and one of none, told apart by mode: "aa" can   *)
(* be abbreviated, and both can be given a pipe for an argument, so that   *)
(* two keys make every kind of line.  '?' asks for help on a command line  *)
(* and is data in an answer.                                               *)
(***************************************************************************)
EXTENDS Reader

a == 97

Table == <<[command |-> <<a>>,    modes |-> {1}, fields |-> {1, 2}, callback |-> 1],
           [command |-> <<a, a>>, modes |-> {2}, fields |-> {}, callback |-> 2],
           [command |-> <<a, a>>, modes |-> {3}, fields |-> {}, callback |-> 2]>>

MCRoot == FoldLeft(TrieAdd, [x \in {} |-> NoCommand], Table)
MCModes == {{1}, {2}}
MCCodepoints == {<<a>>, <<SP>>, <<PIPE>>, <<QM>>}
FewCodepoints == {<<a>>}
=============================================================================

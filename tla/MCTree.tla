------------------------------- MODULE MCTree -------------------------------
(***************************************************************************)
(* Tables of up to three entries from a menu that has commands of one and  *)
(* two words, commands that are prefixes of others with and without a      *)
(* space, commands given once per mode, a command of no mode, and entries  *)
(* whose modes overlap another's or whose callback is not the other's.     *)
(***************************************************************************)
EXTENDS TreeSearch

a == 97
b == 98

Entry(c, m) == [command |-> c, modes |-> m, fields |-> {}, callback |-> 1]

Menu == {
  [Entry(<<b, b>>, {3}) EXCEPT !.callback = 2],
  Entry(<<a>>, {1}),          Entry(<<a>>, {2}),       Entry(<<a, b>>, {1, 2}),
  Entry(<<a, SP, b>>, {1}),   Entry(<<b, a>>, {1}),    Entry(<<b, a>>, {2}),
  Entry(<<b, a, SP, a>>, {}), Entry(<<b, b>>, {1, 2}), Entry(<<b, b>>, {2})}

MCTables ==
  {t \in UNION {[1..n -> Menu] : n \in 0..3} :
     \A j, k \in DOMAIN t : t[j] = t[k] => j = k}

MCModes == {{1}, {2}, {}}
MCLines == UNION {[1..n -> {a, b, SP}] : n \in 1..4}

\* The menu's names are what the header says names are, and cl_visible() is
\* what it says visible() is.
ASSUME NamesAreWords /\ NamesCanBeTyped /\ VisibleByParts /\ VisibleTogether
=============================================================================

-------------------------------- MODULE Trie --------------------------------
(***************************************************************************)
(* The trie of src/trie.c.  A node is named by the bytes on the edges from *)
(* the root to it, so a trie is a function from the paths it has nodes for *)
(* to what each node's "command" member holds.  The empty function is a    *)
(* NULL root.  Modes and fields are sets of bits, a callback is a number.  *)
(***************************************************************************)
EXTENDS Bytes, FiniteSets, SequencesExt

CONSTANT visible(_, _)   \* tree->visible(p, mode, modes)

NoNode == NoText         \* a NULL struct trie pointer: no path, see Bytes
NoCommand == [command |-> NoText, modes |-> {}, fields |-> {}, callback |-> 0]

\* cl_visible(): the callback an application may pass as tree->visible.
ClVisible(mode, modes) ==
  IF mode = {} THEN modes = {} ELSE modes \cap mode # {}

\* Mutant of TrieAdd: an entry replaces what an earlier one left at its node.
TrieAdd_Replace(trie, entry) ==
  [x \in DOMAIN trie \cup Prefixes(entry.command) |->
     IF x = entry.command THEN entry
     ELSE IF x \in DOMAIN trie THEN trie[x] ELSE NoCommand]

(***************************************************************************)
(* trie_add(): the nodes missing along the way are made, and the command   *)
(* is merged into the one at the end.                                      *)
(***************************************************************************)
TrieAdd(trie, entry) ==
  [x \in DOMAIN trie \cup Prefixes(entry.command) |->
     LET old == IF x \in DOMAIN trie THEN trie[x] ELSE NoCommand IN
     IF x # entry.command THEN old
     ELSE [command  |-> entry.command,
           modes    |-> old.modes \cup entry.modes,
           fields   |-> IF old = NoCommand THEN entry.fields ELSE old.fields,
           callback |-> IF old = NoCommand THEN entry.callback ELSE old.callback]]

\* The bytes that trie_add() asserts, as it recurses, not to be next in a name.
NotInNames == {HT, VT, FF, CR, LF}

\* The asserts of trie_add(): on the bytes of the name, and on an entry whose
\* node has been given a command already.
TrieAddAsserts(trie, entry) ==
  /\ ToSet(entry.command) \cap NotInNames = {}
  /\ entry.command \in DOMAIN trie /\ trie[entry.command] # NoCommand =>
       /\ trie[entry.command].modes \cap entry.modes = {}
       /\ trie[entry.command].callback = entry.callback
       /\ trie[entry.command].fields = entry.fields

\* trie_walk(): follow one edge per byte of s.
TrieWalk(trie, node, s) ==
  IF node \o s \in DOMAIN trie THEN node \o s ELSE NoNode

-----------------------------------------------------------------------------
(***************************************************************************)
(* trie_next() visits the nodes below "node" in byte order and returns the *)
(* first visible command it meets after *prev (any, if *prev is NULL), but *)
(* an edge labelled with a space ends the search at the node it leads to,  *)
(* whatever *prev is and whether or not anything below is visible.  Byte   *)
(* order on the edges, a node before its children, is the lexicographic    *)
(* order on paths.                                                         *)
(***************************************************************************)
Precedes(x, y) ==
  \/ IsStrictPrefix(x, y)
  \/ \E k \in 1 .. Len(x) :
       /\ k <= Len(y) /\ x[k] < y[k]
       /\ \A j \in 1 .. k-1 : x[j] = y[j]

First(paths) ==
  IF paths = {} THEN NoNode
  ELSE CHOOSE x \in paths : \A y \in paths \ {x} : Precedes(x, y)

Below(trie, node) == {x \in DOMAIN trie : IsPrefix(node, x)}
Label(node, x) == SubSeq(x, Len(node) + 1, Len(x))

VisibleCommand(trie, x, mode) ==
  trie[x] # NoCommand /\ visible(mode, trie[x].modes)

\* The nodes below "node" that end a word of it, with no space on the way.
WordEnds(trie, node) ==
  {x \in Below(trie, node) : LET l == Label(node, x) IN
     l # <<>> /\ Last(l) = SP /\ SP \notin ToSet(Front(l))}

\* The commands below "node" the search can return.
WordCommands(trie, node, mode) ==
  {x \in Below(trie, node) :
     SP \notin ToSet(Label(node, x)) /\ VisibleCommand(trie, x, mode)}

\* Those that come after prev, if the search meets it at all.
Following(cmds, prev) ==
  IF prev = NoNode THEN cmds ELSE {x \in cmds : prev \in cmds /\ Precedes(prev, x)}

TrieNext(trie, node, mode, prev) ==
  First(Following(WordCommands(trie, node, mode), prev) \cup WordEnds(trie, node))

\* trie_cycle(): search on from prev, then once more from the beginning.
TrieCycle(trie, node, mode, prev) ==
  LET orFrom(next, first) == IF next # NoNode THEN next ELSE first
  IN orFrom(TrieNext(trie, node, mode, prev), TrieNext(trie, node, mode, NoNode))

\* Mutant of TrieRun: the first match is taken, with no second look.
TrieRun_FirstMatch(trie, node, mode) == TrieCycle(trie, node, mode, NoNode)

\* trie_run(): what a word that has led to "node" stands for.
TrieRun(trie, node, mode) ==
  LET only(found) ==
        IF \/ found = NoNode
           \/ trie[found] # NoCommand /\ found # TrieCycle(trie, found, mode, found)
        THEN NoNode ELSE found
  IN only(TrieCycle(trie, node, mode, NoNode))
=============================================================================

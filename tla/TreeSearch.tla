----------------------------- MODULE TreeSearch -----------------------------
(***************************************************************************)
(* The recursive searches of src/trie.c, edge by edge as the code performs *)
(* them, and what the user can rely on once the tree is built: which names *)
(* can be typed, what an abbreviation stands for and what help lists.      *)
(***************************************************************************)
EXTENDS Tree

CONSTANTS
  Modes,   \* the values a peer's mode takes
  Lines    \* the lines typed

ASSUME LinesAreText == Lines \subseteq Text

\* The bytes on the edges of a node.
Edges(trie, node) == {Last(x) : x \in {y \in DOMAIN trie : y # <<>> /\ Front(y) = node}}

\* What *prev can point at.
Cursors(trie) == DOMAIN trie \cup {NoNode}

\* Mutant of EdgeLoop: *prev is for each edge what it was before the loop.
EdgeLoop_KeepPrev(trie, node, called) ==
  LET from[b \in 0 .. 256] == [prev \in Cursors(trie) |->
        LET more == {c \in DOMAIN called : c >= b}
            goOn(e, found) ==
              IF e = SP THEN [next |-> Append(node, e), prev |-> prev]
              ELSE IF found.next # NoNode THEN found
              ELSE from[e + 1][prev]
        IN IF more = {} THEN [next |-> NoNode, prev |-> prev]
           ELSE goOn(Min(more), called[Min(more)][prev])]
  IN from[0]

(***************************************************************************)
(* The loop of trie_next() over the edges of a node, in the order of their *)
(* bytes; called[b][prev] is what the call on the node at edge b returns,  *)
(* and what it leaves in *prev.                                            *)
(***************************************************************************)
EdgeLoop(trie, node, called) ==
  LET from[b \in 0 .. 256] == [prev \in Cursors(trie) |->
        LET more == {c \in DOMAIN called : c >= b}
            goOn(e, found) ==
              IF e = SP THEN [next |-> Append(node, e), prev |-> prev]
              ELSE IF found.next # NoNode THEN found
              ELSE from[e + 1][found.prev]
        IN IF more = {} THEN [next |-> NoNode, prev |-> prev]
           ELSE goOn(Min(more), called[Min(more)][prev])]
  IN from[0]

(***************************************************************************)
(* trie_next(), for each node and each *prev, with *prev after the call as *)
(* part of the result: it is reset to NULL when the search meets it and    *)
(* lives on in the callers.                                                *)
(***************************************************************************)
NextCall(trie, node, mode, called) ==
  [prev \in Cursors(trie) |->
     IF VisibleCommand(trie, node, mode) /\ prev = NoNode
     THEN [next |-> node, prev |-> prev]
     ELSE LET met == VisibleCommand(trie, node, mode) /\ prev = node IN
          EdgeLoop(trie, node, called)[IF met THEN NoNode ELSE prev]]

trie_next(trie, mode) ==
  LET next[node \in DOMAIN trie] ==
        NextCall(trie, node, mode,
                 [b \in Edges(trie, node) |-> next[Append(node, b)]])
  IN next

\* Mutant of Usages: the modes of the node are tested, not the entry's own.
Usages_NodeModes(trie, node, mode) ==
  LET upto[k \in 0 .. Len(commands)] ==
        IF k = 0 THEN <<>>
        ELSE IF /\ commands[k].command = trie[node].command
                /\ visible(mode, trie[node].modes)
        THEN Append(upto[k - 1], k) ELSE upto[k - 1]
  IN IF trie[node] = NoCommand THEN <<>> ELSE upto[Len(commands)]

\* trie_help()'s loop over tree->commands: the entries printed for one node.
Usages(trie, node, mode) ==
  LET upto[k \in 0 .. Len(commands)] ==
        IF k = 0 THEN <<>>
        ELSE IF /\ commands[k].command = trie[node].command
                /\ visible(mode, commands[k].modes)
        THEN Append(upto[k - 1], k) ELSE upto[k - 1]
  IN IF trie[node] = NoCommand THEN <<>> ELSE upto[Len(commands)]

\* What is printed for each edge, in the order of the edges.
InOrder(printed) ==
  LET from[b \in 0 .. 256] ==
        LET more == {c \in DOMAIN printed : c >= b} IN
        IF more = {} THEN <<>> ELSE printed[Min(more)] \o from[Min(more) + 1]
  IN from[0]

\* trie_help(): the entries of tree->commands printed for each node, in order.
trie_help(trie, mode) ==
  LET help[node \in DOMAIN trie] ==
        Usages(trie, node, mode)
          \o InOrder([b \in Edges(trie, node) |-> help[Append(node, b)]])
  IN help

-----------------------------------------------------------------------------
Built == result = "tree" /\ root # [x \in {} |-> NoCommand]

\* The entries whose own modes make them visible.
Shown(mode) == {k \in 1 .. Len(commands) : visible(mode, commands[k].modes)}

(***************************************************************************)
(* The recursion returns the first candidate in lexicographic order, from  *)
(* every node and after every prev: the definition the rest of the model   *)
(* uses.  A prev below a word's end, or invisible in this mode, is where a *)
(* depth-first search with one shared cursor could go wrong.               *)
(***************************************************************************)
SearchIsLexicographic ==
  Built => \A node \in DOMAIN root, mode \in Modes, prev \in DOMAIN root \cup {NoNode} :
    trie_next(root, mode)[node][prev].next = TrieNext(root, node, mode, prev)

(***************************************************************************)
(* cl_help() lists every entry that is visible in the mode, each once, and *)
(* no other: the usages of a command given twice are told apart by mode.   *)
(***************************************************************************)
HelpIsExact ==
  Built => \A mode \in Modes :
    LET printed == trie_help(root, mode)[<<>>] IN
    ToSet(printed) = Shown(mode) /\ Len(printed) = Cardinality(Shown(mode))

(***************************************************************************)
(* What the header says of a command's name: words with one space between  *)
(* two, and none at the ends.  A word has no control characters, nor a     *)
(* byte that the lexer would end it at, so that it can be typed.           *)
(***************************************************************************)
NamesAreWords ==
  \A e \in Entries :
    /\ \A k \in 1 .. Len(e.command) : e.command[k] >= SP
    /\ Last(e.command) # SP

NamesCanBeTyped ==
  \A e \in Entries :
    /\ ToSet(e.command) \cap {SQ, DQ, PIPE} = {}
    /\ Head(e.command) # SP
    /\ \A k \in 1 .. Len(e.command) - 1 : e.command[k] = SP => e.command[k + 1] # SP

(***************************************************************************)
(* What it says of visible(), whether a mode is among those of a mask: if  *)
(* it is among those of all entries of a command together, then of one of  *)
(* them; and the other way round, which cl_visible() is only true to when  *)
(* no command has an entry with modes 0 besides others.                    *)
(***************************************************************************)
Same(table, k) == {j \in 1 .. Len(table) : table[j].command = table[k].command}

VisibleMerged(table, k, mode) == visible(mode, UNION {table[j].modes : j \in Same(table, k)})

VisibleByParts ==
  \A table \in Tables, mode \in Modes : \A k \in 1 .. Len(table) :
    VisibleMerged(table, k, mode) => \E j \in Same(table, k) : visible(mode, table[j].modes)

VisibleTogether ==
  \A table \in Tables, mode \in Modes : \A k \in 1 .. Len(table) :
    visible(mode, table[k].modes) => VisibleMerged(table, k, mode)

\* What keeps the name of entry k from being understood when typed in full: a
\* visible command where one of its words ends, a visible command that has it
\* as a proper prefix, or any command that goes on from it with a space.
Shadowed(k, mode) ==
  LET name == commands[k].command IN
  \/ \E j \in Shown(mode) : IsPrefix(commands[j].command \o <<SP>>, name)
  \/ \E j \in 1 .. Len(commands) :
       /\ IsStrictPrefix(name, commands[j].command)
       /\ j \in Shown(mode) \/ SP \in ToSet(Label(name, commands[j].command))

(***************************************************************************)
(* A visible command whose name is typed in full runs, with no argument,   *)
(* unless another command shadows it; then it cannot be run at all.        *)
(***************************************************************************)
FullNameRuns ==
  Built => \A mode \in Modes : \A k \in Shown(mode) :
    LET name == commands[k].command
        parsed == ParseCommand(root, mode, name)
    IN parsed.ok /\ parsed.t = name /\ parsed.args = 0 <=> ~Shadowed(k, mode)

(***************************************************************************)
(* Asking for help in the middle of a line never hides the command that    *)
(* pressing return would run: edit_walk() and parsecommand() go down the   *)
(* trie each in its own way, the one without abbreviations, but the node   *)
(* the one stops at is never past the command the other finds.             *)
(***************************************************************************)
HelpListsWhatRuns ==
  Built => \A mode \in Modes, line \in Lines :
    LET parsed == ParseCommand(root, mode, line) IN
    parsed.ok =>
      \E k \in ToSet(trie_help(root, mode)[EditWalk(root, line)]) :
        commands[k].command = parsed.t
=============================================================================

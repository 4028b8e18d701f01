-------------------------------- MODULE Tree --------------------------------
(***************************************************************************)
(* cl_create() of src/cl.c: the command table of an application is added   *)
(* to the trie entry by entry.  An entry may come again with other modes,  *)
(* which is how a command gets a usage text per mode.                      *)
(***************************************************************************)
EXTENDS Command

CONSTANTS
  Tables   \* the command tables given to cl_create(): sequences of entries

Entries == UNION {ToSet(table) : table \in Tables}

ASSUME TablesAreTables ==
  \A table \in Tables :
    /\ table \in Seq(Entries)
    /\ \A k \in 1 .. Len(table) :
         table[k].command \in Text /\ table[k].command # <<>>

VARIABLES
  commands,   \* tree->commands
  i,          \* how many of them have been added
  root,       \* tree->root
  result      \* "building", then "tree", "null", or "aborted" by an assert

vars == <<commands, i, root, result>>

Init ==
  /\ commands \in Tables
  /\ i = 0
  /\ root = [x \in {} |-> NoCommand]
  /\ result = "building"

Add ==
  /\ result = "building" /\ i < Len(commands)
  /\ TrieAddAsserts(root, commands[i + 1])
  /\ i' = i + 1
  /\ root' = TrieAdd(root, commands[i + 1])
  /\ UNCHANGED <<commands, result>>

\* malloc() returns NULL for a node or for the command, unless an assert on a
\* byte of the name up to there has failed before: so does cl_create().  What has
\* been built is never seen again.
AddFails ==
  /\ result = "building" /\ i < Len(commands)
  /\ \E path \in Prefixes(commands[i + 1].command) :
       /\ path \in DOMAIN root => path = commands[i + 1].command /\ root[path] = NoCommand
       /\ \A k \in 1 .. Len(commands[i + 1].command) :
            k <= Len(path) + 1 => commands[i + 1].command[k] \notin NotInNames
  /\ result' = "null"
  /\ UNCHANGED <<commands, i, root>>

AddAborts ==
  /\ result = "building" /\ i < Len(commands)
  /\ ~TrieAddAsserts(root, commands[i + 1])
  /\ result' = "aborted"
  /\ UNCHANGED <<commands, i, root>>

Return ==
  /\ result = "building" /\ i = Len(commands)
  /\ result' = "tree"
  /\ UNCHANGED <<commands, i, root>>

Next == Add \/ AddFails \/ AddAborts \/ Return

Spec == Init /\ [][Next]_vars

-----------------------------------------------------------------------------
\* What the first n entries of the table say of the command c.
Given(n, c) == {k \in 1 .. n : commands[k].command = c}
ModesGiven(n, c) == UNION {commands[k].modes : k \in Given(n, c)}
PathsGiven(n) == UNION {Prefixes(commands[k].command) : k \in 1 .. n}

(***************************************************************************)
(* The trie is the table, whatever the order of its entries: it has the    *)
(* paths of the commands and no others, a command sits at the end of its   *)
(* path and nowhere else, its modes are those of all its entries together  *)
(* and every entry agrees with it about the fields and the callback.       *)
(***************************************************************************)
TrieMatchesTable ==
  /\ DOMAIN root = PathsGiven(i)
  /\ \A x \in DOMAIN root :
       IF Given(i, x) = {} THEN root[x] = NoCommand
       ELSE /\ root[x].command = x
            /\ root[x].modes = ModesGiven(i, x)
            /\ \A k \in Given(i, x) :
                 /\ commands[k].fields = root[x].fields
                 /\ commands[k].callback = root[x].callback
=============================================================================

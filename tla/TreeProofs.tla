----------------------------- MODULE TreeProofs -----------------------------
(***************************************************************************)
(* Proofs about cl_create() and the searches of its trie, for every set of *)
(* command tables.                                                         *)
(***************************************************************************)
EXTENDS TreeSearch, LexerProofs, FiniteSetTheorems

TreeInv ==
  /\ commands \in Tables
  /\ i \in 0 .. Len(commands)
  /\ TrieMatchesTable

\* A table is a sequence of entries with names that no sentinel equals.
LEMMA TableType ==
  ASSUME NEW table \in Tables
  PROVE  /\ Len(table) \in Nat /\ DOMAIN table = 1 .. Len(table)
         /\ \A k \in 1 .. Len(table) :
              /\ table[k].command \in Seq(Byte \ {NUL})
              /\ table[k].command # NoText
<1>1. table \in Seq(Entries)
  BY TablesAreTables
<1>2. ASSUME NEW k \in 1 .. Len(table)
      PROVE  table[k].command \in Seq(Byte \ {NUL}) /\ table[k].command # NoText
  <2>1. table[k].command \in Seq(Byte \ {NUL})
    BY TablesAreTables DEF Text, NUL
  <2>2. NoText \notin Seq(Byte \ {NUL})
    BY DEF NoText
  <2>3. QED
    BY <2>1, <2>2
<1>3. QED
  BY <1>1, <1>2

\* Every path is one of its own prefixes.
LEMMA PrefixOfItself ==
  ASSUME NEW S, NEW s \in Seq(S)
  PROVE  s \in Prefixes(s)
<1>1. s = SubSeq(s, 1, Len(s)) /\ Len(s) \in 0 .. Len(s)
  OBVIOUS
<1>2. QED
  BY <1>1 DEF Prefixes

\* What adding one more entry does to the closed forms.
LEMMA GivenNext ==
  ASSUME TreeInv, i < Len(commands)
  PROVE  LET e == commands[i + 1] IN
         /\ PathsGiven(i + 1) = PathsGiven(i) \cup Prefixes(e.command)
         /\ \A x : x # e.command => Given(i + 1, x) = Given(i, x)
         /\ Given(i + 1, e.command) = Given(i, e.command) \cup {i + 1}
         /\ ModesGiven(i + 1, e.command) = ModesGiven(i, e.command) \cup e.modes
<1> DEFINE e == commands[i + 1]
<1>1. i \in Nat /\ 1 .. i + 1 = (1 .. i) \cup {i + 1}
  BY TableType DEF TreeInv
<1>2. PathsGiven(i + 1) = PathsGiven(i) \cup Prefixes(e.command)
  <2>1. {Prefixes(commands[k].command) : k \in 1 .. i + 1}
          = {Prefixes(commands[k].command) : k \in 1 .. i} \cup {Prefixes(e.command)}
    BY <1>1
  <2>2. QED
    BY <2>1 DEF PathsGiven
<1>3. \A x : x # e.command => Given(i + 1, x) = Given(i, x)
  BY <1>1 DEF Given
<1>4. Given(i + 1, e.command) = Given(i, e.command) \cup {i + 1}
  BY <1>1 DEF Given
<1>5. ModesGiven(i + 1, e.command) = ModesGiven(i, e.command) \cup e.modes
  <2>1. {commands[k].modes : k \in Given(i + 1, e.command)}
          = {commands[k].modes : k \in Given(i, e.command)} \cup {e.modes}
    BY <1>4
  <2>2. QED
    BY <2>1 DEF ModesGiven
<1>6. QED
  BY <1>2, <1>3, <1>4, <1>5

\* A path that no entry has led to yet belongs to no entry.
LEMMA NotGiven ==
  ASSUME TreeInv, NEW x, x \notin DOMAIN root
  PROVE  Given(i, x) = {}
<1>1. ASSUME NEW k \in Given(i, x) PROVE FALSE
  <2>1. k \in 1 .. Len(commands) /\ k \in 1 .. i /\ commands[k].command = x
    BY <1>1, TableType DEF TreeInv, Given
  <2>2. x \in Prefixes(commands[k].command)
    BY <2>1, TableType, PrefixOfItself DEF TreeInv
  <2>3. x \in PathsGiven(i)
    BY <2>1, <2>2 DEF PathsGiven
  <2>4. QED
    BY <2>3 DEF TreeInv, TrieMatchesTable
<1>2. QED
  BY <1>1

\* What one node holds, in terms of the first n entries.
NodeMatches(node, n, x) ==
  IF Given(n, x) = {} THEN node = NoCommand
  ELSE /\ node.command = x
       /\ node.modes = ModesGiven(n, x)
       /\ \A k \in Given(n, x) :
            commands[k].fields = node.fields /\ commands[k].callback = node.callback

\* trie_add() of the next entry of the table.
LEMMA AddKeeps ==
  ASSUME TreeInv, Add
  PROVE  TreeInv'
<1> DEFINE e == commands[i + 1]
           old(x) == IF x \in DOMAIN root THEN root[x] ELSE NoCommand
<1>1. /\ i < Len(commands) /\ i' = i + 1 /\ commands' = commands
      /\ root' = TrieAdd(root, e) /\ TrieAddAsserts(root, e)
  BY DEF Add
<1>2. i + 1 \in 1 .. Len(commands)
  BY <1>1, TableType DEF TreeInv
<1>3. /\ DOMAIN root' = DOMAIN root \cup Prefixes(e.command)
      /\ \A x \in DOMAIN root' :
           root'[x] = IF x # e.command THEN old(x)
                      ELSE [command  |-> e.command,
                            modes    |-> old(x).modes \cup e.modes,
                            fields   |-> IF old(x) = NoCommand THEN e.fields
                                         ELSE old(x).fields,
                            callback |-> IF old(x) = NoCommand THEN e.callback
                                         ELSE old(x).callback]
  BY <1>1 DEF TrieAdd
<1>4. DOMAIN root' = PathsGiven(i + 1)
  BY <1>1, <1>3, GivenNext DEF TreeInv, TrieMatchesTable
<1>5. \A x : NodeMatches(old(x), i, x)
  BY NotGiven DEF TreeInv, TrieMatchesTable, NodeMatches
<1>6. ASSUME NEW x \in DOMAIN root' PROVE NodeMatches(root'[x], i + 1, x)
  <2>1. CASE x # e.command
    <3>1. Given(i + 1, x) = Given(i, x) /\ root'[x] = old(x)
      BY <1>1, <1>3, <2>1, GivenNext
    <3>2. QED
      BY <1>5, <3>1 DEF NodeMatches, ModesGiven
  <2>2. CASE x = e.command
    <3>1. /\ Given(i + 1, x) = Given(i, x) \cup {i + 1}
          /\ ModesGiven(i + 1, x) = ModesGiven(i, x) \cup e.modes
      BY <1>1, <2>2, GivenNext
    <3>2. /\ root'[x].command = x
          /\ root'[x].modes = old(x).modes \cup e.modes
          /\ root'[x].fields = IF old(x) = NoCommand THEN e.fields ELSE old(x).fields
          /\ root'[x].callback = IF old(x) = NoCommand THEN e.callback ELSE old(x).callback
      <4>1. root'[x] = [command  |-> e.command,
                        modes    |-> old(x).modes \cup e.modes,
                        fields   |-> IF old(x) = NoCommand THEN e.fields
                                     ELSE old(x).fields,
                        callback |-> IF old(x) = NoCommand THEN e.callback
                                     ELSE old(x).callback]
        BY <1>3, <2>2
      <4> HIDE DEF old
      <4>2. QED
        BY <2>2, <4>1
    <3>3. CASE Given(i, x) = {}
      <4>1. old(x) = NoCommand /\ old(x).modes = {} /\ ModesGiven(i, x) = {}
        BY <1>5, <3>3 DEF NodeMatches, NoCommand, ModesGiven
      <4>2. QED
        BY <3>1, <3>2, <3>3, <4>1 DEF NodeMatches
    <3>4. CASE Given(i, x) # {}
      <4>1. /\ old(x).command = x /\ old(x).modes = ModesGiven(i, x)
            /\ \A k \in Given(i, x) :
                 commands[k].fields = old(x).fields /\ commands[k].callback = old(x).callback
        BY <1>5, <3>4 DEF NodeMatches
      <4>2. x # NoText
        BY <1>2, <2>2, TableType DEF TreeInv
      <4>3. old(x) # NoCommand
        BY <4>1, <4>2 DEF NoCommand
      <4>4. x \in DOMAIN root /\ old(x).fields = e.fields /\ old(x).callback = e.callback
        BY <1>1, <2>2, <4>3 DEF TrieAddAsserts
      <4>5. QED
        BY <3>1, <3>2, <4>1, <4>3, <4>4 DEF NodeMatches
    <3>5. QED
      BY <3>3, <3>4
  <2>3. QED
    BY <2>1, <2>2
<1>7. TrieMatchesTable'
  BY <1>1, <1>4, <1>6 DEF TrieMatchesTable, NodeMatches, Given, ModesGiven, PathsGiven
<1>8. QED
  BY <1>1, <1>2, <1>7, TableType DEF TreeInv

LEMMA InitMatches == Init => TreeInv
<1>1. ASSUME Init PROVE TreeInv
  <2>1. commands \in Tables /\ i = 0 /\ DOMAIN root = {} /\ Len(commands) \in Nat
    BY <1>1, TableType DEF Init
  <2>2. PathsGiven(0) = {}
    BY DEF PathsGiven
  <2>3. QED
    BY <2>1, <2>2 DEF TreeInv, TrieMatchesTable
<1>2. QED
  BY <1>1

LEMMA TreeInvariant == Spec => []TreeInv
<1>1. TreeInv /\ [Next]_vars => TreeInv'
  <2>1. ASSUME TreeInv, UNCHANGED <<commands, i, root>> PROVE TreeInv'
    BY <2>1 DEF TreeInv, TrieMatchesTable, Given, ModesGiven, PathsGiven
  <2>2. QED
    BY <2>1, AddKeeps DEF Next, AddFails, AddAborts, Return, vars
<1>2. QED
  BY <1>1, InitMatches, PTL DEF Spec

(***************************************************************************)
(* For every table, in whatever order and with whatever repetitions, the   *)
(* trie that cl_create() builds is the table.                              *)
(***************************************************************************)
THEOREM TreeMatchesTable == Spec => []TrieMatchesTable
<1>1. TreeInv => TrieMatchesTable
  BY DEF TreeInv
<1>2. QED
  BY <1>1, TreeInvariant, PTL

-----------------------------------------------------------------------------
\* The shape of a trie: paths with all that leads to them, of bounded length.
IsTrie(trie) ==
  /\ DOMAIN trie \subseteq Text
  /\ \A x \in DOMAIN trie : Prefixes(x) \subseteq DOMAIN trie
  /\ \E d \in Nat : \A x \in DOMAIN trie : Len(x) <= d

LEMMA PrefixIs ==
  ASSUME NEW x \in Text, NEW y \in Text
  PROVE  IsPrefix(x, y) <=> Len(x) <= Len(y) /\ \A j \in 1 .. Len(x) : x[j] = y[j]
<1>1. Len(x) \in Nat /\ Len(y) \in Nat
  BY DEF Text
<1>2. SubSeq(x, 1, Len(x)) = x
  BY DEF Text
<1>3. CASE Len(x) <= Len(y)
  <2>1. /\ SubSeq(y, 1, Len(x)) \in Text
        /\ Len(SubSeq(y, 1, Len(x))) = Len(x)
        /\ \A j \in 1 .. Len(x) : SubSeq(y, 1, Len(x))[j] = y[j]
    BY <1>1, <1>3 DEF Text
  <2>2. x = SubSeq(y, 1, Len(x)) <=> \A j \in 1 .. Len(x) : x[j] = SubSeq(y, 1, Len(x))[j]
    BY <2>1, SeqEqual DEF Text
  <2>3. QED
    BY <1>2, <1>3, <2>1, <2>2 DEF IsPrefix
<1>4. QED
  BY <1>3 DEF IsPrefix

\* One step down from a node.
LEMMA AppendIs ==
  ASSUME NEW node \in Text, NEW c \in Byte \ {NUL}
  PROVE  /\ Append(node, c) \in Text
         /\ Len(Append(node, c)) = Len(node) + 1
         /\ Append(node, c)[Len(node) + 1] = c
         /\ \A j \in 1 .. Len(node) : Append(node, c)[j] = node[j]
         /\ IsPrefix(node, Append(node, c))
<1>1. /\ Append(node, c) \in Text
      /\ Len(Append(node, c)) = Len(node) + 1
      /\ Append(node, c)[Len(node) + 1] = c
      /\ \A j \in 1 .. Len(node) : Append(node, c)[j] = node[j]
      /\ Len(node) \in Nat
  BY DEF Text, NUL
<1>2. IsPrefix(node, Append(node, c))
  <2> DEFINE below == Append(node, c)
  <2>1. /\ below \in Text /\ Len(node) <= Len(below)
        /\ \A j \in 1 .. Len(node) : node[j] = below[j]
    BY <1>1
  <2> HIDE DEF below
  <2>2. IsPrefix(node, below)
    BY <2>1, PrefixIs
  <2>3. QED
    BY <2>2 DEF below
<1>3. QED
  BY <1>1, <1>2

\* Every path below a node, but the node's own, goes on by a byte.
LEMMA GoesOn ==
  ASSUME NEW node \in Text, NEW x \in Text, IsPrefix(node, x)
  PROVE  \/ x = node
         \/ \E c \in Byte \ {NUL} :
              /\ Len(node) < Len(x) /\ x[Len(node) + 1] = c
              /\ Append(node, c) \in Prefixes(x)
              /\ IsPrefix(Append(node, c), x)
<1>1. /\ Len(node) \in Nat /\ Len(x) \in Nat /\ Len(node) <= Len(x)
      /\ \A j \in 1 .. Len(node) : node[j] = x[j]
  BY PrefixIs DEF Text
<1>2. CASE Len(node) = Len(x)
  BY <1>1, <1>2, SeqEqual DEF Text
<1>3. CASE Len(node) < Len(x)
  <2>1. PICK c \in Byte \ {NUL} : x[Len(node) + 1] = c
    BY <1>1, <1>3 DEF Text, NUL
  <2>2. IsPrefix(Append(node, c), x)
    <3> DEFINE below == Append(node, c)
    <3>1. /\ below \in Text /\ Len(below) = Len(node) + 1
          /\ below[Len(node) + 1] = c
          /\ \A j \in 1 .. Len(node) : below[j] = node[j]
      BY AppendIs
    <3> HIDE DEF below
    <3>2. ASSUME NEW j \in 1 .. Len(below) PROVE below[j] = x[j]
      <4>1. j = Len(node) + 1 \/ j \in 1 .. Len(node)
        BY <1>1, <3>1
      <4>2. QED
        BY <1>1, <2>1, <3>1, <4>1
    <3>3. Len(below) <= Len(x)
      BY <1>1, <1>3, <3>1
    <3>4. IsPrefix(below, x)
      BY <3>1, <3>2, <3>3, PrefixIs
    <3>5. QED
      BY <3>4 DEF below
  <2>3. Append(node, c) = SubSeq(x, 1, Len(node) + 1)
    <3>1. SubSeq(Append(node, c), 1, Len(Append(node, c))) = Append(node, c)
      BY AppendIs DEF Text
    <3>2. QED
      BY <2>2, <3>1, AppendIs DEF IsPrefix
  <2>4. Len(node) + 1 \in 0 .. Len(x)
    BY <1>1, <1>3
  <2>5. QED
    BY <1>3, <2>1, <2>2, <2>3, <2>4 DEF Prefixes
<1>4. QED
  BY <1>1, <1>2, <1>3

LEMMA EdgesAre ==
  ASSUME NEW trie, IsTrie(trie), NEW node \in DOMAIN trie
  PROVE  Edges(trie, node) = {c \in Byte \ {NUL} : Append(node, c) \in DOMAIN trie}
<1>1. node \in Text
  BY DEF IsTrie
<1>2. ASSUME NEW x \in DOMAIN trie, x # <<>>, Front(x) = node
      PROVE  Last(x) \in Byte \ {NUL} /\ Append(node, Last(x)) \in DOMAIN trie
  <2>1. x \in Text
    BY DEF IsTrie
  <2>2. Append(Front(x), Last(x)) = x /\ Last(x) \in Byte \ {NUL}
    <3>1. Len(x) \in Nat /\ Len(x) >= 1
      BY <1>2, <2>1 DEF Text
    <3>2. Last(x) \in Byte \ {NUL}
      BY <2>1, <3>1 DEF Last, Text, NUL
    <3>3. Front(x) \in Text /\ Len(Front(x)) = Len(x) - 1
          /\ \A j \in 1 .. Len(x) - 1 : Front(x)[j] = x[j]
      <4>1. PICK n \in Nat : n = Len(x) - 1
        BY <3>1
      <4>2. n <= Len(x) /\ x \in Seq(Byte \ {0})
        BY <2>1, <3>1, <4>1 DEF Text
      <4>3. /\ SubSeq(x, 1, n) \in Seq(Byte \ {0}) /\ Len(SubSeq(x, 1, n)) = n
            /\ \A j \in 1 .. n : SubSeq(x, 1, n)[j] = x[j]
        BY <3>1, <4>2
      <4>4. QED
        BY <4>1, <4>3 DEF Front, Text
    <3>4. /\ Append(Front(x), Last(x)) \in Text
          /\ Len(Append(Front(x), Last(x))) = Len(x)
          /\ \A j \in 1 .. Len(x) : Append(Front(x), Last(x))[j] = x[j]
      <4>1. Len(Append(Front(x), Last(x))) = Len(x)
        BY <3>1, <3>2, <3>3, AppendIs
      <4>2. ASSUME NEW j \in 1 .. Len(x) PROVE Append(Front(x), Last(x))[j] = x[j]
        <5>1. j = Len(Front(x)) + 1 \/ j \in 1 .. Len(Front(x))
          BY <3>1, <3>3
        <5>2. QED
          BY <3>1, <3>2, <3>3, <5>1, AppendIs DEF Last
      <4>3. QED
        BY <3>2, <3>3, <4>1, <4>2, AppendIs
    <3>5. QED
      BY <2>1, <3>2, <3>4, SeqEqual DEF Text
  <2>3. QED
    BY <1>2, <2>2
<1>3. ASSUME NEW c \in Byte \ {NUL}, Append(node, c) \in DOMAIN trie
      PROVE  c \in Edges(trie, node)
  <2>1. Front(Append(node, c)) = node /\ Last(Append(node, c)) = c /\ Append(node, c) # <<>>
    BY <1>1 DEF Front, Last, Text, NUL
  <2>2. QED
    BY <1>3, <2>1 DEF Edges
<1>4. QED
  BY <1>2, <1>3 DEF Edges

-----------------------------------------------------------------------------
\* A list without repetitions of the numbers in A.
Lists(s, A) == s \in Seq(Nat) /\ ToSet(s) = A /\ IsInjective(s)

LEMMA ListsNone == Lists(<<>>, {})
BY DEF Lists, ToSet, IsInjective

LEMMA ListsConcat ==
  ASSUME NEW s, NEW t, NEW A, NEW B, Lists(s, A), Lists(t, B), A \cap B = {}
  PROVE  Lists(s \o t, A \cup B)
<1>1. /\ s \in Seq(Nat) /\ t \in Seq(Nat) /\ s \o t \in Seq(Nat)
      /\ Len(s) \in Nat /\ Len(t) \in Nat /\ Len(s \o t) = Len(s) + Len(t)
      /\ \A k \in 1 .. Len(s) : (s \o t)[k] = s[k]
      /\ \A k \in Len(s) + 1 .. Len(s) + Len(t) : (s \o t)[k] = t[k - Len(s)]
      /\ A = ToSet(s) /\ B = ToSet(t)
  BY DEF Lists
<1> DEFINE u == s \o t
<1>2. ASSUME NEW k \in 1 .. Len(u)
      PROVE  \/ k \in 1 .. Len(s) /\ u[k] = s[k] /\ u[k] \in A
             \/ k - Len(s) \in 1 .. Len(t) /\ u[k] = t[k - Len(s)] /\ u[k] \in B
  <2>1. CASE k <= Len(s)
    <3>1. k \in 1 .. Len(s) /\ k \in DOMAIN s
      BY <1>1, <2>1
    <3>2. u[k] = s[k] /\ s[k] \in ToSet(s)
      BY <1>1, <3>1 DEF ToSet
    <3>3. QED
      BY <1>1, <3>1, <3>2
  <2>2. CASE k > Len(s)
    <3>1. PICK n \in 1 .. Len(t) : n = k - Len(s)
      BY <1>1, <2>2
    <3>2. u[k] = t[n] /\ t[n] \in ToSet(t)
      BY <1>1, <2>2, <3>1 DEF ToSet
    <3>3. QED
      BY <1>1, <3>1, <3>2
  <2>3. QED
    BY <1>1, <2>1, <2>2
<1>3. A \cup B \subseteq ToSet(u)
  <2>1. ASSUME NEW x \in ToSet(s) PROVE x \in ToSet(u)
    <3>1. PICK k \in 1 .. Len(s) : x = s[k]
      BY <1>1 DEF ToSet
    <3>2. k \in DOMAIN u /\ u[k] = x
      BY <1>1, <3>1
    <3>3. QED
      BY <3>2 DEF ToSet
  <2>2. ASSUME NEW x \in ToSet(t) PROVE x \in ToSet(u)
    <3>1. PICK k \in 1 .. Len(t) : x = t[k]
      BY <1>1 DEF ToSet
    <3>2. PICK n \in Len(s) + 1 .. Len(s) + Len(t) : n = Len(s) + k /\ n - Len(s) = k
      <4>1. PICK p \in Nat, q \in Nat : p = Len(s) /\ q = Len(t)
        BY <1>1
      <4>2. p + k \in p + 1 .. p + q /\ (p + k) - p = k
        BY <4>1
      <4>3. QED
        BY <4>1, <4>2
    <3>3. n \in DOMAIN u /\ u[n] = x
      BY <1>1, <3>1, <3>2
    <3>4. QED
      BY <3>3 DEF ToSet
  <2>3. QED
    BY <1>1, <2>1, <2>2
<1>4. DOMAIN u = 1 .. Len(u)
  BY <1>1
<1> HIDE DEF u
<1>5. ToSet(u) = A \cup B
  BY <1>2, <1>3, <1>4 DEF ToSet
<1>6. ASSUME NEW k \in 1 .. Len(u), NEW n \in 1 .. Len(u), u[k] = u[n] PROVE k = n
  <2>1. CASE u[k] \in A
    <3>1. k \in 1 .. Len(s) /\ n \in 1 .. Len(s) /\ s[k] = s[n]
      BY <1>2, <1>6, <2>1
    <3>2. QED
      BY <1>1, <3>1 DEF Lists, IsInjective
  <2>2. CASE u[k] \notin A
    <3>1. /\ k - Len(s) \in 1 .. Len(t) /\ n - Len(s) \in 1 .. Len(t)
          /\ t[k - Len(s)] = t[n - Len(s)]
      BY <1>2, <1>6, <2>2
    <3>2. k - Len(s) = n - Len(s)
      BY <1>1, <3>1 DEF Lists, IsInjective
    <3>3. QED
      BY <1>1, <3>2
  <2>3. QED
    BY <2>1, <2>2
<1>7. QED
  BY <1>1, <1>4, <1>5, <1>6 DEF Lists, IsInjective, u

LEMMA ListsAppend ==
  ASSUME NEW s, NEW A, Lists(s, A), NEW k \in Nat, k \notin A
  PROVE  Lists(Append(s, k), A \cup {k})
<1>1. Lists(<<k>>, {k})
  <2>1. <<k>> \in Seq(Nat) /\ DOMAIN <<k>> = {1} /\ <<k>>[1] = k
    OBVIOUS
  <2>2. QED
    BY <2>1 DEF Lists, ToSet, IsInjective
<1>2. Append(s, k) = s \o <<k>>
  BY AppendIsConcat DEF Lists
<1>3. QED
  BY <1>1, <1>2, ListsConcat

LEMMA ListsCount ==
  ASSUME NEW s, NEW A, Lists(s, A)
  PROVE  IsFiniteSet(A) /\ Cardinality(A) = Len(s)
<1>1. Len(s) \in Nat /\ DOMAIN s = 1 .. Len(s) /\ s \in [1 .. Len(s) -> A]
  BY DEF Lists, ToSet
<1>2. s \in Bijection(1 .. Len(s), A)
  <2>1. \A x \in A : \E k \in 1 .. Len(s) : s[k] = x
    BY <1>1 DEF Lists, ToSet
  <2>2. QED
    BY <1>1, <2>1 DEF Lists, IsInjective, Bijection, Injection, Surjection
<1>3. IsFiniteSet(1 .. Len(s)) /\ Cardinality(1 .. Len(s)) = Len(s)
  BY <1>1, FS_Interval
<1>4. ExistsBijection(1 .. Len(s), A)
  BY <1>2 DEF ExistsBijection
<1>5. QED
  BY <1>3, <1>4, FS_Bijection

-----------------------------------------------------------------------------
\* The recursive functions in Usages() and InOrder().
Counts(upto, name, mode) ==
  upto = [k \in 0 .. Len(commands) |->
            IF k = 0 THEN <<>>
            ELSE IF /\ commands[k].command = name
                    /\ visible(mode, commands[k].modes)
            THEN Append(upto[k - 1], k) ELSE upto[k - 1]]

Concats(from, printed) ==
  from = [b \in 0 .. 256 |->
            LET more == {c \in DOMAIN printed : c >= b} IN
            IF more = {} THEN <<>> ELSE printed[Min(more)] \o from[Min(more) + 1]]

\* The entries of the table for a command that can be seen in a mode.
UsagesOf(name, mode) ==
  {k \in 1 .. Len(commands) : commands[k].command = name /\ visible(mode, commands[k].modes)}

LEMMA CountsExist ==
  ASSUME NEW name, NEW mode, Len(commands) \in Nat
  PROVE  \E upto : Counts(upto, name, mode)
<1>1. PICK L \in Nat : L = Len(commands)
  OBVIOUS
<1> DEFINE S == Seq(Nat)
           Fits(k) == commands[k].command = name /\ visible(mode, commands[k].modes)
           step == [n \in Nat |-> [v \in S |-> IF Fits(n + 1) THEN Append(v, n + 1) ELSE v]]
<1> HIDE DEF Fits
<1>2. step \in Steps(S)
  BY DEF Steps
<1>3. PICK f : Follows(f, S, <<>>, step)
  <2>1. <<>> \in S
    OBVIOUS
  <2> HIDE DEF step, S
  <2>2. QED
    BY <1>2, <2>1, PrimitiveRecursion
<1>4. f[0] = <<>> /\ \A n \in Nat : f[n] \in S /\ f[n + 1] = step[n][f[n]]
  BY <1>3 DEF Follows
<1> DEFINE g == [n \in 0 .. L |-> f[n]]
<1>5. ASSUME NEW n \in 1 .. L PROVE f[n] = IF Fits(n) THEN Append(f[n - 1], n) ELSE f[n - 1]
  <2>1. PICK m \in Nat : m = n - 1 /\ n = m + 1
    BY <1>1
  <2>2. f[m + 1] = IF Fits(m + 1) THEN Append(f[m], m + 1) ELSE f[m]
    BY <1>4, <2>1
  <2>3. QED
    BY <2>1, <2>2
<1>6. Counts(g, name, mode)
  <2>1. ASSUME NEW n \in 0 .. L
        PROVE  g[n] = IF n = 0 THEN <<>> ELSE IF Fits(n) THEN Append(g[n - 1], n) ELSE g[n - 1]
    <3>1. CASE n = 0
      BY <1>4, <3>1
    <3>2. CASE n # 0
      <4>1. n \in 1 .. L /\ n - 1 \in 0 .. L
        BY <3>2
      <4>2. g[n] = f[n] /\ g[n - 1] = f[n - 1]
        BY <4>1
      <4>3. QED
        BY <1>5, <3>2, <4>1, <4>2
    <3>3. QED
      BY <3>1, <3>2
  <2>2. QED
    BY <1>1, <2>1 DEF Counts, Fits
<1> HIDE DEF g
<1>7. QED
  BY <1>6

LEMMA CountsAre ==
  ASSUME NEW name, NEW mode, Len(commands) \in Nat, NEW upto, Counts(upto, name, mode)
  PROVE  Lists(upto[Len(commands)], UsagesOf(name, mode))
<1>1. PICK L \in Nat : L = Len(commands)
  OBVIOUS
<1> DEFINE Fits(k) == commands[k].command = name /\ visible(mode, commands[k].modes)
           Found(n) == {k \in 1 .. n : Fits(k)}
           Good == {n \in Nat : n <= L => Lists(upto[n], Found(n))}
<1>2. /\ upto[0] = <<>>
      /\ \A n \in 1 .. L : upto[n] = IF Fits(n) THEN Append(upto[n - 1], n) ELSE upto[n - 1]
  <2>1. upto = [k \in 0 .. L |-> IF k = 0 THEN <<>>
                                ELSE IF Fits(k) THEN Append(upto[k - 1], k) ELSE upto[k - 1]]
    BY <1>1, Zenon DEF Counts
  <2>2. 0 \in 0 .. L /\ \A n \in 1 .. L : n \in 0 .. L /\ n # 0
    OBVIOUS
  <2> HIDE DEF Fits
  <2>3. QED
    BY <2>1, <2>2, Zenon
<1> HIDE DEF Fits
<1>3. 0 \in Good
  <2>1. Found(0) = {}
    OBVIOUS
  <2>2. QED
    BY <1>2, <2>1, ListsNone
<1>4. ASSUME NEW n \in Nat, n \in Good PROVE n + 1 \in Good
  <2>1. SUFFICES ASSUME n + 1 <= L PROVE Lists(upto[n + 1], Found(n + 1))
    OBVIOUS
  <2>2. Lists(upto[n], Found(n))
    BY <1>4, <2>1
  <2>3. n + 1 \in 1 .. L /\ (n + 1) - 1 = n
    BY <2>1
  <2>4. CASE Fits(n + 1)
    <3>1. Found(n + 1) = Found(n) \cup {n + 1} /\ n + 1 \notin Found(n)
      BY <2>4
    <3>2. upto[n + 1] = Append(upto[n], n + 1)
      BY <1>2, <2>3, <2>4
    <3> HIDE DEF Found
    <3>3. QED
      BY <2>2, <3>1, <3>2, ListsAppend
  <2>5. CASE ~Fits(n + 1)
    <3>1. Found(n + 1) = Found(n)
      BY <2>5
    <3>2. upto[n + 1] = upto[n]
      BY <1>2, <2>3, <2>5
    <3>3. QED
      BY <2>2, <3>1, <3>2
  <2>6. QED
    BY <2>4, <2>5
<1>5. L \in Good
  <2> HIDE DEF Good
  <2>1. QED
    BY <1>3, <1>4, Induction
<1>6. QED
  BY <1>1, <1>5 DEF Fits, UsagesOf

LEMMA UsagesAre ==
  ASSUME NEW trie, NEW node, NEW mode, Len(commands) \in Nat
  PROVE  Lists(Usages(trie, node, mode),
               IF trie[node] = NoCommand THEN {} ELSE UsagesOf(trie[node].command, mode))
<1> DEFINE F == CHOOSE upto : Counts(upto, trie[node].command, mode)
<1>1. Counts(F, trie[node].command, mode)
  BY CountsExist, Zenon
<1>2. Usages(trie, node, mode) = IF trie[node] = NoCommand THEN <<>> ELSE F[Len(commands)]
  BY Zenon DEF Usages, Counts
<1> HIDE DEF F
<1>3. QED
  BY <1>1, <1>2, CountsAre, ListsNone

-----------------------------------------------------------------------------
\* The loop that has got to byte b finds edge e, and then goes on from n.
Least(E, b, e, n) ==
  /\ {c \in E : c >= b} # {} /\ Min({c \in E : c >= b}) = e
  /\ e \in E /\ n \in 0 .. 256 /\ e >= b /\ n = e + 1 /\ n > b
  /\ \A c \in E : c >= b => c >= e

LEMMA LeastExists ==
  ASSUME NEW E \in SUBSET Byte, NEW b \in 0 .. 256, {c \in E : c >= b} # {}
  PROVE  \E e, n : Least(E, b, e, n)
<1> DEFINE more == {c \in E : c >= b}
<1>1. more \in SUBSET Nat
  <2>1. ASSUME NEW c \in E PROVE c \in Nat
    BY DEF Byte
  <2>2. QED
    BY <2>1
<1>2. \E x \in more : \A y \in more : x <= y
  <2>1. more # {}
    OBVIOUS
  <2> HIDE DEF more
  <2>2. QED
    BY <1>1, <2>1, LeastNumber, Zenon
<1>3. Min(more) \in more /\ \A y \in more : Min(more) <= y
  <2> HIDE DEF more
  <2>1. QED
    BY <1>2, Zenon DEF Min
<1>4. PICK e \in Byte : e = Min(more) /\ e >= b /\ e \in E
  BY <1>3
<1>5. PICK n \in 0 .. 256 : n = e + 1 /\ n > b
  BY <1>4 DEF Byte
<1>6. \A c \in E : c >= b => c >= e
  <2>1. \A c \in E : c >= b => e <= c
    BY <1>3, <1>4
  <2>2. \A c \in E : c \in Nat /\ e \in Nat
    BY DEF Byte
  <2>3. QED
    BY <2>1, <2>2
<1>7. Least(E, b, e, n)
  BY <1>4, <1>5, <1>6, Zenon DEF Least
<1>8. QED
  BY <1>7

\* How far a loop over the edges has still to go.
ToGo == [b \in 0 .. 256 |-> 256 - b]

LEMMA ToGoFalls ==
  /\ ToGo \in [0 .. 256 -> Nat]
  /\ \A b, n \in 0 .. 256 : n > b => ToGo[n] < ToGo[b]
<1>1. ToGo \in [0 .. 256 -> Nat]
  BY DEF ToGo
<1>2. ASSUME NEW b \in 0 .. 256, NEW n \in 0 .. 256, n > b PROVE ToGo[n] < ToGo[b]
  <2>1. 256 - n < 256 - b
    BY <1>2
  <2>2. QED
    BY <2>1 DEF ToGo
<1>3. QED
  BY <1>1, <1>2

LEMMA ConcatsExist ==
  ASSUME NEW E \in SUBSET Byte, NEW printed \in [E -> Seq(Nat)]
  PROVE  \E from : Concats(from, printed)
<1> DEFINE S == Seq(Nat)
           X == 0 .. 256
           more(b) == {c \in E : c >= b}
           m == ToGo
           Def(b, from) == IF more(b) = {} THEN <<>>
                           ELSE printed[Min(more(b))] \o from[Min(more(b)) + 1]
           step == [b \in X |-> [f \in [X -> S] |-> Def(b, f)]]
<1>0. ASSUME NEW b \in X, NEW n \in X, n > b PROVE m[n] < m[b]
  BY <1>0, ToGoFalls
<1>1. ASSUME NEW b \in X, more(b) # {}
      PROVE  /\ printed[Min(more(b))] \in S
             /\ Min(more(b)) + 1 \in X /\ m[Min(more(b)) + 1] < m[b]
  <2>1. PICK e \in E, n \in X : Min(more(b)) = e /\ n = e + 1 /\ n > b
    <3>1. PICK e, n : Least(E, b, e, n)
      BY <1>1, LeastExists
    <3>2. QED
      BY <3>1, Zenon DEF Least
  <2>3. m[n] < m[b]
    BY <1>0, <2>1, Zenon
  <2>4. printed[e] \in S
    OBVIOUS
  <2> HIDE DEF m, more, S, X
  <2>5. QED
    BY <2>1, <2>3, <2>4, Zenon
<1>2. m \in [X -> Nat]
  BY ToGoFalls
<1> HIDE DEF m, more
<1>3. ASSUME NEW b \in X, NEW f \in [X -> S] PROVE Def(b, f) \in S
  <2>1. CASE more(b) = {}
    BY <2>1
  <2>2. CASE more(b) # {}
    <3>1. printed[Min(more(b))] \in S /\ f[Min(more(b)) + 1] \in S
      BY <1>1, <2>2
    <3>2. printed[Min(more(b))] \o f[Min(more(b)) + 1] \in S
      BY <3>1
    <3>3. QED
      BY <2>2, <3>2
  <2>3. QED
    BY <2>1, <2>2
<1>4. ASSUME NEW b \in X, NEW g \in [X -> S], NEW h \in [X -> S],
             \A y \in X : m[y] < m[b] => g[y] = h[y]
      PROVE  Def(b, g) = Def(b, h)
  <2>1. CASE more(b) = {}
    BY <2>1
  <2>2. CASE more(b) # {}
    BY <1>1, <1>4, <2>2
  <2>3. QED
    BY <2>1, <2>2
<1> HIDE DEF Def
<1>5. step \in MeasuredDefs(X, S, m)
  <2>1. step \in [X -> [[X -> S] -> S]]
    BY <1>3
  <2> HIDE DEF S, X
  <2>2. \A x \in X : \A g, h \in [X -> S] : step[x][g] = Def(x, g) /\ step[x][h] = Def(x, h)
    OBVIOUS
  <2> HIDE DEF step
  <2>3. ASSUME NEW x \in X, NEW g \in [X -> S], NEW h \in [X -> S],
               \A y \in X : m[y] < m[x] => g[y] = h[y]
        PROVE  step[x][g] = step[x][h]
    <3>1. Def(x, g) = Def(x, h)
      BY <1>4, <2>3
    <3>2. QED
      BY <2>2, <3>1
  <2>4. QED
    BY <2>1, <2>3 DEF MeasuredDefs
<1>6. PICK f : FulfilsOn(f, X, S, step)
  <2> DEFINE any == <<>>
  <2>1. any \in S
    OBVIOUS
  <2> HIDE DEF any, S, X, step
  <2>2. QED
    BY <1>2, <1>5, <2>1, MeasuredRecursion
<1>7. f \in [X -> S] /\ \A b \in X : f[b] = Def(b, f)
  BY <1>6 DEF FulfilsOn
<1>8. f = [b \in X |-> Def(b, f)]
  <2> HIDE DEF S, X
  <2>1. QED
    BY <1>7
<1>9. DOMAIN printed = E
  OBVIOUS
<1>10. Concats(f, printed)
  BY <1>8, <1>9, Zenon DEF Concats, Def, more
<1>11. QED
  BY <1>10

\* Induction on how far a loop over the edges has still to go.
LEMMA EdgeInduction ==
  ASSUME NEW G, \A b \in 0 .. 256 : (\A n \in 0 .. 256 : n > b => n \in G) => b \in G
  PROVE  \A b \in 0 .. 256 : b \in G
<1> DEFINE X == 0 .. 256
<1>1. ASSUME NEW b \in X, \A n \in X : ToGo[n] < ToGo[b] => n \in G PROVE b \in G
  <2>1. \A n \in X : n > b => n \in G
    BY <1>1, ToGoFalls, Zenon
  <2>2. QED
    BY <2>1
<1>2. Inductive(G, X, ToGo)
  BY <1>1 DEF Inductive
<1>3. ToGo \in [X -> Nat]
  BY ToGoFalls
<1> HIDE DEF X
<1>4. \A b \in X : b \in G
  BY <1>2, <1>3, MeasureInduction
<1>5. QED
  BY <1>4 DEF X

\* What is printed for the edges in E are lists of the parts, and no two parts
\* share a number.
PartsOf(printed, part, E) ==
  /\ \A c \in E : Lists(printed[c], part[c])
  /\ \A c, d \in E : c # d => part[c] \cap part[d] = {}

\* The lists of the edges make one list.
LEMMA InOrderLists ==
  ASSUME NEW E \in SUBSET Byte, NEW printed \in [E -> Seq(Nat)], NEW part,
         PartsOf(printed, part, E)
  PROVE  Lists(InOrder(printed), UNION {part[c] : c \in E})
<1>0. /\ \A c \in E : Lists(printed[c], part[c])
      /\ \A c, d \in E : c # d => part[c] \cap part[d] = {}
  BY DEF PartsOf
<1> DEFINE more(b) == {c \in E : c >= b}
           F == CHOOSE from : Concats(from, printed)
<1>1. Concats(F, printed)
  BY ConcatsExist, Zenon
<1>2. InOrder(printed) = F[0]
  BY Zenon DEF InOrder, Concats
<1>3. DOMAIN printed = E
  OBVIOUS
<1>4. F = [b \in 0 .. 256 |-> IF more(b) = {} THEN <<>>
                              ELSE printed[Min(more(b))] \o F[Min(more(b)) + 1]]
  <2> HIDE DEF F
  <2>1. QED
    BY <1>1, <1>3, Zenon DEF Concats
<1> HIDE DEF F, more
<1> DEFINE All(b) == UNION {part[c] : c \in more(b)}
           G == {b \in 0 .. 256 : Lists(F[b], All(b))}
<1>5. ASSUME NEW b \in 0 .. 256, \A n \in 0 .. 256 : n > b => n \in G PROVE b \in G
  <2>1. CASE more(b) = {}
    <3>1. F[b] = <<>> /\ All(b) = {}
      BY <1>4, <2>1
    <3>2. QED
      BY <3>1, ListsNone
  <2>2. CASE more(b) # {}
    <3>1. PICK e \in E, n \in 0 .. 256 :
            /\ Min(more(b)) = e /\ e >= b /\ n = e + 1 /\ n > b
            /\ \A c \in E : c >= b => c >= e
      <4>1. PICK e, n : Least(E, b, e, n)
        BY <2>2, LeastExists DEF more
      <4>2. QED
        BY <4>1, Zenon DEF Least, more
    <3>2. F[b] = printed[e] \o F[n]
      BY <1>4, <2>2, <3>1, Zenon
    <3>3. more(b) = more(n) \cup {e} /\ e \notin more(n)
      <4>1. ASSUME NEW c \in E PROVE c >= b <=> c >= n \/ c = e
        <5>1. c \in Nat /\ e \in Nat
          BY DEF Byte
        <5>2. c >= b => c >= e
          BY <3>1
        <5>3. QED
          BY <3>1, <5>1, <5>2
      <4>2. ~(e >= n)
        <5>1. e \in Nat
          BY DEF Byte
        <5>2. QED
          BY <3>1, <5>1
      <4>3. QED
        BY <4>1, <4>2 DEF more
    <3>4. All(b) = part[e] \cup All(n)
      BY <3>3
    <3>5. part[e] \cap All(n) = {}
      <4>1. ASSUME NEW c \in more(n) PROVE part[e] \cap part[c] = {}
        <5>1. c \in E /\ c # e
          BY <3>3 DEF more
        <5>2. QED
          BY <1>0, <5>1
      <4>2. QED
        BY <4>1
    <3>6. Lists(F[n], All(n))
      BY <1>5, <3>1
    <3>7. Lists(printed[e], part[e])
      BY <1>0
    <3> HIDE DEF All
    <3>8. Lists(F[b], All(b))
      BY <3>2, <3>4, <3>5, <3>6, <3>7, ListsConcat
    <3>9. QED
      BY <3>8
  <2>3. QED
    BY <2>1, <2>2
<1>6. 0 \in G
  <2> HIDE DEF G
  <2>1. \A b \in 0 .. 256 : b \in G
    BY <1>5, EdgeInduction, Zenon
  <2>2. QED
    BY <2>1
<1>7. more(0) = E
  <2>1. ASSUME NEW c \in E PROVE c >= 0
    <3>1. c \in Byte
      OBVIOUS
    <3>2. QED
      BY <3>1 DEF Byte
  <2>2. QED
    BY <2>1 DEF more
<1>8. QED
  BY <1>2, <1>6, <1>7

LEMMA InOrderType ==
  ASSUME NEW E \in SUBSET Byte, NEW printed \in [E -> Seq(Nat)]
  PROVE  InOrder(printed) \in Seq(Nat)
<1> DEFINE more(b) == {c \in E : c >= b}
           F == CHOOSE from : Concats(from, printed)
<1>1. Concats(F, printed)
  BY ConcatsExist, Zenon
<1>2. InOrder(printed) = F[0]
  BY Zenon DEF InOrder, Concats
<1>3. DOMAIN printed = E
  OBVIOUS
<1>4. F = [b \in 0 .. 256 |-> IF more(b) = {} THEN <<>>
                              ELSE printed[Min(more(b))] \o F[Min(more(b)) + 1]]
  <2> HIDE DEF F
  <2>1. QED
    BY <1>1, <1>3, Zenon DEF Concats
<1> HIDE DEF F, more
<1>5. ASSUME NEW b \in 0 .. 256, \A n \in 0 .. 256 : n > b => F[n] \in Seq(Nat)
      PROVE  F[b] \in Seq(Nat)
  <2>1. CASE more(b) = {}
    <3>1. F[b] = <<>>
      BY <1>4, <2>1, Zenon
    <3>2. QED
      BY <3>1
  <2>2. CASE more(b) # {}
    <3>1. PICK e \in E, n \in 0 .. 256 : Min(more(b)) = e /\ n = e + 1 /\ n > b
      <4>1. PICK e, n : Least(E, b, e, n)
        BY <2>2, LeastExists DEF more
      <4>2. QED
        BY <4>1, Zenon DEF Least, more
    <3>2. F[b] = printed[e] \o F[n]
      BY <1>4, <2>2, <3>1, Zenon
    <3>3. F[n] \in Seq(Nat) /\ printed[e] \in Seq(Nat)
      BY <1>5, <3>1
    <3>4. printed[e] \o F[n] \in Seq(Nat)
      BY <3>3
    <3>5. QED
      BY <3>2, <3>4
  <2>3. QED
    BY <2>1, <2>2
<1> DEFINE G == {b \in 0 .. 256 : F[b] \in Seq(Nat)}
<1>6. \A b \in 0 .. 256 : b \in G
  <2>1. \A b \in 0 .. 256 : (\A n \in 0 .. 256 : n > b => n \in G) => b \in G
    BY <1>5
  <2> HIDE DEF G
  <2>2. QED
    BY <2>1, EdgeInduction, Zenon
<1>7. QED
  BY <1>2, <1>6

\* How far the trie goes on below a node: what a recursion down the edges of
\* a trie comes to its end by.
Depths(m, trie) ==
  /\ m \in [DOMAIN trie -> Nat]
  /\ \A node \in DOMAIN trie : \A c \in Edges(trie, node) :
       Append(node, c) \in DOMAIN trie /\ m[Append(node, c)] < m[node]

LEMMA DepthsExist ==
  ASSUME NEW trie, IsTrie(trie)
  PROVE  \E m : Depths(m, trie)
<1>1. PICK d \in Nat : \A x \in DOMAIN trie : Len(x) <= d
  BY DEF IsTrie
<1>2. \A x \in DOMAIN trie : x \in Text /\ Len(x) \in Nat
  BY DEF IsTrie, Text
<1> DEFINE m == [x \in DOMAIN trie |-> d - Len(x)]
<1>3. m \in [DOMAIN trie -> Nat]
  BY <1>1, <1>2
<1>4. ASSUME NEW node \in DOMAIN trie, NEW c \in Edges(trie, node)
      PROVE  Append(node, c) \in DOMAIN trie /\ m[Append(node, c)] < m[node]
  <2>1. c \in Byte \ {NUL} /\ Append(node, c) \in DOMAIN trie
    BY EdgesAre
  <2>2. PICK x \in DOMAIN trie : x = Append(node, c) /\ Len(x) = Len(node) + 1
    BY <1>2, <2>1, AppendIs
  <2>3. d - Len(x) < d - Len(node)
    BY <1>2, <2>2
  <2>4. QED
    BY <2>2, <2>3
<1>5. Depths(m, trie)
  <2> HIDE DEF m
  <2>1. QED
    BY <1>3, <1>4 DEF Depths
<1>6. QED
  BY <1>5

\* The recursive function in trie_help().
Helps(help, trie, mode) ==
  help = [node \in DOMAIN trie |->
            Usages(trie, node, mode)
              \o InOrder([b \in Edges(trie, node) |-> help[Append(node, b)]])]

LEMMA HelpIs ==
  ASSUME NEW trie, IsTrie(trie), NEW mode, Len(commands) \in Nat
  PROVE  Helps(trie_help(trie, mode), trie, mode)
<1> DEFINE S == Seq(Nat)
           D == DOMAIN trie
           Below_(node, f) == [b \in Edges(trie, node) |-> f[Append(node, b)]]
           Def(node, f) == Usages(trie, node, mode) \o InOrder(Below_(node, f))
           step == [node \in D |-> [f \in [D -> S] |-> Def(node, f)]]
<1>1. PICK m : Depths(m, trie)
  BY DepthsExist
<1>2. /\ m \in [D -> Nat]
      /\ \A node \in D : \A c \in Edges(trie, node) :
           Append(node, c) \in D /\ m[Append(node, c)] < m[node]
  BY <1>1 DEF Depths
<1>3. ASSUME NEW node \in D PROVE Edges(trie, node) \in SUBSET Byte
  BY EdgesAre
<1>4. ASSUME NEW node \in D, NEW f \in [D -> S] PROVE Def(node, f) \in S
  <2>1. Below_(node, f) \in [Edges(trie, node) -> Seq(Nat)]
    BY <1>2
  <2> HIDE DEF Below_
  <2>2. InOrder(Below_(node, f)) \in S
    BY <1>3, <2>1, InOrderType
  <2>3. Usages(trie, node, mode) \in S
    BY UsagesAre DEF Lists
  <2>4. QED
    BY <2>2, <2>3
<1>5. ASSUME NEW node \in D, NEW g \in [D -> S], NEW h \in [D -> S],
             \A y \in D : m[y] < m[node] => g[y] = h[y]
      PROVE  Def(node, g) = Def(node, h)
  <2>1. Below_(node, g) = Below_(node, h)
    BY <1>2, <1>5
  <2> HIDE DEF Below_
  <2>2. QED
    BY <2>1
<1> HIDE DEF Def
<1>6. step \in MeasuredDefs(D, S, m)
  <2>1. step \in [D -> [[D -> S] -> S]]
    BY <1>4
  <2> HIDE DEF S, D
  <2>2. \A x \in D : \A g, h \in [D -> S] : step[x][g] = Def(x, g) /\ step[x][h] = Def(x, h)
    OBVIOUS
  <2> HIDE DEF step
  <2>3. ASSUME NEW x \in D, NEW g \in [D -> S], NEW h \in [D -> S],
               \A y \in D : m[y] < m[x] => g[y] = h[y]
        PROVE  step[x][g] = step[x][h]
    <3>1. Def(x, g) = Def(x, h)
      BY <1>5, <2>3
    <3>2. QED
      BY <2>2, <3>1
  <2>4. QED
    BY <2>1, <2>3 DEF MeasuredDefs
<1>7. PICK f : FulfilsOn(f, D, S, step)
  <2> DEFINE any == <<>>
  <2>1. any \in S
    OBVIOUS
  <2> HIDE DEF any, S, D, step
  <2>2. QED
    BY <1>2, <1>6, <2>1, MeasuredRecursion
<1>8. f \in [D -> S] /\ \A node \in D : f[node] = Def(node, f)
  BY <1>7 DEF FulfilsOn
<1>9. f = [node \in D |-> Def(node, f)]
  <2> HIDE DEF S, D
  <2>1. QED
    BY <1>8
<1>10. Helps(f, trie, mode)
  BY <1>9, Zenon DEF Helps, Def
<1>11. QED
  BY <1>10, Zenon DEF Helps, trie_help

-----------------------------------------------------------------------------
\* The trie has the commands of the table, each at the end of its own path.
Agrees(trie) ==
  /\ \A k \in 1 .. Len(commands) : commands[k].command \in DOMAIN trie
  /\ \A x \in DOMAIN trie :
       IF trie[x] = NoCommand THEN \A k \in 1 .. Len(commands) : commands[k].command # x
       ELSE trie[x].command = x

\* The entries at a node and below it that can be seen in a mode.
Under(node, mode) ==
  {k \in 1 .. Len(commands) :
     IsPrefix(node, commands[k].command) /\ visible(mode, commands[k].modes)}

\* A path that goes on from a node by byte c goes on by no other.
LEMMA OneEdge ==
  ASSUME NEW node \in Text, NEW c \in Byte \ {NUL}, NEW x \in Text,
         IsPrefix(Append(node, c), x)
  PROVE  IsPrefix(node, x) /\ Len(node) < Len(x) /\ x[Len(node) + 1] = c
<1>1. PICK y \in Text : /\ y = Append(node, c) /\ Len(y) = Len(node) + 1
                        /\ y[Len(node) + 1] = c
                        /\ \A j \in 1 .. Len(node) : y[j] = node[j]
  BY AppendIs
<1>2. Len(y) <= Len(x) /\ \A j \in 1 .. Len(y) : y[j] = x[j]
  BY <1>1, PrefixIs
<1>3. Len(node) \in Nat /\ Len(x) \in Nat
  BY DEF Text
<1>4. Len(node) < Len(x) /\ x[Len(node) + 1] = c /\ \A j \in 1 .. Len(node) : node[j] = x[j]
  BY <1>1, <1>2, <1>3
<1>5. QED
  BY <1>3, <1>4, PrefixIs

LEMMA PrefixOfSelf ==
  ASSUME NEW x \in Text
  PROVE  IsPrefix(x, x)
BY PrefixIs DEF Text

LEMMA UnderIs ==
  ASSUME NEW trie, IsTrie(trie), Agrees(trie), NEW mode, NEW node \in DOMAIN trie
  PROVE  /\ Under(node, mode) = UsagesOf(node, mode)
              \cup UNION {Under(Append(node, c), mode) : c \in Edges(trie, node)}
         /\ \A c \in Edges(trie, node) : UsagesOf(node, mode) \cap Under(Append(node, c), mode) = {}
         /\ \A c, e \in Edges(trie, node) :
              c # e => Under(Append(node, c), mode) \cap Under(Append(node, e), mode) = {}
<1>1. node \in Text
  BY DEF IsTrie
<1>2. ASSUME NEW k \in 1 .. Len(commands)
      PROVE  commands[k].command \in DOMAIN trie /\ commands[k].command \in Text
  BY DEF Agrees, IsTrie
<1>3. Edges(trie, node) = {c \in Byte \ {NUL} : Append(node, c) \in DOMAIN trie}
  BY EdgesAre
<1>4. ASSUME NEW k \in Under(node, mode)
      PROVE  \/ k \in UsagesOf(node, mode)
             \/ \E c \in Edges(trie, node) : k \in Under(Append(node, c), mode)
  <2>1. PICK x \in Text : /\ k \in 1 .. Len(commands) /\ x = commands[k].command
                          /\ IsPrefix(node, x) /\ visible(mode, commands[k].modes)
                          /\ x \in DOMAIN trie
    BY <1>2 DEF Under
  <2>2. CASE x = node
    BY <2>1, <2>2 DEF UsagesOf
  <2>3. CASE x # node
    <3>1. PICK c \in Byte \ {NUL} : Append(node, c) \in Prefixes(x) /\ IsPrefix(Append(node, c), x)
      BY <1>1, <2>1, <2>3, GoesOn
    <3>2. Append(node, c) \in DOMAIN trie
      BY <2>1, <3>1 DEF IsTrie
    <3>3. c \in Edges(trie, node)
      BY <1>3, <3>2
    <3>4. k \in Under(Append(node, c), mode)
      BY <2>1, <3>1 DEF Under
    <3>5. QED
      BY <3>3, <3>4
  <2>4. QED
    BY <2>2, <2>3
<1>5. ASSUME NEW c \in Edges(trie, node), NEW k \in Under(Append(node, c), mode)
      PROVE  /\ k \in Under(node, mode)
             /\ Len(node) < Len(commands[k].command) /\ commands[k].command[Len(node) + 1] = c
  <2>1. PICK x \in Text : /\ k \in 1 .. Len(commands) /\ x = commands[k].command
                          /\ IsPrefix(Append(node, c), x) /\ visible(mode, commands[k].modes)
    BY <1>2 DEF Under
  <2>2. IsPrefix(node, x) /\ Len(node) < Len(x) /\ x[Len(node) + 1] = c
    BY <1>1, <1>3, <2>1, OneEdge
  <2>3. QED
    BY <2>1, <2>2 DEF Under
<1>6. ASSUME NEW k \in UsagesOf(node, mode)
      PROVE  k \in Under(node, mode) /\ commands[k].command = node
  BY <1>1, PrefixOfSelf DEF UsagesOf, Under
<1>7. Len(node) \in Nat
  BY <1>1 DEF Text
<1>8. QED
  BY <1>4, <1>5, <1>6, <1>7

(***************************************************************************)
(* From every node down, trie_help() prints the entries whose commands     *)
(* begin with its path and whose own modes are visible, each once.         *)
(***************************************************************************)
LEMMA HelpLists ==
  ASSUME NEW trie, IsTrie(trie), Agrees(trie), NEW mode, Len(commands) \in Nat
  PROVE  \A node \in DOMAIN trie : Lists(trie_help(trie, mode)[node], Under(node, mode))
<1> DEFINE D == DOMAIN trie
           help == trie_help(trie, mode)
           G == {node \in D : Lists(help[node], Under(node, mode))}
<1>1. PICK m : Depths(m, trie)
  BY DepthsExist
<1>2. \A node \in D :
        help[node] = Usages(trie, node, mode)
                       \o InOrder([b \in Edges(trie, node) |-> help[Append(node, b)]])
  <2>1. Helps(help, trie, mode)
    BY HelpIs
  <2> HIDE DEF help
  <2>2. QED
    BY <2>1 DEF Helps
<1> HIDE DEF help
<1>3. ASSUME NEW node \in D, \A y \in D : m[y] < m[node] => Lists(help[y], Under(y, mode))
      PROVE  Lists(help[node], Under(node, mode))
  <2> DEFINE E == Edges(trie, node)
             printed == [b \in E |-> help[Append(node, b)]]
             part == [b \in E |-> Under(Append(node, b), mode)]
  <2>1. E \in SUBSET Byte
    BY EdgesAre
  <2>2. ASSUME NEW c \in E PROVE Lists(help[Append(node, c)], Under(Append(node, c), mode))
    BY <1>1, <1>3 DEF Depths
  <2>3. \A c \in E : Lists(printed[c], part[c])
    BY <2>2
  <2>4. printed \in [E -> Seq(Nat)]
    BY <2>2 DEF Lists
  <2>5. \A c, d \in E : c # d => part[c] \cap part[d] = {}
    BY UnderIs
  <2>6. UNION {part[c] : c \in E} = UNION {Under(Append(node, c), mode) : c \in E}
    OBVIOUS
  <2>7. Lists(InOrder(printed), UNION {part[c] : c \in E})
    <3>1. PartsOf(printed, part, E)
      BY <2>3, <2>5 DEF PartsOf
    <3> HIDE DEF E, printed, part
    <3>2. QED
      BY <2>1, <2>4, <3>1, InOrderLists
  <2>8. Lists(Usages(trie, node, mode), UsagesOf(node, mode))
    <3>1. CASE trie[node] = NoCommand
      <4>1. UsagesOf(node, mode) = {}
        BY <3>1 DEF Agrees, UsagesOf
      <4>2. QED
        BY <3>1, <4>1, UsagesAre
    <3>2. CASE trie[node] # NoCommand
      <4>1. trie[node].command = node
        BY <3>2 DEF Agrees
      <4>2. QED
        BY <3>2, <4>1, UsagesAre
    <3>3. QED
      BY <3>1, <3>2
  <2>9. UsagesOf(node, mode) \cap UNION {part[c] : c \in E} = {}
    BY <2>6, UnderIs
  <2>10. Under(node, mode) = UsagesOf(node, mode) \cup UNION {part[c] : c \in E}
    BY <2>6, UnderIs
  <2>11. help[node] = Usages(trie, node, mode) \o InOrder(printed)
    BY <1>2
  <2> HIDE DEF E, printed, part
  <2>12. Lists(Usages(trie, node, mode) \o InOrder(printed),
               UsagesOf(node, mode) \cup UNION {part[c] : c \in E})
    BY <2>7, <2>8, <2>9, ListsConcat
  <2>13. QED
    BY <2>10, <2>11, <2>12
<1>4. Inductive(G, D, m)
  <2>1. ASSUME NEW node \in D, \A y \in D : m[y] < m[node] => y \in G PROVE node \in G
    BY <1>3, <2>1
  <2> HIDE DEF G, D
  <2>2. QED
    BY <2>1 DEF Inductive
<1>5. m \in [D -> Nat]
  BY <1>1 DEF Depths
<1>6. \A node \in D : node \in G
  <2> HIDE DEF G, D
  <2>1. QED
    BY <1>4, <1>5, MeasureInduction
<1>7. QED
  BY <1>6 DEF help

-----------------------------------------------------------------------------
\* What cl_create() has returned when it has returned a tree.
BuiltInv ==
  /\ TreeInv
  /\ root = [x \in DOMAIN root |-> root[x]]
  /\ result = "tree" => i = Len(commands)

LEMMA BuiltInvariant == Spec => []BuiltInv
<1>1. Spec => []TreeInv
  BY TreeInvariant
<1>2. Init => BuiltInv
  <2>1. Init => TreeInv
    BY InitMatches
  <2>2. QED
    BY <2>1 DEF Init, BuiltInv
<1>3. TreeInv /\ BuiltInv /\ [Next]_vars => (root = [x \in DOMAIN root |-> root[x]])'
  <2>1. ASSUME BuiltInv, Add PROVE (root = [x \in DOMAIN root |-> root[x]])'
    BY <2>1 DEF Add, TrieAdd
  <2>2. ASSUME BuiltInv, UNCHANGED root PROVE (root = [x \in DOMAIN root |-> root[x]])'
    BY <2>2 DEF BuiltInv
  <2>3. QED
    BY <2>1, <2>2 DEF Next, AddFails, AddAborts, Return, vars
<1>4. TreeInv' /\ BuiltInv /\ [Next]_vars => (result = "tree" => i = Len(commands))'
  BY DEF Next, Add, AddFails, AddAborts, Return, vars, BuiltInv
<1>5. TreeInv' /\ BuiltInv /\ [Next]_vars => BuiltInv'
  BY <1>3, <1>4 DEF BuiltInv
<1>6. QED
  BY <1>1, <1>2, <1>5, PTL DEF Spec

\* A prefix's prefixes are prefixes.
LEMMA PrefixesOfPrefix ==
  ASSUME NEW x \in Text, NEW y \in Prefixes(x)
  PROVE  y \in Text /\ Prefixes(y) \subseteq Prefixes(x) /\ Len(y) <= Len(x)
<1>1. PICK n \in 0 .. Len(x) : y = SubSeq(x, 1, n)
  BY DEF Prefixes
<1>2. Len(x) \in Nat /\ n \in Nat /\ n <= Len(x)
  BY DEF Text
<1>3. y \in Text /\ Len(y) = n /\ \A j \in 1 .. n : y[j] = x[j]
  BY <1>1, <1>2 DEF Text
<1>4. ASSUME NEW p \in 0 .. n PROVE SubSeq(y, 1, p) = SubSeq(x, 1, p)
  <2>1. p <= Len(x) /\ p <= Len(y)
    BY <1>2, <1>3
  <2>2. /\ SubSeq(y, 1, p) \in Text /\ Len(SubSeq(y, 1, p)) = p
        /\ \A j \in 1 .. p : SubSeq(y, 1, p)[j] = y[j]
    BY <1>3, <2>1 DEF Text
  <2>3. /\ SubSeq(x, 1, p) \in Text /\ Len(SubSeq(x, 1, p)) = p
        /\ \A j \in 1 .. p : SubSeq(x, 1, p)[j] = x[j]
    BY <2>1 DEF Text
  <2>4. \A j \in 1 .. p : y[j] = x[j]
    BY <1>2, <1>3
  <2>5. QED
    BY <2>2, <2>3, <2>4, SeqEqual DEF Text
<1>5. \A p \in 0 .. n : p \in 0 .. Len(x)
  BY <1>2
<1>6. QED
  BY <1>2, <1>3, <1>4, <1>5 DEF Prefixes

\* The commands of a table are of bounded length.
LEMMA LengthsAreBounded ==
  ASSUME NEW table \in Tables
  PROVE  \E d \in Nat : \A k \in 1 .. Len(table) : Len(table[k].command) <= d
<1> DEFINE Bound(n, d) == \A k \in 1 .. n : k <= Len(table) => Len(table[k].command) <= d
           Good == {n \in Nat : \E d \in Nat : Bound(n, d)}
<1>1. /\ Len(table) \in Nat
      /\ \A k \in 1 .. Len(table) : Len(table[k].command) \in Nat
  BY TableType DEF NUL
<1>2. 0 \in Good
  <2>1. Bound(0, 0)
    OBVIOUS
  <2>2. QED
    BY <2>1
<1>3. ASSUME NEW n \in Nat, n \in Good PROVE n + 1 \in Good
  <2>1. PICK d \in Nat : Bound(n, d)
    BY <1>3
  <2>2. CASE n + 1 <= Len(table)
    <3>1. PICK p \in Nat : p = Len(table[n + 1].command)
      BY <1>1, <2>2
    <3>2. PICK q \in Nat : q >= d /\ q >= p
      <4>1. CASE d >= p
        BY <4>1
      <4>2. CASE p >= d
        BY <4>2
      <4>3. QED
        BY <4>1, <4>2
    <3>3. ASSUME NEW k \in 1 .. n + 1, k <= Len(table) PROVE Len(table[k].command) <= q
      <4>1. CASE k = n + 1
        BY <3>1, <3>2, <4>1
      <4>2. CASE k \in 1 .. n
        <5>1. Len(table[k].command) <= d /\ Len(table[k].command) \in Nat
          BY <1>1, <2>1, <3>3, <4>2
        <5>2. QED
          BY <3>2, <5>1
      <4>3. QED
        BY <4>1, <4>2
    <3>4. Bound(n + 1, q)
      BY <3>3
    <3> HIDE DEF Bound
    <3>5. QED
      BY <3>2, <3>4
  <2>3. CASE ~(n + 1 <= Len(table))
    <3>1. Bound(n + 1, d)
      BY <1>1, <2>1, <2>3
    <3> HIDE DEF Bound
    <3>2. QED
      BY <3>1
  <2>4. QED
    BY <2>2, <2>3
<1>4. Len(table) \in Good
  <2> HIDE DEF Good
  <2>1. QED
    BY <1>1, <1>2, <1>3, Induction
<1>5. QED
  BY <1>4

LEMMA BuiltIsTrie ==
  ASSUME BuiltInv, Built
  PROVE  IsTrie(root) /\ Agrees(root) /\ <<>> \in DOMAIN root /\ Len(commands) \in Nat
<1>1. /\ commands \in Tables /\ i = Len(commands) /\ Len(commands) \in Nat
      /\ DOMAIN root = PathsGiven(Len(commands))
      /\ DOMAIN root # {}
  <2>1. commands \in Tables /\ i = Len(commands) /\ DOMAIN root = PathsGiven(i)
    BY DEF BuiltInv, Built, TreeInv, TrieMatchesTable
  <2>2. DOMAIN root # {}
    <3>1. SUFFICES ASSUME DOMAIN root = {} PROVE FALSE
      OBVIOUS
    <3>2. root = [x \in {} |-> root[x]]
      BY <3>1 DEF BuiltInv
    <3>3. [x \in {} |-> root[x]] = [x \in {} |-> NoCommand]
      OBVIOUS
    <3>4. QED
      BY <3>2, <3>3 DEF Built
  <2>3. QED
    BY <2>1, <2>2, TableType
<1>2. \A k \in 1 .. Len(commands) : commands[k].command \in Text
  BY <1>1, TablesAreTables
<1>3. ASSUME NEW x \in DOMAIN root
      PROVE  \E k \in 1 .. Len(commands) : x \in Prefixes(commands[k].command)
  BY <1>1 DEF PathsGiven
<1>4. ASSUME NEW k \in 1 .. Len(commands) PROVE Prefixes(commands[k].command) \subseteq DOMAIN root
  BY <1>1 DEF PathsGiven
<1>5. IsTrie(root)
  <2>1. ASSUME NEW x \in DOMAIN root PROVE x \in Text /\ Prefixes(x) \subseteq DOMAIN root
    BY <1>2, <1>3, <1>4, PrefixesOfPrefix
  <2>2. PICK d \in Nat : \A k \in 1 .. Len(commands) : Len(commands[k].command) <= d
    BY <1>1, LengthsAreBounded
  <2>3. ASSUME NEW x \in DOMAIN root PROVE Len(x) <= d
    <3>1. PICK k \in 1 .. Len(commands) : x \in Prefixes(commands[k].command)
      BY <1>3
    <3>2. /\ Len(x) <= Len(commands[k].command) /\ Len(commands[k].command) <= d
          /\ Len(x) \in Nat /\ Len(commands[k].command) \in Nat
      BY <1>2, <2>1, <2>2, <3>1, PrefixesOfPrefix DEF Text
    <3>3. QED
      BY <3>2
  <2>4. QED
    BY <2>1, <2>2, <2>3 DEF IsTrie
<1>6. <<>> \in DOMAIN root
  <2>1. PICK k \in 1 .. Len(commands) : TRUE
    BY <1>1, <1>3
  <2>2. <<>> \in Prefixes(commands[k].command)
    <3>1. PICK c \in Text : c = commands[k].command
      BY <1>2
    <3>2. 0 \in 0 .. Len(c) /\ SubSeq(c, 1, 0) = <<>>
      BY SubSeqEmpty DEF Text
    <3>3. QED
      BY <3>1, <3>2 DEF Prefixes
  <2>3. QED
    BY <1>4, <2>2
<1>7. Agrees(root)
  <2>1. ASSUME NEW k \in 1 .. Len(commands) PROVE commands[k].command \in DOMAIN root
    BY <1>2, <1>4, PrefixOfItself DEF Text
  <2>2. ASSUME NEW x \in DOMAIN root
        PROVE  IF root[x] = NoCommand THEN \A k \in 1 .. Len(commands) : commands[k].command # x
               ELSE root[x].command = x
    <3>1. IF Given(i, x) = {} THEN root[x] = NoCommand ELSE root[x].command = x
      BY DEF BuiltInv, TreeInv, TrieMatchesTable
    <3>2. CASE Given(i, x) = {}
      BY <1>1, <3>1, <3>2 DEF Given
    <3>3. CASE Given(i, x) # {}
      <4>1. x # NoText
        <5>1. x \in Text
          BY <1>5 DEF IsTrie
        <5>2. QED
          BY <5>1 DEF Text, NoText, NUL
      <4>2. root[x] # NoCommand
        BY <3>1, <3>3, <4>1 DEF NoCommand
      <4>3. QED
        BY <3>1, <3>3, <4>2
    <3>4. QED
      BY <3>2, <3>3
  <2>3. QED
    BY <2>1, <2>2 DEF Agrees
<1>8. QED
  BY <1>1, <1>5, <1>6, <1>7

(***************************************************************************)
(* For every table and every visible(), cl_help() lists the entries whose  *)
(* modes make them visible, each once, and no other.                       *)
(***************************************************************************)
THEOREM HelpIsRight == Spec => []HelpIsExact
<1>1. ASSUME BuiltInv PROVE HelpIsExact
  <2>1. SUFFICES ASSUME Built, NEW mode \in Modes
                 PROVE  LET printed == trie_help(root, mode)[<<>>] IN
                        ToSet(printed) = Shown(mode) /\ Len(printed) = Cardinality(Shown(mode))
    BY DEF HelpIsExact
  <2>2. /\ IsTrie(root) /\ Agrees(root) /\ <<>> \in DOMAIN root /\ Len(commands) \in Nat
    BY <1>1, <2>1, BuiltIsTrie
  <2>3. Lists(trie_help(root, mode)[<<>>], Under(<<>>, mode))
    BY <2>2, HelpLists
  <2>4. Under(<<>>, mode) = Shown(mode)
    <3>1. ASSUME NEW k \in 1 .. Len(commands) PROVE IsPrefix(<<>>, commands[k].command)
      <4>1. commands[k].command \in Text /\ <<>> \in Text
        BY <2>2 DEF Agrees, IsTrie
      <4>2. Len(<<>>) <= Len(commands[k].command) /\ 1 .. Len(<<>>) = {}
        BY <4>1 DEF Text
      <4>3. QED
        BY <4>1, <4>2, PrefixIs
    <3>2. QED
      BY <3>1 DEF Under, Shown
  <2>5. QED
    BY <2>3, <2>4, ListsCount DEF Lists
<1>2. QED
  BY <1>1, BuiltInvariant, PTL

-----------------------------------------------------------------------------
\* The first place where x and y differ is k, and x is the one that has ended
\* there or has the lesser byte.
DifferAt(x, y, k) ==
  /\ k \in 1 .. Len(y)
  /\ \A j \in 1 .. k - 1 : j <= Len(x) /\ x[j] = y[j]
  /\ k = Len(x) + 1 \/ (k <= Len(x) /\ x[k] < y[k])

LEMMA PrecedesIs ==
  ASSUME NEW x \in Text, NEW y \in Text
  PROVE  Precedes(x, y) <=> \E k \in Nat : DifferAt(x, y, k)
<1>1. Len(x) \in Nat /\ Len(y) \in Nat
  BY DEF Text
<1>2. ASSUME IsStrictPrefix(x, y) PROVE DifferAt(x, y, Len(x) + 1)
  <2>1. IsPrefix(x, y) /\ x # y
    BY <1>2 DEF IsStrictPrefix
  <2>2. Len(x) <= Len(y) /\ \A j \in 1 .. Len(x) : x[j] = y[j]
    BY <2>1, PrefixIs
  <2>3. Len(x) # Len(y)
    BY <2>1, <2>2, SeqEqual DEF Text
  <2>4. QED
    BY <1>1, <2>2, <2>3 DEF DifferAt
<1>3. ASSUME NEW k \in 1 .. Len(x), k <= Len(y), x[k] < y[k],
             \A j \in 1 .. k - 1 : x[j] = y[j]
      PROVE  DifferAt(x, y, k)
  BY <1>1, <1>3 DEF DifferAt
<1>4. ASSUME NEW k \in Nat, DifferAt(x, y, k) PROVE Precedes(x, y)
  <2>1. CASE k = Len(x) + 1
    <3>1. Len(x) < Len(y) /\ \A j \in 1 .. Len(x) : x[j] = y[j]
      BY <1>1, <1>4, <2>1 DEF DifferAt
    <3>2. IsPrefix(x, y) /\ x # y
      BY <1>1, <3>1, PrefixIs
    <3>3. QED
      BY <3>2 DEF Precedes, IsStrictPrefix
  <2>2. CASE k <= Len(x) /\ x[k] < y[k]
    <3>1. k \in 1 .. Len(x) /\ k <= Len(y) /\ \A j \in 1 .. k - 1 : x[j] = y[j]
      BY <1>1, <1>4, <2>2 DEF DifferAt
    <3>2. QED
      BY <2>2, <3>1 DEF Precedes
  <2>3. QED
    BY <1>4, <2>1, <2>2 DEF DifferAt
<1>5. ASSUME Precedes(x, y) PROVE \E k \in Nat : DifferAt(x, y, k)
  <2>1. CASE IsStrictPrefix(x, y)
    BY <1>1, <1>2, <2>1
  <2>2. CASE \E k \in 1 .. Len(x) :
               /\ k <= Len(y) /\ x[k] < y[k]
               /\ \A j \in 1 .. k - 1 : x[j] = y[j]
    BY <1>1, <1>3, <2>2
  <2>3. QED
    BY <1>5, <2>1, <2>2 DEF Precedes
<1>6. QED
  BY <1>4, <1>5

LEMMA PrecedesOneWay ==
  ASSUME NEW x \in Text, NEW y \in Text, Precedes(x, y)
  PROVE  ~Precedes(y, x) /\ x # y
<1>1. PICK k \in Nat : DifferAt(x, y, k)
  BY PrecedesIs
<1>2. /\ Len(x) \in Nat /\ Len(y) \in Nat
      /\ \A j \in 1 .. Len(x) : x[j] \in Byte
      /\ \A j \in 1 .. Len(y) : y[j] \in Byte
  BY DEF Text
<1>3. ASSUME NEW n \in Nat, DifferAt(y, x, n) PROVE FALSE
  <2>1. CASE k < n
    <3>1. k \in 1 .. n - 1 /\ k \in 1 .. Len(x) /\ k \in 1 .. Len(y)
      BY <1>1, <1>2, <1>3, <2>1 DEF DifferAt
    <3>2. x[k] < y[k] /\ y[k] = x[k]
      BY <1>1, <1>2, <1>3, <3>1 DEF DifferAt
    <3>3. PICK p \in Byte : p = x[k]
      BY <1>2, <3>1
    <3>4. p < p
      BY <3>2, <3>3
    <3>5. QED
      BY <3>4 DEF Byte
  <2>2. CASE n < k
    <3>1. n \in 1 .. k - 1 /\ n \in 1 .. Len(x) /\ n \in 1 .. Len(y)
      BY <1>1, <1>2, <1>3, <2>2 DEF DifferAt
    <3>2. y[n] < x[n] /\ x[n] = y[n]
      BY <1>1, <1>2, <1>3, <3>1 DEF DifferAt
    <3>3. PICK p \in Byte : p = x[n]
      BY <1>2, <3>1
    <3>4. p < p
      BY <3>2, <3>3
    <3>5. QED
      BY <3>4 DEF Byte
  <2>3. CASE k = n
    <3>1. k \in 1 .. Len(x) /\ k \in 1 .. Len(y) /\ x[k] < y[k] /\ y[k] < x[k]
      BY <1>1, <1>2, <1>3, <2>3 DEF DifferAt
    <3>2. PICK p \in Byte, q \in Byte : p = x[k] /\ q = y[k]
      BY <1>2, <3>1
    <3>3. p < q /\ q < p
      BY <3>1, <3>2
    <3>4. QED
      BY <3>3 DEF Byte
  <2>4. QED
    BY <2>1, <2>2, <2>3
<1>4. ~Precedes(y, x)
  BY <1>3, PrecedesIs
<1>5. QED
  BY <1>4

\* A node precedes what is below it, and what is below by a lesser edge
\* precedes what is below by a greater one.
LEMMA EdgesOrder ==
  ASSUME NEW node \in Text, NEW x \in Text, NEW y \in Text,
         IsPrefix(node, x), IsPrefix(node, y), Len(node) < Len(y),
         x = node \/ (Len(node) < Len(x) /\ x[Len(node) + 1] < y[Len(node) + 1])
  PROVE  Precedes(x, y)
<1>1. /\ Len(node) \in Nat /\ Len(x) \in Nat /\ Len(y) \in Nat
      /\ Len(node) <= Len(x) /\ \A j \in 1 .. Len(node) : node[j] = x[j] /\ node[j] = y[j]
  BY PrefixIs DEF Text
<1>2. DifferAt(x, y, Len(node) + 1)
  <2>1. CASE x = node
    BY <1>1, <2>1 DEF DifferAt
  <2>2. CASE Len(node) < Len(x) /\ x[Len(node) + 1] < y[Len(node) + 1]
    BY <1>1, <2>2 DEF DifferAt
  <2>3. QED
    BY <2>1, <2>2
<1>3. QED
  BY <1>1, <1>2, PrecedesIs

IsFirst(x, paths) == x \in paths /\ \A y \in paths \ {x} : Precedes(x, y)

LEMMA FirstIs ==
  ASSUME NEW paths \in SUBSET Text, NEW x, IsFirst(x, paths)
  PROVE  First(paths) = x
<1>1. paths # {} /\ \A y \in paths : y \in Text
  BY DEF IsFirst
<1>2. ASSUME NEW y \in paths, \A z \in paths \ {y} : Precedes(y, z) PROVE y = x
  <2>1. y # x => Precedes(y, x) /\ Precedes(x, y) /\ x \in Text /\ y \in Text
    BY <1>1, <1>2 DEF IsFirst
  <2>2. QED
    BY <2>1, PrecedesOneWay
<1>3. QED
  <2>1. x \in paths /\ \A y \in paths \ {x} : Precedes(x, y)
    BY DEF IsFirst
  <2>2. First(paths) = CHOOSE y \in paths : \A z \in paths \ {y} : Precedes(y, z)
    BY <1>1 DEF First
  <2>3. QED
    BY <1>2, <2>1, <2>2, Zenon

(***************************************************************************)
(* What a call returns that looks for the first of the commands W after    *)
(* prev, and of the ends of words A: it has left *prev as it was unless it *)
(* has met it.                                                             *)
(***************************************************************************)
Finds(r, prev, W, A) ==
  /\ r.next = NoNode => /\ Following(W, prev) \cup A = {}
                        /\ r.prev = IF prev \in W THEN NoNode ELSE prev
  /\ r.next # NoNode => IsFirst(r.next, Following(W, prev) \cup A)

AllPrecede(X, Y) == \A x \in X, y \in Y : Precedes(x, y)

\* A search goes on behind another one, with the cursor that that one left.
LEMMA SearchesJoin ==
  ASSUME NEW W1 \in SUBSET Text, NEW W2 \in SUBSET Text,
         NEW A1 \in SUBSET Text, NEW A2 \in SUBSET Text,
         AllPrecede(W1 \cup A1, W2 \cup A2),
         NEW prev, NEW r1, NEW r2, Finds(r1, prev, W1, A1), Finds(r2, r1.prev, W2, A2)
  PROVE  Finds(IF r1.next # NoNode THEN r1 ELSE r2, prev, W1 \cup W2, A1 \cup A2)
<1> DEFINE W == W1 \cup W2
           A == A1 \cup A2
<1>1. NoNode \notin W
  <2>1. NoNode \notin Text
    BY DEF NoNode, NoText, Text, NUL
  <2>2. QED
    BY <2>1, Zenon
<1>2. ASSUME NEW x \in W1 \cup A1, NEW y \in W2 \cup A2
      PROVE  Precedes(x, y) /\ ~Precedes(y, x) /\ x # y
  <2>1. x \in Text /\ y \in Text /\ Precedes(x, y)
    BY DEF AllPrecede
  <2>2. QED
    BY <2>1, PrecedesOneWay
<1>3. /\ prev \in W1 => Following(W, prev) = Following(W1, prev) \cup W2
      /\ prev \in W2 => Following(W, prev) = Following(W2, prev) /\ Following(W1, prev) = {}
      /\ prev \notin W /\ prev # NoNode =>
           Following(W, prev) = {} /\ Following(W1, prev) = {} /\ Following(W2, prev) = {}
      /\ prev = NoNode => Following(W, prev) = W /\ Following(W1, prev) = W1
      /\ Following(W2, NoNode) = W2
  BY <1>1, <1>2 DEF Following
<1>4. Following(W, prev) \subseteq Following(W1, prev) \cup W2
  <2>1. Following(W2, prev) \subseteq W2
    BY DEF Following
  <2> HIDE DEF W
  <2>2. QED
    BY <1>3, <2>1 DEF W
<1>5. Following(W1, prev) \subseteq Following(W, prev)
  BY <1>1, <1>3
<1>6. CASE r1.next # NoNode
  <2>1. IsFirst(r1.next, Following(W1, prev) \cup A1)
    BY <1>6 DEF Finds
  <2>2. Following(W1, prev) \subseteq W1
    BY DEF Following
  <2>3. ASSUME NEW y \in (Following(W, prev) \cup A) \ {r1.next} PROVE Precedes(r1.next, y)
    <3>1. y \in Following(W1, prev) \cup A1 \/ y \in W2 \cup A2
      BY <1>4
    <3>2. r1.next \in W1 \cup A1
      BY <2>1, <2>2 DEF IsFirst
    <3>3. QED
      BY <1>2, <2>1, <3>1, <3>2 DEF IsFirst
  <2>4. r1.next \in Following(W, prev) \cup A
    BY <1>5, <2>1 DEF IsFirst
  <2>5. QED
    BY <1>6, <2>3, <2>4 DEF Finds, IsFirst
<1>7. CASE r1.next = NoNode
  <2>1. /\ Following(W1, prev) = {} /\ A1 = {}
        /\ r1.prev = IF prev \in W1 THEN NoNode ELSE prev
    BY <1>7 DEF Finds
  <2>2. Following(W, prev) = Following(W2, r1.prev)
    <3>1. CASE prev \in W1
      BY <1>3, <2>1, <3>1
    <3>2. CASE prev \in W2 /\ prev \notin W1
      BY <1>3, <2>1, <3>2
    <3>3. CASE prev = NoNode
      BY <1>1, <1>3, <2>1, <3>3
    <3>4. CASE prev \notin W /\ prev # NoNode
      BY <1>3, <2>1, <3>4
    <3>5. QED
      BY <3>1, <3>2, <3>3, <3>4
  <2>3. (IF r1.prev \in W2 THEN NoNode ELSE r1.prev) = IF prev \in W THEN NoNode ELSE prev
    BY <1>1, <2>1
  <2>4. QED
    BY <1>7, <2>1, <2>2, <2>3 DEF Finds
<1>8. QED
  BY <1>6, <1>7

-----------------------------------------------------------------------------
Spaceless(x, from, to) == \A j \in from .. to : x[j] # SP

LEMMA LabelIs ==
  ASSUME NEW node \in Text, NEW x \in Text, IsPrefix(node, x)
  PROVE  /\ Len(node) \in Nat /\ Len(x) \in Nat /\ Len(node) <= Len(x)
         /\ Len(Label(node, x)) = Len(x) - Len(node)
         /\ \A j \in 1 .. Len(x) - Len(node) : Label(node, x)[j] = x[Len(node) + j]
<1>1. PICK m \in Nat, n \in Nat : m = Len(node) /\ n = Len(x) /\ m <= n
  BY PrefixIs DEF Text
<1>2. /\ Len(SubSeq(x, m + 1, n)) = n - m
      /\ \A j \in 1 .. n - m : SubSeq(x, m + 1, n)[j] = x[m + j]
  BY <1>1 DEF Text
<1>3. QED
  BY <1>1, <1>2 DEF Label

LEMMA WordCommandsAre ==
  ASSUME NEW trie, IsTrie(trie), NEW mode, NEW node \in DOMAIN trie, NEW x
  PROVE  x \in WordCommands(trie, node, mode) <=>
           /\ x \in Below(trie, node) /\ VisibleCommand(trie, x, mode)
           /\ Spaceless(x, Len(node) + 1, Len(x))
<1>1. ASSUME x \in Below(trie, node)
      PROVE  SP \notin ToSet(Label(node, x)) <=> Spaceless(x, Len(node) + 1, Len(x))
  <2>1. node \in Text /\ x \in Text /\ IsPrefix(node, x)
    BY <1>1 DEF Below, IsTrie
  <2>2. PICK m \in Nat, n \in Nat : m = Len(node) /\ n = Len(x) /\ m <= n
    BY <2>1, LabelIs
  <2>3. /\ Len(Label(node, x)) = n - m
        /\ \A j \in 1 .. n - m : Label(node, x)[j] = x[m + j]
    BY <2>1, <2>2, LabelIs
  <2>4. ToSet(Label(node, x)) = {Label(node, x)[j] : j \in 1 .. n - m}
    <3>1. Label(node, x) \in Seq(Byte)
      BY <2>1, <2>2 DEF Label, Text
    <3>2. DOMAIN Label(node, x) = 1 .. n - m
      BY <2>3, <3>1
    <3>3. QED
      BY <3>2 DEF ToSet
  <2>5. ASSUME NEW j \in m + 1 .. n PROVE j - m \in 1 .. n - m /\ Label(node, x)[j - m] = x[j]
    <3>1. PICK k \in 1 .. n - m : k = j - m /\ m + k = j
      BY <2>2
    <3>2. QED
      BY <2>3, <3>1
  <2>6. ASSUME NEW j \in 1 .. n - m PROVE m + j \in m + 1 .. n
    BY <2>2
  <2>7. ASSUME SP \in ToSet(Label(node, x)) PROVE ~Spaceless(x, m + 1, n)
    <3>1. PICK j \in 1 .. n - m : Label(node, x)[j] = SP
      BY <2>4, <2>7
    <3>2. m + j \in m + 1 .. n /\ x[m + j] = SP
      BY <2>3, <2>6, <3>1
    <3>3. QED
      BY <3>2 DEF Spaceless
  <2>8. ASSUME NEW j \in m + 1 .. n, x[j] = SP PROVE SP \in ToSet(Label(node, x))
    <3>1. j - m \in 1 .. n - m /\ Label(node, x)[j - m] = SP
      BY <2>5, <2>8
    <3>2. QED
      BY <2>4, <3>1
  <2>9. SP \notin ToSet(Label(node, x)) <=> Spaceless(x, m + 1, n)
    BY <2>7, <2>8 DEF Spaceless
  <2>10. QED
    BY <2>2, <2>9
<1>2. QED
  BY <1>1 DEF WordCommands

LEMMA WordEndsAre ==
  ASSUME NEW trie, IsTrie(trie), NEW node \in DOMAIN trie, NEW x
  PROVE  x \in WordEnds(trie, node) <=>
           /\ x \in Below(trie, node) /\ Len(node) < Len(x)
           /\ x[Len(x)] = SP /\ Spaceless(x, Len(node) + 1, Len(x) - 1)
<1>1. SUFFICES ASSUME x \in Below(trie, node)
      PROVE  /\ Label(node, x) # <<>>
             /\ Last(Label(node, x)) = SP
             /\ SP \notin ToSet(Front(Label(node, x)))
             <=>
             /\ Len(node) < Len(x)
             /\ x[Len(x)] = SP /\ Spaceless(x, Len(node) + 1, Len(x) - 1)
  BY DEF WordEnds
<1>2. node \in Text /\ x \in Text /\ IsPrefix(node, x)
  BY <1>1 DEF Below, IsTrie
<1>3. PICK m \in Nat, n \in Nat : m = Len(node) /\ n = Len(x) /\ m <= n
  BY <1>2, LabelIs
<1>4. PICK l \in Seq(Byte) : l = Label(node, x)
  <2>1. Label(node, x) \in Seq(Byte)
    BY <1>2, <1>3 DEF Label, Text
  <2>2. QED
    BY <2>1
<1>5. /\ Len(l) = n - m
      /\ \A j \in 1 .. n - m : l[j] = x[m + j]
  BY <1>2, <1>3, <1>4, LabelIs
<1>6. l # <<>> <=> m < n
  BY <1>3, <1>5
<1>7. ASSUME m < n
      PROVE  /\ Last(l) = x[n]
             /\ SP \notin ToSet(Front(l)) <=> Spaceless(x, m + 1, n - 1)
  <2>1. PICK p \in Nat : p = n - m - 1 /\ p + 1 = Len(l) /\ m + (p + 1) = n
    <3>1. n - m - 1 \in Nat /\ (n - m - 1) + 1 = Len(l) /\ m + ((n - m - 1) + 1) = n
      BY <1>3, <1>5, <1>7
    <3>2. QED
      BY <3>1
  <2>2. Last(l) = x[n]
    BY <1>5, <2>1 DEF Last
  <2>3. /\ Front(l) \in Seq(Byte) /\ Len(Front(l)) = p
        /\ \A j \in 1 .. p : Front(l)[j] = l[j]
    <3>1. Front(l) = SubSeq(l, 1, p) /\ p <= Len(l)
      BY <2>1 DEF Front
    <3>2. QED
      BY <3>1
  <2>4. ToSet(Front(l)) = {Front(l)[j] : j \in 1 .. p}
    BY <2>3 DEF ToSet
  <2>5. ASSUME NEW j \in m + 1 .. n - 1 PROVE j - m \in 1 .. p /\ Front(l)[j - m] = x[j]
    <3>1. PICK k \in 1 .. p : k = j - m /\ m + k = j /\ k \in 1 .. n - m
      BY <2>1
    <3>2. Front(l)[k] = x[m + k]
      BY <1>5, <2>3, <3>1
    <3>3. QED
      BY <3>1, <3>2
  <2>6. ASSUME NEW j \in 1 .. p PROVE m + j \in m + 1 .. n - 1 /\ Front(l)[j] = x[m + j]
    <3>1. m + j \in m + 1 .. n - 1 /\ j \in 1 .. n - m
      BY <2>1
    <3>2. QED
      BY <1>5, <2>3, <3>1
  <2>7. SP \notin ToSet(Front(l)) <=> Spaceless(x, m + 1, n - 1)
    BY <2>4, <2>5, <2>6 DEF Spaceless
  <2>8. QED
    BY <2>2, <2>7
<1>8. QED
  BY <1>3, <1>4, <1>6, <1>7

\* Those of X that go on from the node by byte c, and by byte b or a greater.
On(X, node, c) == {x \in X : Len(node) < Len(x) /\ x[Len(node) + 1] = c}
OnFrom(X, node, b) == {x \in X : Len(node) < Len(x) /\ x[Len(node) + 1] >= b}

LEMMA BelowIs ==
  ASSUME NEW trie, IsTrie(trie), NEW node \in DOMAIN trie
  PROVE  /\ node \in Below(trie, node)
         /\ Below(trie, node) \subseteq DOMAIN trie
         /\ \A x \in Below(trie, node) :
              x # node => Len(node) < Len(x) /\ x[Len(node) + 1] \in Edges(trie, node)
         /\ \A c \in Edges(trie, node) :
              Below(trie, Append(node, c)) = On(Below(trie, node), node, c)
<1>1. node \in Text /\ DOMAIN trie \subseteq Text
  BY DEF IsTrie
<1>2. Edges(trie, node) = {c \in Byte \ {NUL} : Append(node, c) \in DOMAIN trie}
  BY EdgesAre
<1>3. ASSUME NEW x \in Below(trie, node), x # node
      PROVE  /\ Len(node) < Len(x) /\ x[Len(node) + 1] \in Edges(trie, node)
             /\ IsPrefix(Append(node, x[Len(node) + 1]), x)
  <2>1. x \in DOMAIN trie /\ x \in Text /\ IsPrefix(node, x)
    BY <1>1 DEF Below
  <2>2. PICK c \in Byte \ {NUL} : /\ Len(node) < Len(x) /\ x[Len(node) + 1] = c
                                  /\ Append(node, c) \in Prefixes(x)
                                  /\ IsPrefix(Append(node, c), x)
    BY <1>1, <1>3, <2>1, GoesOn
  <2>3. Append(node, c) \in DOMAIN trie
    BY <2>1, <2>2 DEF IsTrie
  <2>4. c \in Edges(trie, node)
    BY <1>2, <2>3
  <2>5. QED
    BY <2>2, <2>4
<1>4. ASSUME NEW c \in Edges(trie, node), NEW x \in Below(trie, Append(node, c))
      PROVE  x \in On(Below(trie, node), node, c)
  <2>1. x \in DOMAIN trie /\ x \in Text /\ IsPrefix(Append(node, c), x) /\ c \in Byte \ {NUL}
    BY <1>1, <1>2 DEF Below
  <2>2. IsPrefix(node, x) /\ Len(node) < Len(x) /\ x[Len(node) + 1] = c
    BY <1>1, <2>1, OneEdge
  <2>3. QED
    BY <2>1, <2>2 DEF Below, On
<1>5. ASSUME NEW c \in Edges(trie, node), NEW x \in On(Below(trie, node), node, c)
      PROVE  x \in Below(trie, Append(node, c))
  <2>1. x \in Below(trie, node) /\ Len(node) < Len(x) /\ x[Len(node) + 1] = c
    BY DEF On
  <2>2. x # node
    BY <1>1, <2>1 DEF Text
  <2>3. IsPrefix(Append(node, c), x)
    BY <1>3, <2>1, <2>2
  <2>4. QED
    BY <2>1, <2>3 DEF Below
<1>6. node \in Below(trie, node)
  BY <1>1, PrefixOfSelf DEF Below
<1>7. QED
  BY <1>3, <1>4, <1>5, <1>6 DEF Below

\* What is on an edge is what the node there has, but a space ends the word.
WordsGoOn(trie, node, mode, c) ==
  /\ c # SP =>
       /\ WordCommands(trie, Append(node, c), mode) = On(WordCommands(trie, node, mode), node, c)
       /\ WordEnds(trie, Append(node, c)) = On(WordEnds(trie, node), node, c)
  /\ c = SP =>
       /\ On(WordCommands(trie, node, mode), node, c) = {}
       /\ On(WordEnds(trie, node), node, c) = {Append(node, c)}

LEMMA WordsOn ==
  ASSUME NEW trie, IsTrie(trie), NEW mode, NEW node \in DOMAIN trie, NEW c \in Edges(trie, node)
  PROVE  WordsGoOn(trie, node, mode, c)
<1>1. PICK child \in DOMAIN trie : child = Append(node, c)
  BY EdgesAre
<1>2. /\ node \in Text /\ child \in Text /\ Len(node) \in Nat /\ Len(child) = Len(node) + 1
      /\ child[Len(node) + 1] = c
  <2>1. node \in Text /\ c \in Byte \ {NUL}
    BY EdgesAre DEF IsTrie
  <2>2. QED
    BY <1>1, <2>1, AppendIs DEF Text
<1>3. Below(trie, child) = On(Below(trie, node), node, c)
  BY <1>1, BelowIs
<1>4. ASSUME NEW x \in Below(trie, child)
      PROVE  /\ x \in Below(trie, node) /\ x \in Text
             /\ Len(x) \in Nat /\ Len(node) + 1 <= Len(x) /\ x[Len(node) + 1] = c
  <2>1. x \in Below(trie, node) /\ Len(node) < Len(x) /\ x[Len(node) + 1] = c
    BY <1>3 DEF On
  <2>2. x \in Text
    BY <2>1 DEF Below, IsTrie
  <2>3. QED
    BY <1>2, <2>1, <2>2 DEF Text
<1>5. ASSUME NEW x \in Below(trie, child), NEW to \in Int, to >= Len(node) + 1
      PROVE  Spaceless(x, Len(node) + 1, to) <=> c # SP /\ Spaceless(x, Len(node) + 2, to)
  <2>1. PICK m \in Nat : m = Len(node)
    BY <1>2
  <2>2. \A j \in m + 1 .. to : j = m + 1 \/ j \in m + 2 .. to
    BY <2>1
  <2>3. m + 1 \in m + 1 .. to /\ \A j \in m + 2 .. to : j \in m + 1 .. to
    BY <1>5, <2>1
  <2>4. x[m + 1] = c
    BY <1>4, <2>1
  <2>5. Spaceless(x, m + 1, to) <=> c # SP /\ Spaceless(x, m + 2, to)
    BY <2>2, <2>3, <2>4 DEF Spaceless
  <2>6. QED
    BY <2>1, <2>5
<1>6. Len(child) + 1 = Len(node) + 2
  BY <1>2
<1>7. On(WordCommands(trie, node, mode), node, c) =
        {x \in Below(trie, child) : VisibleCommand(trie, x, mode)
                                    /\ Spaceless(x, Len(node) + 1, Len(x))}
  BY <1>3, WordCommandsAre DEF On
<1>8. On(WordEnds(trie, node), node, c) =
        {x \in Below(trie, child) : x[Len(x)] = SP /\ Spaceless(x, Len(node) + 1, Len(x) - 1)}
  BY <1>3, WordEndsAre DEF On
<1>9. ASSUME c # SP
      PROVE  /\ WordCommands(trie, child, mode) = On(WordCommands(trie, node, mode), node, c)
             /\ WordEnds(trie, child) = On(WordEnds(trie, node), node, c)
  <2>1. ASSUME NEW x \in Below(trie, child)
        PROVE  x \in WordCommands(trie, child, mode)
                 <=> VisibleCommand(trie, x, mode) /\ Spaceless(x, Len(node) + 1, Len(x))
    <3>1. Spaceless(x, Len(node) + 1, Len(x)) <=> Spaceless(x, Len(child) + 1, Len(x))
      <4>1. Len(x) \in Int /\ Len(x) >= Len(node) + 1
        BY <1>2, <1>4
      <4>2. QED
        BY <1>5, <1>6, <1>9, <4>1
    <3>2. QED
      BY <3>1, WordCommandsAre, Zenon
  <2>2. ASSUME NEW x \in Below(trie, child)
        PROVE  x \in WordEnds(trie, child)
                 <=> x[Len(x)] = SP /\ Spaceless(x, Len(node) + 1, Len(x) - 1)
    <3>1. CASE Len(x) = Len(node) + 1
      <4>1. x[Len(x)] # SP
        BY <1>4, <1>9, <3>1
      <4>2. QED
        BY <4>1, WordEndsAre
    <3>2. CASE Len(x) > Len(node) + 1
      <4>1. Len(x) - 1 \in Int /\ Len(x) - 1 >= Len(node) + 1
        BY <1>2, <1>4, <3>2
      <4>2. Spaceless(x, Len(node) + 1, Len(x) - 1) <=> Spaceless(x, Len(child) + 1, Len(x) - 1)
        BY <1>5, <1>6, <1>9, <4>1
      <4>3. Len(child) < Len(x)
        BY <1>2, <3>2
      <4>4. QED
        BY <4>2, <4>3, WordEndsAre, Zenon
    <3>3. Len(x) = Len(node) + 1 \/ Len(x) > Len(node) + 1
      BY <1>2, <1>4
    <3>4. QED
      BY <3>1, <3>2, <3>3
  <2>3. ASSUME NEW x, x \in WordCommands(trie, child, mode) \/ x \in WordEnds(trie, child)
        PROVE  x \in Below(trie, child)
    BY <2>3, WordCommandsAre, WordEndsAre
  <2>4. QED
    BY <1>7, <1>8, <2>1, <2>2, <2>3
<1>10. ASSUME c = SP
       PROVE  /\ On(WordCommands(trie, node, mode), node, c) = {}
              /\ On(WordEnds(trie, node), node, c) = {child}
  <2>1. ASSUME NEW x \in Below(trie, child) PROVE ~Spaceless(x, Len(node) + 1, Len(x))
    <3>1. Len(x) \in Int /\ Len(x) >= Len(node) + 1
      BY <1>2, <1>4
    <3>2. QED
      BY <1>5, <1>10, <3>1
  <2>2. ASSUME NEW x \in Below(trie, child), Spaceless(x, Len(node) + 1, Len(x) - 1)
        PROVE  x = child
    <3>1. ~(Len(x) - 1 >= Len(node) + 1)
      <4>1. Len(x) - 1 \in Int
        BY <1>4
      <4>2. QED
        BY <1>5, <1>10, <2>2, <4>1
    <3>2. Len(x) = Len(child)
      BY <1>2, <1>4, <3>1
    <3>3. x # child => Len(child) < Len(x)
      BY BelowIs
    <3>4. QED
      BY <1>2, <3>2, <3>3
  <2>3. child \in Below(trie, child) /\ child[Len(child)] = SP
        /\ Spaceless(child, Len(node) + 1, Len(child) - 1)
    <3>1. Len(node) + 1 .. Len(child) - 1 = {}
      BY <1>2
    <3>2. QED
      BY <1>2, <1>10, <3>1, BelowIs DEF Spaceless
  <2>4. QED
    BY <1>7, <1>8, <2>1, <2>2, <2>3
<1>11. QED
  BY <1>1, <1>9, <1>10 DEF WordsGoOn

-----------------------------------------------------------------------------
\* What a search returns, for each *prev.
Found(trie) == [next : Cursors(trie), prev : Cursors(trie)]
Searches(trie) == [Cursors(trie) -> Found(trie)]

\* The body of the recursive function in EdgeLoop.
LoopStep(node, called, from, b, prev) ==
  LET more == {c \in DOMAIN called : c >= b}
      goOn(e, found) ==
        IF e = SP THEN [next |-> Append(node, e), prev |-> prev]
        ELSE IF found.next # NoNode THEN found
        ELSE from[e + 1][found.prev]
  IN IF more = {} THEN [next |-> NoNode, prev |-> prev]
     ELSE goOn(Min(more), called[Min(more)][prev])

Loops(from, trie, node, called) ==
  from = [b \in 0 .. 256 |-> [prev \in Cursors(trie) |-> LoopStep(node, called, from, b, prev)]]

\* The body, case by case.
LoopStepCases(node, called, from, b, prev) ==
  /\ {c \in DOMAIN called : c >= b} = {} =>
       LoopStep(node, called, from, b, prev) = [next |-> NoNode, prev |-> prev]
  /\ \A e, n : Least(DOMAIN called, b, e, n) =>
       LoopStep(node, called, from, b, prev) =
         IF e = SP THEN [next |-> Append(node, e), prev |-> prev]
         ELSE IF called[e][prev].next # NoNode THEN called[e][prev]
         ELSE from[n][called[e][prev].prev]

LEMMA LoopStepIs ==
  ASSUME NEW called, NEW node, NEW from, NEW b, NEW prev
  PROVE  LoopStepCases(node, called, from, b, prev)
<1> DEFINE E == DOMAIN called
<1>1. {c \in E : c >= b} = {} =>
         LoopStep(node, called, from, b, prev) = [next |-> NoNode, prev |-> prev]
  BY Zenon DEF LoopStep
<1>2. ASSUME NEW e, NEW n, Least(E, b, e, n)
      PROVE  LoopStep(node, called, from, b, prev) =
                IF e = SP THEN [next |-> Append(node, e), prev |-> prev]
                ELSE IF called[e][prev].next # NoNode THEN called[e][prev]
                ELSE from[n][called[e][prev].prev]
  <2>1. {c \in E : c >= b} # {} /\ Min({c \in E : c >= b}) = e /\ n = e + 1
    BY <1>2 DEF Least
  <2>2. QED
    BY <2>1, Zenon DEF LoopStep
<1>3. QED
  BY <1>1, <1>2, Zenon DEF LoopStepCases

\* A turn depends on the turns after it only.
SameAfter(g, h, E, b) == \A e, n : Least(E, b, e, n) => g[n] = h[n]
SameStep(node, called, g, h, b, prev) ==
  LoopStep(node, called, g, b, prev) = LoopStep(node, called, h, b, prev)

LEMMA LoopStepSame ==
  ASSUME NEW called, DOMAIN called \in SUBSET Byte,
         NEW node, NEW g, NEW h, NEW b \in 0 .. 256, NEW prev, SameAfter(g, h, DOMAIN called, b)
  PROVE  SameStep(node, called, g, h, b, prev)
<1> DEFINE E == DOMAIN called
<1>0. LoopStepCases(node, called, g, b, prev) /\ LoopStepCases(node, called, h, b, prev)
  BY LoopStepIs
<1>1. CASE {c \in E : c >= b} = {}
  BY <1>0, <1>1 DEF SameStep, LoopStepCases
<1>2. CASE {c \in E : c >= b} # {}
  <2>1. PICK e, n : Least(E, b, e, n)
    BY <1>2, LeastExists
  <2>2. QED
    BY <1>0, <2>1 DEF SameAfter, SameStep, LoopStepCases
<1>3. QED
  BY <1>1, <1>2

LEMMA CursorTypes ==
  ASSUME NEW trie, NEW next \in Cursors(trie), NEW prev \in Cursors(trie)
  PROVE  /\ NoNode \in Cursors(trie)
         /\ [next |-> next, prev |-> prev] \in Found(trie)
BY DEF Cursors, Found

\* One turn of the loop is well typed if the turns after it are.
LEMMA LoopStepType ==
  ASSUME NEW trie, NEW node, NEW E \in SUBSET Byte,
         NEW called \in [E -> Searches(trie)], NEW from, NEW b \in 0 .. 256,
         SP \in E => Append(node, SP) \in Cursors(trie),
         \A n \in 0 .. 256 : n > b => from[n] \in Searches(trie),
         NEW prev \in Cursors(trie)
  PROVE  LoopStep(node, called, from, b, prev) \in Found(trie)
<1>0. DOMAIN called = E /\ LoopStepCases(node, called, from, b, prev)
  BY LoopStepIs
<1>1. CASE {c \in E : c >= b} = {}
  <2>1. LoopStep(node, called, from, b, prev) = [next |-> NoNode, prev |-> prev]
    BY <1>0, <1>1 DEF LoopStepCases
  <2>2. QED
    BY <2>1, CursorTypes
<1>2. CASE {c \in E : c >= b} # {}
  <2>1. PICK e, n : Least(E, b, e, n)
    BY <1>2, LeastExists
  <2>2. e \in E /\ n \in 0 .. 256 /\ n > b
    BY <2>1 DEF Least
  <2>3. LoopStep(node, called, from, b, prev) =
          IF e = SP THEN [next |-> Append(node, e), prev |-> prev]
          ELSE IF called[e][prev].next # NoNode THEN called[e][prev]
          ELSE from[n][called[e][prev].prev]
    BY <1>0, <2>1 DEF LoopStepCases
  <2>4. called[e][prev] \in Found(trie) /\ called[e][prev].prev \in Cursors(trie)
    <3>1. called[e] \in [Cursors(trie) -> Found(trie)]
      BY <2>2 DEF Searches
    <3>2. PICK r \in Found(trie) : r = called[e][prev]
      BY <3>1
    <3>3. r.prev \in Cursors(trie)
      BY DEF Found
    <3>4. QED
      BY <3>2, <3>3
  <2>5. from[n][called[e][prev].prev] \in Found(trie)
    BY <2>2, <2>4 DEF Searches
  <2>6. e = SP => [next |-> Append(node, e), prev |-> prev] \in Found(trie)
    BY <2>2, CursorTypes
  <2>7. QED
    BY <2>3, <2>4, <2>5, <2>6
<1>3. QED
  BY <1>1, <1>2

LEMMA LoopsExist ==
  ASSUME NEW trie, NEW node, NEW E \in SUBSET Byte,
         NEW called \in [E -> Searches(trie)],
         SP \in E => Append(node, SP) \in Cursors(trie)
  PROVE  \E from : Loops(from, trie, node, called)
<1> DEFINE S == Searches(trie)
           X == 0 .. 256
           m == ToGo
           Def(b, f) == [prev \in Cursors(trie) |-> LoopStep(node, called, f, b, prev)]
           step == [b \in X |-> [f \in [X -> S] |-> Def(b, f)]]
<1>0. DOMAIN called = E
  OBVIOUS
<1>1. ASSUME NEW b \in X, NEW n \in X, n > b PROVE m[n] < m[b]
  BY <1>1, ToGoFalls
<1>2. m \in [X -> Nat]
  BY ToGoFalls
<1> HIDE DEF m
<1>3. ASSUME NEW b \in X, NEW f \in [X -> S] PROVE Def(b, f) \in S
  <2>1. \A n \in X : f[n] \in S
    OBVIOUS
  <2>2. ASSUME NEW prev \in Cursors(trie) PROVE LoopStep(node, called, f, b, prev) \in Found(trie)
    BY <2>1, LoopStepType
  <2>3. QED
    BY <2>2 DEF Searches
<1>4. ASSUME NEW b \in X, NEW g \in [X -> S], NEW h \in [X -> S],
             \A y \in X : m[y] < m[b] => g[y] = h[y]
      PROVE  Def(b, g) = Def(b, h)
  <2>1. ASSUME NEW prev \in Cursors(trie)
        PROVE  LoopStep(node, called, g, b, prev) = LoopStep(node, called, h, b, prev)
    <3>1. ASSUME NEW e, NEW n, Least(E, b, e, n) PROVE g[n] = h[n]
      <4>1. n \in X /\ n > b
        BY <3>1 DEF Least
      <4>2. QED
        BY <1>1, <1>4, <4>1
    <3>2. /\ b \in 0 .. 256 /\ DOMAIN called \in SUBSET Byte
          /\ SameAfter(g, h, DOMAIN called, b)
      BY <1>0, <3>1 DEF SameAfter
    <3> HIDE DEF S, X, step, Def
    <3>3. SameStep(node, called, g, h, b, prev)
      BY <3>2, LoopStepSame
    <3>4. QED
      BY <3>3 DEF SameStep
  <2>2. QED
    BY <2>1
<1> HIDE DEF Def
<1>5. step \in MeasuredDefs(X, S, m)
  <2>1. step \in [X -> [[X -> S] -> S]]
    BY <1>3
  <2> HIDE DEF S, X
  <2>2. \A x \in X : \A g, h \in [X -> S] : step[x][g] = Def(x, g) /\ step[x][h] = Def(x, h)
    OBVIOUS
  <2> HIDE DEF step
  <2>3. ASSUME NEW x \in X, NEW g \in [X -> S], NEW h \in [X -> S],
               \A y \in X : m[y] < m[x] => g[y] = h[y]
        PROVE  step[x][g] = step[x][h]
    <3>1. Def(x, g) = Def(x, h)
      BY <1>4, <2>3
    <3>2. QED
      BY <2>2, <3>1
  <2>4. QED
    BY <2>1, <2>3 DEF MeasuredDefs
<1>6. PICK f : FulfilsOn(f, X, S, step)
  <2> DEFINE any == [prev \in Cursors(trie) |-> [next |-> NoNode, prev |-> NoNode]]
  <2>1. any \in S
    BY DEF Searches, Found, Cursors
  <2> HIDE DEF any, S, X, step
  <2>2. QED
    BY <1>2, <1>5, <2>1, MeasuredRecursion
<1>7. f \in [X -> S] /\ \A b \in X : f[b] = Def(b, f)
  BY <1>6 DEF FulfilsOn
<1>8. f = [b \in X |-> Def(b, f)]
  <2> HIDE DEF S, X
  <2>1. QED
    BY <1>7
<1>9. Loops(f, trie, node, called)
  BY <1>8, Zenon DEF Loops, Def
<1>10. QED
  BY <1>9

LoopTurns(from, trie, node, called) ==
  /\ from \in [0 .. 256 -> Searches(trie)]
  /\ EdgeLoop(trie, node, called) = from[0]
  /\ \A b \in 0 .. 256, prev \in Cursors(trie) :
       from[b][prev] = LoopStep(node, called, from, b, prev)

\* EdgeLoop's recursion is sound.
LEMMA EdgeLoopIs ==
  ASSUME NEW trie, NEW node, NEW E \in SUBSET Byte,
         NEW called \in [E -> Searches(trie)],
         SP \in E => Append(node, SP) \in Cursors(trie)
  PROVE  \E from : LoopTurns(from, trie, node, called)
<1> DEFINE F == CHOOSE from : Loops(from, trie, node, called)
<1>1. Loops(F, trie, node, called)
  BY LoopsExist, Zenon
<1>2. EdgeLoop(trie, node, called) = F[0]
  BY Zenon DEF EdgeLoop, Loops, LoopStep
<1> HIDE DEF F
<1>3. F = [b \in 0 .. 256 |-> [prev \in Cursors(trie) |-> LoopStep(node, called, F, b, prev)]]
  BY <1>1 DEF Loops
<1>4. ASSUME NEW b \in 0 .. 256, NEW prev \in Cursors(trie)
      PROVE  F[b][prev] = LoopStep(node, called, F, b, prev)
  <2>1. F[b] = [p \in Cursors(trie) |-> LoopStep(node, called, F, b, p)]
    BY <1>3, Zenon
  <2>2. QED
    BY <2>1, Zenon
<1> DEFINE G == {b \in 0 .. 256 : F[b] \in Searches(trie)}
<1>5. ASSUME NEW b \in 0 .. 256, \A n \in 0 .. 256 : n > b => n \in G PROVE b \in G
  <2>1. \A n \in 0 .. 256 : n > b => F[n] \in Searches(trie)
    BY <1>5
  <2>2. ASSUME NEW prev \in Cursors(trie) PROVE LoopStep(node, called, F, b, prev) \in Found(trie)
    BY <2>1, LoopStepType
  <2>3. F[b] = [prev \in Cursors(trie) |-> LoopStep(node, called, F, b, prev)]
    BY <1>3, Zenon
  <2>4. F[b] \in Searches(trie)
    BY <2>2, <2>3 DEF Searches
  <2>5. QED
    BY <2>4
<1>6. \A b \in 0 .. 256 : b \in G
  <2> HIDE DEF G
  <2>1. QED
    BY <1>5, EdgeInduction, Zenon
<1>7. F \in [0 .. 256 -> Searches(trie)]
  <2>1. \A b \in 0 .. 256 : F[b] \in Searches(trie)
    BY <1>6
  <2>2. F = [b \in 0 .. 256 |-> F[b]]
    BY <1>3, Zenon
  <2>3. QED
    BY <2>1, <2>2
<1>8. QED
  BY <1>2, <1>4, <1>7 DEF LoopTurns

LEMMA NoNodeIsNoText == NoNode \notin Text
<1>1. NoText \notin Seq(Byte \ {0})
  BY DEF NoText, NUL
<1>2. QED
  BY <1>1 DEF NoNode, Text

-----------------------------------------------------------------------------
\* What is left for a loop that has got to byte b.
LeftFrom(E, X, node, b) ==
  /\ {c \in E : c >= b} = {} => OnFrom(X, node, b) = {}
  /\ \A e, n : Least(E, b, e, n) => OnFrom(X, node, b) = On(X, node, e) \cup OnFrom(X, node, n)

LEMMA OnFromIs ==
  ASSUME NEW trie, IsTrie(trie), NEW node \in DOMAIN trie,
         NEW X \in SUBSET Below(trie, node), NEW b \in 0 .. 256
  PROVE  LeftFrom(Edges(trie, node), X, node, b)
<1> DEFINE E == Edges(trie, node)
<1>1. /\ node \in Text /\ Len(node) \in Nat /\ E \in SUBSET Byte
  BY EdgesAre DEF IsTrie, Text
<1>2. ASSUME NEW x \in X, Len(node) < Len(x) PROVE x[Len(node) + 1] \in E
  <2>1. x # node /\ x \in Below(trie, node)
    BY <1>1, <1>2
  <2>2. QED
    BY <2>1, BelowIs
<1>3. ASSUME NEW e, NEW n, Least(E, b, e, n)
      PROVE  OnFrom(X, node, b) = On(X, node, e) \cup OnFrom(X, node, n)
  <2>1. e \in E /\ n \in 0 .. 256 /\ e >= b /\ n = e + 1 /\ n > b /\ \A c \in E : c >= b => c >= e
    BY <1>3 DEF Least
  <2>2. ASSUME NEW c \in E PROVE c >= b <=> c = e \/ c >= n
    <3>1. c \in Byte /\ e \in Byte
      BY <1>1, <2>1
    <3>2. QED
      BY <2>1, <3>1 DEF Byte
  <2>3. ASSUME NEW x \in X, Len(node) < Len(x)
        PROVE  x[Len(node) + 1] >= b <=> x[Len(node) + 1] = e \/ x[Len(node) + 1] >= n
    BY <1>2, <2>2, <2>3
  <2>4. QED
    BY <2>3 DEF On, OnFrom
<1>4. ASSUME {c \in E : c >= b} = {} PROVE OnFrom(X, node, b) = {}
  BY <1>2, <1>4 DEF OnFrom
<1>5. QED
  BY <1>3, <1>4 DEF LeftFrom

LEMMA OnPrecede ==
  ASSUME NEW trie, IsTrie(trie), NEW node \in DOMAIN trie,
         NEW X \in SUBSET Below(trie, node), NEW Y \in SUBSET Below(trie, node),
         NEW b, NEW e, NEW n, Least(Edges(trie, node), b, e, n)
  PROVE  AllPrecede(On(X, node, e), OnFrom(Y, node, n))
<1>1. ASSUME NEW x \in On(X, node, e), NEW y \in OnFrom(Y, node, n) PROVE Precedes(x, y)
  <2>1. /\ node \in Text /\ x \in Text /\ y \in Text
        /\ IsPrefix(node, x) /\ IsPrefix(node, y)
        /\ Len(node) < Len(x) /\ Len(node) < Len(y)
        /\ x[Len(node) + 1] = e /\ y[Len(node) + 1] >= n
    BY DEF IsTrie, On, OnFrom, Below
  <2>2. Len(node) \in Nat /\ Len(y) \in Nat
    BY <2>1 DEF Text
  <2>3. PICK p \in Byte, q \in Byte : p = e /\ q = y[Len(node) + 1] /\ n = p + 1 /\ q >= n
    <3>1. e \in Byte /\ n = e + 1
      BY EdgesAre DEF Least
    <3>2. y[Len(node) + 1] \in Byte
      BY <2>1, <2>2 DEF Text
    <3>3. QED
      BY <2>1, <3>1, <3>2
  <2>4. p < q
    BY <2>3 DEF Byte
  <2>5. QED
    BY <2>1, <2>3, <2>4, EdgesOrder
<1>2. QED
  BY <1>1 DEF AllPrecede

WordsBelow(trie, node, mode, b) == OnFrom(WordCommands(trie, node, mode), node, b)
EndsBelow(trie, node, b) == OnFrom(WordEnds(trie, node), node, b)

\* What the calls on the nodes below return is what they are to find.
ChildrenFind(trie, node, mode, called) ==
  \A c \in Edges(trie, node) : c # SP =>
    \A prev \in Cursors(trie) :
      Finds(called[c][prev], prev, WordCommands(trie, Append(node, c), mode),
            WordEnds(trie, Append(node, c)))

LoopFinds(s, trie, node, mode, b) ==
  \A prev \in Cursors(trie) :
    Finds(s[prev], prev, WordsBelow(trie, node, mode, b), EndsBelow(trie, node, b))

LaterFind(from, trie, node, mode, b) ==
  \A n \in 0 .. 256 : n > b => LoopFinds(from[n], trie, node, mode, n)

\* One turn of the loop finds what it is to find if the turns after it do.
LEMMA TurnFinds ==
  ASSUME NEW trie, IsTrie(trie), NEW node \in DOMAIN trie, NEW mode,
         NEW called \in [Edges(trie, node) -> Searches(trie)],
         ChildrenFind(trie, node, mode, called),
         NEW from \in [0 .. 256 -> Searches(trie)], NEW b \in 0 .. 256,
         LaterFind(from, trie, node, mode, b),
         NEW prev \in Cursors(trie)
  PROVE  Finds(LoopStep(node, called, from, b, prev), prev,
               WordsBelow(trie, node, mode, b), EndsBelow(trie, node, b))
<1> DEFINE E == Edges(trie, node)
           W == WordCommands(trie, node, mode)
           A == WordEnds(trie, node)
<1>1. W \in SUBSET Below(trie, node) /\ A \in SUBSET Below(trie, node)
  BY DEF WordCommands, WordEnds
<1>2. Below(trie, node) \in SUBSET Text /\ E \in SUBSET Byte /\ DOMAIN called = E
  <2>1. Below(trie, node) \in SUBSET Text
    BY DEF IsTrie, Below
  <2>2. E \in SUBSET Byte
    BY EdgesAre
  <2>3. QED
    BY <2>1, <2>2
<1>0. /\ LeftFrom(E, W, node, b) /\ LeftFrom(E, A, node, b)
      /\ LoopStepCases(node, called, from, b, prev)
  BY <1>1, OnFromIs, LoopStepIs
<1>3. CASE {c \in E : c >= b} = {}
  <2>1. LoopStep(node, called, from, b, prev) = [next |-> NoNode, prev |-> prev]
    BY <1>0, <1>2, <1>3 DEF LoopStepCases
  <2>2. WordsBelow(trie, node, mode, b) = {} /\ EndsBelow(trie, node, b) = {}
    BY <1>0, <1>3 DEF LeftFrom, WordsBelow, EndsBelow
  <2>3. Finds([next |-> NoNode, prev |-> prev], prev, {}, {})
    BY DEF Finds, Following
  <2>4. QED
    BY <2>1, <2>2, <2>3
<1>4. CASE {c \in E : c >= b} # {}
  <2>1. PICK e, n : Least(E, b, e, n)
    BY <1>2, <1>4, LeastExists
  <2>2. e \in E /\ n \in 0 .. 256 /\ n > b
    BY <2>1 DEF Least
  <2> DEFINE W1 == On(W, node, e)
             A1 == On(A, node, e)
             W2 == WordsBelow(trie, node, mode, n)
             A2 == EndsBelow(trie, node, n)
  <2>3. /\ WordsBelow(trie, node, mode, b) = W1 \cup W2
        /\ EndsBelow(trie, node, b) = A1 \cup A2
    BY <1>0, <2>1 DEF LeftFrom, WordsBelow, EndsBelow
  <2>4. AllPrecede(W1 \cup A1, W2 \cup A2)
    <3>1. /\ AllPrecede(W1, W2) /\ AllPrecede(W1, A2)
          /\ AllPrecede(A1, W2) /\ AllPrecede(A1, A2)
      BY <1>1, <2>1, OnPrecede DEF WordsBelow, EndsBelow
    <3>2. QED
      BY <3>1 DEF AllPrecede
  <2>5. /\ W1 \in SUBSET Text /\ A1 \in SUBSET Text
        /\ W2 \in SUBSET Text /\ A2 \in SUBSET Text
    BY <1>1, <1>2 DEF On, OnFrom, WordsBelow, EndsBelow
  <2>6. ASSUME NEW p \in Cursors(trie) PROVE Finds(from[n][p], p, W2, A2)
    BY <2>2 DEF LoopFinds, LaterFind
  <2>7. LoopStep(node, called, from, b, prev) =
           IF e = SP THEN [next |-> Append(node, e), prev |-> prev]
           ELSE IF called[e][prev].next # NoNode THEN called[e][prev]
           ELSE from[n][called[e][prev].prev]
    BY <1>0, <1>2, <2>1 DEF LoopStepCases
  <2>8. WordsGoOn(trie, node, mode, e)
    BY <2>2, WordsOn
  <2>9. CASE e = SP
    <3> DEFINE r == [next |-> Append(node, e), prev |-> prev]
    <3>1. LoopStep(node, called, from, b, prev) = r
      BY <2>9, <2>7
    <3>2. W1 = {} /\ A1 = {Append(node, e)}
      BY <2>9, <2>8 DEF WordsGoOn
    <3>3. r.next = Append(node, e) /\ r.prev = prev /\ r.next # NoNode
      <4>1. Append(node, e) \in Text
        BY <2>5, <3>2
      <4>2. QED
        BY <4>1, NoNodeIsNoText
    <3> HIDE DEF r
    <3>4. Finds(r, prev, {}, {Append(node, e)})
      BY <3>3 DEF Finds, Following, IsFirst
    <3>5. Finds(r, prev, W1, A1) /\ Finds(from[n][prev], r.prev, W2, A2)
      BY <2>6, <3>2, <3>3, <3>4
    <3> HIDE DEF W1, W2, A1, A2
    <3>6. Finds(IF r.next # NoNode THEN r ELSE from[n][prev], prev, W1 \cup W2, A1 \cup A2)
      BY <2>4, <2>5, <3>5, SearchesJoin
    <3>7. QED
      BY <2>3, <3>1, <3>3, <3>6
  <2>10. CASE e # SP
    <3> DEFINE r == called[e][prev]
    <3>1. r \in Found(trie) /\ r.prev \in Cursors(trie)
      <4>1. called[e] \in [Cursors(trie) -> Found(trie)]
        BY <2>2 DEF Searches
      <4>2. PICK q \in Found(trie) : q = called[e][prev]
        BY <4>1
      <4>3. q.prev \in Cursors(trie)
        BY DEF Found
      <4>4. QED
        BY <4>2, <4>3
    <3>2. LoopStep(node, called, from, b, prev) =
            IF r.next # NoNode THEN r ELSE from[n][r.prev]
      BY <2>10, <2>7
    <3>3. Finds(r, prev, W1, A1)
      <4>1. W1 = WordCommands(trie, Append(node, e), mode) /\ A1 = WordEnds(trie, Append(node, e))
        BY <2>10, <2>8 DEF WordsGoOn
      <4>2. QED
        BY <2>2, <2>10, <4>1 DEF ChildrenFind
    <3>4. Finds(from[n][r.prev], r.prev, W2, A2)
      BY <2>6, <3>1
    <3> HIDE DEF W1, W2, A1, A2, r
    <3>5. Finds(IF r.next # NoNode THEN r ELSE from[n][r.prev], prev, W1 \cup W2, A1 \cup A2)
      BY <2>4, <2>5, <3>3, <3>4, SearchesJoin
    <3>6. QED
      BY <2>3, <3>2, <3>5
  <2>11. QED
    BY <2>9, <2>10
<1>5. QED
  BY <1>3, <1>4

LEMMA EdgeLoopFinds ==
  ASSUME NEW trie, IsTrie(trie), NEW node \in DOMAIN trie, NEW mode,
         NEW called \in [Edges(trie, node) -> Searches(trie)]
  PROVE  /\ EdgeLoop(trie, node, called) \in Searches(trie)
         /\ ChildrenFind(trie, node, mode, called) =>
              LoopFinds(EdgeLoop(trie, node, called), trie, node, mode, 0)
<1>1. Edges(trie, node) \in SUBSET Byte /\ \A c \in Edges(trie, node) : Append(node, c) \in DOMAIN trie
  BY EdgesAre
<1>2. PICK from :
        /\ from \in [0 .. 256 -> Searches(trie)]
        /\ EdgeLoop(trie, node, called) = from[0]
        /\ \A b \in 0 .. 256, prev \in Cursors(trie) :
             from[b][prev] = LoopStep(node, called, from, b, prev)
  <2>1. SP \in Edges(trie, node) => Append(node, SP) \in Cursors(trie)
    BY <1>1 DEF Cursors
  <2>2. \E from : LoopTurns(from, trie, node, called)
    BY <1>1, <2>1, EdgeLoopIs
  <2>3. QED
    BY <2>2 DEF LoopTurns
<1>3. ASSUME ChildrenFind(trie, node, mode, called) PROVE LoopFinds(from[0], trie, node, mode, 0)
  <2> DEFINE G == {b \in 0 .. 256 : LoopFinds(from[b], trie, node, mode, b)}
  <2>1. ASSUME NEW b \in 0 .. 256, \A n \in 0 .. 256 : n > b => n \in G PROVE b \in G
    <3>1. LaterFind(from, trie, node, mode, b)
      BY <2>1 DEF LaterFind
    <3>2. ASSUME NEW prev \in Cursors(trie)
          PROVE  Finds(LoopStep(node, called, from, b, prev), prev,
                       WordsBelow(trie, node, mode, b), EndsBelow(trie, node, b))
      BY <1>2, <1>3, <3>1, TurnFinds
    <3>3. LoopFinds(from[b], trie, node, mode, b)
      BY <1>2, <3>2 DEF LoopFinds
    <3>4. QED
      BY <3>3
  <2>2. 0 \in G
    <3> HIDE DEF G
    <3>1. \A b \in 0 .. 256 : b \in G
      BY <2>1, EdgeInduction, Zenon
    <3>2. QED
      BY <3>1
  <2>3. QED
    BY <2>2
<1>4. from[0] \in Searches(trie)
  BY <1>2
<1>5. QED
  BY <1>2, <1>3, <1>4

\* What there is to find at a node itself.
Own(trie, node, mode) == IF VisibleCommand(trie, node, mode) THEN {node} ELSE {}

LEMMA WordsAre ==
  ASSUME NEW trie, IsTrie(trie), NEW mode, NEW node \in DOMAIN trie
  PROVE  /\ WordCommands(trie, node, mode) = Own(trie, node, mode) \cup WordsBelow(trie, node, mode, 0)
         /\ WordEnds(trie, node) = EndsBelow(trie, node, 0)
         /\ AllPrecede(Own(trie, node, mode), WordsBelow(trie, node, mode, 0) \cup EndsBelow(trie, node, 0))
         /\ WordCommands(trie, node, mode) \in SUBSET Text
         /\ WordEnds(trie, node) \in SUBSET Text
<1> DEFINE W == WordCommands(trie, node, mode)
           A == WordEnds(trie, node)
<1>1. /\ W \subseteq Below(trie, node) /\ A \subseteq Below(trie, node)
      /\ Below(trie, node) \subseteq Text /\ node \in Text /\ Len(node) \in Nat
  BY DEF WordCommands, WordEnds, Below, IsTrie, Text
<1>2. ASSUME NEW x \in Below(trie, node), x # node
      PROVE  Len(node) < Len(x) /\ x[Len(node) + 1] >= 0
  <2>1. Len(node) < Len(x) /\ x[Len(node) + 1] \in Edges(trie, node)
    BY <1>2, BelowIs
  <2>2. PICK q \in Byte : q = x[Len(node) + 1]
    BY <2>1, EdgesAre
  <2>3. q >= 0
    BY DEF Byte
  <2>4. QED
    BY <2>1, <2>2, <2>3
<1>3. node \in W <=> VisibleCommand(trie, node, mode)
  <2>1. Spaceless(node, Len(node) + 1, Len(node))
    BY <1>1 DEF Spaceless
  <2>2. QED
    BY <2>1, BelowIs, WordCommandsAre
<1>4. node \notin A
  <2>1. ~(Len(node) < Len(node))
    BY <1>1
  <2>2. QED
    BY <2>1, WordEndsAre
<1>5. W = Own(trie, node, mode) \cup OnFrom(W, node, 0)
  <2>1. ASSUME NEW x \in W, x # node PROVE x \in OnFrom(W, node, 0)
    BY <1>1, <1>2, <2>1 DEF OnFrom
  <2>2. OnFrom(W, node, 0) \subseteq W
    BY DEF OnFrom
  <2> HIDE DEF W
  <2>3. QED
    BY <1>3, <2>1, <2>2 DEF Own
<1>6. A = OnFrom(A, node, 0)
  <2>1. ASSUME NEW x \in A PROVE x \in OnFrom(A, node, 0)
    BY <1>1, <1>2, <1>4 DEF OnFrom
  <2>2. OnFrom(A, node, 0) \subseteq A
    BY DEF OnFrom
  <2> HIDE DEF A
  <2>3. QED
    BY <2>1, <2>2
<1>7. ASSUME NEW y \in OnFrom(W, node, 0) \cup OnFrom(A, node, 0) PROVE Precedes(node, y)
  <2>1. y \in Below(trie, node) /\ Len(node) < Len(y)
    BY <1>1 DEF OnFrom
  <2>2. y \in Text /\ IsPrefix(node, y) /\ IsPrefix(node, node)
    BY <1>1, <2>1, PrefixOfSelf DEF Below
  <2>3. QED
    BY <1>1, <2>1, <2>2, EdgesOrder
<1>8. AllPrecede(Own(trie, node, mode), OnFrom(W, node, 0) \cup OnFrom(A, node, 0))
  BY <1>7 DEF AllPrecede, Own
<1>9. QED
  BY <1>1, <1>5, <1>6, <1>8 DEF WordsBelow, EndsBelow

NodeFinds(s, trie, node, mode) ==
  \A prev \in Cursors(trie) :
    Finds(s[prev], prev, WordCommands(trie, node, mode), WordEnds(trie, node))

LEMMA NextCallFinds ==
  ASSUME NEW trie, IsTrie(trie), NEW node \in DOMAIN trie, NEW mode,
         NEW called \in [Edges(trie, node) -> Searches(trie)]
  PROVE  /\ NextCall(trie, node, mode, called) \in Searches(trie)
         /\ ChildrenFind(trie, node, mode, called) =>
              NodeFinds(NextCall(trie, node, mode, called), trie, node, mode)
<1> DEFINE own == Own(trie, node, mode)
           loop == EdgeLoop(trie, node, called)
           visibly == VisibleCommand(trie, node, mode)
           cursor(prev) == IF visibly /\ prev = node THEN NoNode ELSE prev
           r(prev) == IF visibly /\ prev = NoNode THEN [next |-> node, prev |-> prev]
                      ELSE loop[cursor(prev)]
<1>1. /\ loop \in Searches(trie)
      /\ ChildrenFind(trie, node, mode, called) => LoopFinds(loop, trie, node, mode, 0)
  BY EdgeLoopFinds
<1>2. NextCall(trie, node, mode, called) = [prev \in Cursors(trie) |-> r(prev)]
  BY Zenon DEF NextCall
<1>3. /\ node \in Cursors(trie) /\ NoNode \in Cursors(trie) /\ node # NoNode
      /\ node \in Text
  BY NoNodeIsNoText DEF Cursors, IsTrie
<1> HIDE DEF loop, visibly
<1>4. ASSUME NEW prev \in Cursors(trie) PROVE cursor(prev) \in Cursors(trie)
  BY <1>3
<1>5. ASSUME NEW prev \in Cursors(trie) PROVE r(prev) \in Found(trie)
  <2>1. [next |-> node, prev |-> prev] \in Found(trie)
    BY <1>3, CursorTypes
  <2>2. loop[cursor(prev)] \in Found(trie)
    BY <1>1, <1>4 DEF Searches
  <2>3. QED
    BY <2>1, <2>2
<1>6. ASSUME ChildrenFind(trie, node, mode, called), NEW prev \in Cursors(trie)
      PROVE  Finds(r(prev), prev, WordCommands(trie, node, mode), WordEnds(trie, node))
  <2> DEFINE W2 == WordsBelow(trie, node, mode, 0)
             A2 == EndsBelow(trie, node, 0)
  <2>1. /\ WordCommands(trie, node, mode) = own \cup W2
        /\ WordEnds(trie, node) = {} \cup A2
        /\ AllPrecede(own \cup {}, W2 \cup A2)
        /\ own \in SUBSET Text /\ {} \in SUBSET Text
        /\ W2 \in SUBSET Text /\ A2 \in SUBSET Text
    <3>1. /\ WordCommands(trie, node, mode) = own \cup W2 /\ WordEnds(trie, node) = A2
          /\ AllPrecede(own, W2 \cup A2)
          /\ WordCommands(trie, node, mode) \in SUBSET Text /\ WordEnds(trie, node) \in SUBSET Text
      BY WordsAre
    <3>2. own \cup {} = own /\ {} \cup A2 = A2
      OBVIOUS
    <3> HIDE DEF own, W2, A2
    <3>3. QED
      BY <3>1, <3>2
  <2>2. ASSUME NEW p \in Cursors(trie) PROVE Finds(loop[p], p, W2, A2)
    BY <1>1, <1>6 DEF LoopFinds
  <2>3. own = IF visibly THEN {node} ELSE {}
    BY DEF Own, visibly
  <2> DEFINE r1 == [next |-> IF visibly /\ prev = NoNode THEN node ELSE NoNode,
                    prev |-> cursor(prev)]
             r2 == loop[r1.prev]
  <2>4. Finds(r1, prev, own, {})
    <3>1. CASE visibly /\ prev = NoNode
      <4>1. r1.next = node /\ own = {node}
        BY <2>3, <3>1
      <4>2. Following(own, prev) = {node}
        BY <3>1, <4>1 DEF Following
      <4>3. IsFirst(node, {node} \cup {})
        BY DEF IsFirst
      <4> HIDE DEF r1, own
      <4>4. QED
        BY <1>3, <4>1, <4>2, <4>3 DEF Finds
    <3>2. CASE visibly /\ prev # NoNode
      <4>1. r1.next = NoNode /\ own = {node} /\ r1.prev = IF prev = node THEN NoNode ELSE prev
        BY <2>3, <3>2
      <4>2. ~Precedes(node, node)
        BY <1>3, PrecedesOneWay
      <4>3. Following(own, prev) = {}
        BY <3>2, <4>1, <4>2 DEF Following
      <4> HIDE DEF r1, own
      <4>4. QED
        BY <4>1, <4>3 DEF Finds
    <3>3. CASE ~visibly
      <4>1. r1.next = NoNode /\ own = {} /\ r1.prev = prev
        BY <2>3, <3>3
      <4>2. Following(own, prev) = {}
        BY <4>1 DEF Following
      <4> HIDE DEF r1, own
      <4>3. QED
        BY <4>1, <4>2 DEF Finds
    <3>4. QED
      BY <3>1, <3>2, <3>3
  <2>5. Finds(r2, r1.prev, W2, A2)
    BY <1>4, <2>2
  <2>6. Finds(IF r1.next # NoNode THEN r1 ELSE r2, prev, own \cup W2, {} \cup A2)
    <3> HIDE DEF r1, r2, own, W2, A2
    <3>1. QED
      BY <2>1, <2>4, <2>5, SearchesJoin
  <2>7. r(prev) = IF r1.next # NoNode THEN r1 ELSE r2
    <3>1. CASE visibly /\ prev = NoNode
      BY <1>3, <3>1
    <3>2. CASE ~(visibly /\ prev = NoNode)
      BY <3>2
    <3>3. QED
      BY <3>1, <3>2
  <2> HIDE DEF r, r1, r2, own, W2, A2
  <2>8. QED
    BY <2>1, <2>6, <2>7
<1>7. NextCall(trie, node, mode, called) \in Searches(trie)
  BY <1>2, <1>5 DEF Searches
<1>8. ASSUME ChildrenFind(trie, node, mode, called)
      PROVE  NodeFinds(NextCall(trie, node, mode, called), trie, node, mode)
  <2> HIDE DEF r
  <2>1. QED
    BY <1>2, <1>6, <1>8 DEF NodeFinds
<1>9. QED
  BY <1>7, <1>8

\* The recursive function in trie_next().
Nexts(next, trie, mode) ==
  next = [node \in DOMAIN trie |->
            NextCall(trie, node, mode, [b \in Edges(trie, node) |-> next[Append(node, b)]])]

LEMMA NextIs ==
  ASSUME NEW trie, IsTrie(trie), NEW mode
  PROVE  Nexts(trie_next(trie, mode), trie, mode)
<1> DEFINE S == Searches(trie)
           D == DOMAIN trie
           Called(node, f) == [b \in Edges(trie, node) |-> f[Append(node, b)]]
           Def(node, f) == NextCall(trie, node, mode, Called(node, f))
           step == [node \in D |-> [f \in [D -> S] |-> Def(node, f)]]
<1>1. PICK m : Depths(m, trie)
  BY DepthsExist
<1>2. /\ m \in [D -> Nat]
      /\ \A node \in D : \A c \in Edges(trie, node) :
           Append(node, c) \in D /\ m[Append(node, c)] < m[node]
  BY <1>1 DEF Depths
<1>3. ASSUME NEW node \in D, NEW f \in [D -> S] PROVE Def(node, f) \in S
  <2>1. Called(node, f) \in [Edges(trie, node) -> S]
    BY <1>2
  <2> HIDE DEF Called
  <2>2. QED
    BY <2>1, NextCallFinds
<1>4. ASSUME NEW node \in D, NEW g \in [D -> S], NEW h \in [D -> S],
             \A y \in D : m[y] < m[node] => g[y] = h[y]
      PROVE  Def(node, g) = Def(node, h)
  <2>1. Called(node, g) = Called(node, h)
    BY <1>2, <1>4
  <2> HIDE DEF Called
  <2>2. QED
    BY <2>1
<1> HIDE DEF Def
<1>5. step \in MeasuredDefs(D, S, m)
  <2>1. step \in [D -> [[D -> S] -> S]]
    BY <1>3
  <2> HIDE DEF S, D
  <2>2. \A x \in D : \A g, h \in [D -> S] : step[x][g] = Def(x, g) /\ step[x][h] = Def(x, h)
    OBVIOUS
  <2> HIDE DEF step
  <2>3. ASSUME NEW x \in D, NEW g \in [D -> S], NEW h \in [D -> S],
               \A y \in D : m[y] < m[x] => g[y] = h[y]
        PROVE  step[x][g] = step[x][h]
    <3>1. Def(x, g) = Def(x, h)
      BY <1>4, <2>3
    <3>2. QED
      BY <2>2, <3>1
  <2>4. QED
    BY <2>1, <2>3 DEF MeasuredDefs
<1>6. PICK f : FulfilsOn(f, D, S, step)
  <2> DEFINE any == [prev \in Cursors(trie) |-> [next |-> NoNode, prev |-> NoNode]]
  <2>1. any \in S
    BY DEF Searches, Found, Cursors
  <2> HIDE DEF any, S, D, step
  <2>2. QED
    BY <1>2, <1>5, <2>1, MeasuredRecursion
<1>7. f \in [D -> S] /\ \A node \in D : f[node] = Def(node, f)
  BY <1>6 DEF FulfilsOn
<1>8. f = [node \in D |-> Def(node, f)]
  <2> HIDE DEF S, D
  <2>1. QED
    BY <1>7
<1>9. Nexts(f, trie, mode)
  BY <1>8, Zenon DEF Nexts, Def
<1>10. QED
  BY <1>9, Zenon DEF Nexts, trie_next

\* From every node and after every prev, trie_next() finds what it is to find.
LEMMA NextFinds ==
  ASSUME NEW trie, IsTrie(trie), NEW mode
  PROVE  \A node \in DOMAIN trie : NodeFinds(trie_next(trie, mode)[node], trie, node, mode)
<1> DEFINE D == DOMAIN trie
           next == trie_next(trie, mode)
           Good(node) == next[node] \in Searches(trie) /\ NodeFinds(next[node], trie, node, mode)
           G == {node \in D : Good(node)}
<1>1. PICK m : Depths(m, trie)
  BY DepthsExist
<1>2. \A node \in D :
        next[node] = NextCall(trie, node, mode, [b \in Edges(trie, node) |-> next[Append(node, b)]])
  <2>1. Nexts(next, trie, mode)
    BY NextIs
  <2> HIDE DEF next
  <2>2. QED
    BY <2>1 DEF Nexts
<1> HIDE DEF next
<1>3. ASSUME NEW node \in D, \A y \in D : m[y] < m[node] => Good(y) PROVE Good(node)
  <2> DEFINE E == Edges(trie, node)
             called == [b \in E |-> next[Append(node, b)]]
  <2>1. ASSUME NEW c \in E PROVE Append(node, c) \in D /\ Good(Append(node, c))
    BY <1>1, <1>3 DEF Depths
  <2>2. called \in [E -> Searches(trie)]
    BY <2>1
  <2>3. ChildrenFind(trie, node, mode, called)
    BY <2>1 DEF ChildrenFind, NodeFinds
  <2>4. next[node] = NextCall(trie, node, mode, called)
    BY <1>2
  <2> HIDE DEF called
  <2>5. QED
    BY <2>2, <2>3, <2>4, NextCallFinds
<1>4. Inductive(G, D, m)
  <2>1. ASSUME NEW node \in D, \A y \in D : m[y] < m[node] => y \in G PROVE node \in G
    BY <1>3, <2>1
  <2> HIDE DEF G, D
  <2>2. QED
    BY <2>1 DEF Inductive
<1>5. m \in [D -> Nat]
  BY <1>1 DEF Depths
<1>6. \A node \in D : node \in G
  <2> HIDE DEF G, D
  <2>1. QED
    BY <1>4, <1>5, MeasureInduction
<1>7. QED
  BY <1>6 DEF next

\* So it is the closed form that the rest of the model uses.
LEMMA NextIsClosed ==
  ASSUME NEW trie, IsTrie(trie), NEW mode, NEW node \in DOMAIN trie,
         NEW prev \in Cursors(trie)
  PROVE  trie_next(trie, mode)[node][prev].next = TrieNext(trie, node, mode, prev)
<1> DEFINE W == WordCommands(trie, node, mode)
           A == WordEnds(trie, node)
           paths == Following(W, prev) \cup A
           r == trie_next(trie, mode)[node][prev]
<1>1. Finds(r, prev, W, A)
  BY NextFinds DEF NodeFinds
<1>2. TrieNext(trie, node, mode, prev) = First(paths)
  BY DEF TrieNext
<1>3. paths \in SUBSET Text
  <2>1. W \in SUBSET Text /\ A \in SUBSET Text
    BY WordsAre
  <2>2. Following(W, prev) \subseteq W
    BY DEF Following
  <2> HIDE DEF W, A
  <2>3. QED
    BY <2>1, <2>2
<1>4. CASE r.next = NoNode
  <2>1. paths = {}
    BY <1>1, <1>4 DEF Finds
  <2>2. QED
    BY <1>2, <1>4, <2>1 DEF First
<1>5. CASE r.next # NoNode
  <2>1. IsFirst(r.next, paths)
    BY <1>1, <1>5 DEF Finds
  <2> HIDE DEF paths, r
  <2>2. First(paths) = r.next
    BY <1>3, <2>1, FirstIs
  <2>3. QED
    BY <1>2, <2>2 DEF r
<1>6. QED
  BY <1>4, <1>5

(***************************************************************************)
(* For every table and every visible(), from every node and after every    *)
(* prev: the depth-first search of trie_next(), with its one cursor that   *)
(* is reset on the way, returns the first candidate in byte order.         *)
(***************************************************************************)
THEOREM SearchIsRight == Spec => []SearchIsLexicographic
<1>1. ASSUME BuiltInv PROVE SearchIsLexicographic
  <2>1. SUFFICES ASSUME Built, NEW node \in DOMAIN root, NEW mode \in Modes,
                        NEW prev \in DOMAIN root \cup {NoNode}
                 PROVE  trie_next(root, mode)[node][prev].next = TrieNext(root, node, mode, prev)
    BY DEF SearchIsLexicographic
  <2>2. IsTrie(root)
    BY <1>1, <2>1, BuiltIsTrie
  <2>3. prev \in Cursors(root)
    BY DEF Cursors
  <2>4. QED
    BY <2>2, <2>3, NextIsClosed
<1>2. QED
  BY <1>1, BuiltInvariant, PTL

-----------------------------------------------------------------------------
\* A trie whose paths hold no byte before the space, and no command at a path
\* that ends in a space.
IsWordTrie(trie) ==
  /\ \A x \in DOMAIN trie : \A k \in 1 .. Len(x) : x[k] >= SP
  /\ \A x \in DOMAIN trie : x # <<>> /\ trie[x] # NoCommand => x[Len(x)] # SP

LEMMA BuiltIsWordTrie ==
  ASSUME NamesAreWords, BuiltInv, Built
  PROVE  IsWordTrie(root)
<1>1. /\ IsTrie(root) /\ Agrees(root) /\ Len(commands) \in Nat
      /\ commands \in Tables /\ i = Len(commands) /\ DOMAIN root = PathsGiven(i)
  BY BuiltIsTrie DEF BuiltInv, Built, TreeInv, TrieMatchesTable
<1>2. ASSUME NEW k \in 1 .. Len(commands)
      PROVE  /\ commands[k].command \in Text
             /\ \A j \in 1 .. Len(commands[k].command) : commands[k].command[j] >= SP
             /\ Last(commands[k].command) # SP
  <2>1. commands \in Seq(Entries)
    BY <1>1, TablesAreTables
  <2>2. commands[k] \in Entries
    BY <1>1, <2>1
  <2>3. commands[k].command \in Text
    BY <1>1, TablesAreTables
  <2>4. QED
    BY <2>2, <2>3 DEF NamesAreWords
<1>3. ASSUME NEW x \in DOMAIN root, NEW j \in 1 .. Len(x) PROVE x[j] >= SP
  <2>1. PICK k \in 1 .. Len(commands) : x \in Prefixes(commands[k].command)
    BY <1>1 DEF PathsGiven
  <2>2. PICK c \in Text : c = commands[k].command
    BY <1>2
  <2>3. PICK n \in 0 .. Len(c) : x = SubSeq(c, 1, n)
    BY <2>1, <2>2 DEF Prefixes
  <2>4. j \in 1 .. Len(c) /\ x[j] = c[j]
    BY <2>3 DEF Text
  <2>5. QED
    BY <1>2, <2>2, <2>4
<1>4. ASSUME NEW x \in DOMAIN root, x # <<>>, root[x] # NoCommand PROVE x[Len(x)] # SP
  <2>1. Given(i, x) # {}
    BY <1>4 DEF BuiltInv, TreeInv, TrieMatchesTable
  <2>2. PICK k \in 1 .. Len(commands) : commands[k].command = x
    BY <1>1, <2>1 DEF Given
  <2>3. QED
    BY <1>2, <2>2 DEF Last
<1>5. QED
  BY <1>3, <1>4 DEF IsWordTrie

\* The closed form is the first candidate, or nothing if there is none.
NextIsFirst(next, paths) ==
  IF paths = {} THEN next = NoNode ELSE next \in paths /\ IsFirst(next, paths)

LEMMA NextIsFirstOf ==
  ASSUME NEW trie, IsTrie(trie), NEW mode, NEW node \in DOMAIN trie, NEW prev \in Cursors(trie)
  PROVE  NextIsFirst(TrieNext(trie, node, mode, prev),
                     Following(WordCommands(trie, node, mode), prev) \cup WordEnds(trie, node))
<1> DEFINE W == WordCommands(trie, node, mode)
           A == WordEnds(trie, node)
           paths == Following(W, prev) \cup A
           r == trie_next(trie, mode)[node][prev]
<1>1. Finds(r, prev, W, A)
  BY NextFinds DEF NodeFinds
<1>2. r.next = TrieNext(trie, node, mode, prev)
  BY NextIsClosed
<1> HIDE DEF r, W, A
<1>3. r.next = NoNode => paths = {}
  BY <1>1 DEF Finds
<1>4. r.next # NoNode => IsFirst(r.next, paths)
  BY <1>1 DEF Finds
<1>5. NextIsFirst(r.next, paths)
  <2> HIDE DEF paths
  <2>1. CASE r.next = NoNode
    BY <1>3, <2>1 DEF NextIsFirst
  <2>2. CASE r.next # NoNode
    BY <1>4, <2>2 DEF NextIsFirst, IsFirst
  <2>3. QED
    BY <2>1, <2>2
<1>6. QED
  BY <1>2, <1>5 DEF W, A

\* What trie_run() makes of a node leads down from it.
LEMMA RunGoesDown ==
  ASSUME NEW trie, IsTrie(trie), NEW mode, NEW v \in DOMAIN trie
  PROVE  TrieRun(trie, v, mode) = NoNode \/ TrieRun(trie, v, mode) \in Below(trie, v)
<1> DEFINE W == WordCommands(trie, v, mode)
           A == WordEnds(trie, v)
           next == TrieNext(trie, v, mode, NoNode)
<1>1. TrieCycle(trie, v, mode, NoNode) = next
  BY DEF TrieCycle
<1>2. TrieRun(trie, v, mode) = NoNode \/ TrieRun(trie, v, mode) = next
  BY <1>1 DEF TrieRun
<1>3. next = NoNode \/ next \in W \cup A
  <2>1. NextIsFirst(next, Following(W, NoNode) \cup A)
    BY NextIsFirstOf DEF Cursors
  <2>2. Following(W, NoNode) = W
    BY DEF Following
  <2> HIDE DEF next, W, A
  <2>3. QED
    BY <2>1, <2>2 DEF NextIsFirst
<1>4. W \cup A \subseteq Below(trie, v)
  BY DEF WordCommands, WordEnds
<1>5. QED
  BY <1>2, <1>3, <1>4

\* Of a word that is a visible command by itself, trie_run() makes that
\* command if the search has nothing to find after it, and nothing otherwise.
LEMMA RunWhenVisible ==
  ASSUME NEW trie, IsTrie(trie), NEW mode, NEW v \in DOMAIN trie, VisibleCommand(trie, v, mode)
  PROVE  TrieRun(trie, v, mode) =
           IF Following(WordCommands(trie, v, mode), v) \cup WordEnds(trie, v) = {}
           THEN v ELSE NoNode
<1> DEFINE W == WordCommands(trie, v, mode)
           A == WordEnds(trie, v)
           next == TrieNext(trie, v, mode, NoNode)
           more == TrieNext(trie, v, mode, v)
<1>1. /\ v \in Text /\ Len(v) \in Nat
      /\ W \subseteq Below(trie, v) /\ A \subseteq Below(trie, v)
      /\ Below(trie, v) \subseteq DOMAIN trie /\ DOMAIN trie \subseteq Text
      /\ NoNode \notin Text
  BY NoNodeIsNoText DEF IsTrie, Text, Below, WordCommands, WordEnds
<1>2. ASSUME NEW x \in Below(trie, v), x # v PROVE Precedes(v, x)
  <2>1. x \in Text /\ IsPrefix(v, x) /\ IsPrefix(v, v) /\ Len(v) < Len(x)
    BY <1>1, <1>2, BelowIs, PrefixOfSelf DEF Below
  <2>2. QED
    BY <1>1, <2>1, EdgesOrder
<1>3. v \in W
  <2>1. Spaceless(v, Len(v) + 1, Len(v))
    BY <1>1 DEF Spaceless
  <2>2. QED
    BY <2>1, BelowIs, WordCommandsAre
<1>4. v \notin A
  <2>1. ~(Len(v) < Len(v))
    BY <1>1
  <2>2. QED
    BY <2>1, WordEndsAre
<1>5. next \in W \cup A /\ IsFirst(next, W \cup A)
  <2>1. NextIsFirst(next, Following(W, NoNode) \cup A)
    BY NextIsFirstOf DEF Cursors
  <2>2. Following(W, NoNode) = W
    BY DEF Following
  <2> HIDE DEF next, W, A
  <2>3. QED
    BY <1>3, <2>1, <2>2 DEF NextIsFirst
<1>6. IF Following(W, v) \cup A = {} THEN more = NoNode ELSE more \in Following(W, v) \cup A
  <2>1. NextIsFirst(more, Following(W, v) \cup A)
    BY NextIsFirstOf DEF Cursors
  <2> HIDE DEF more, W, A
  <2>2. QED
    BY <2>1 DEF NextIsFirst
<1> HIDE DEF W, A, next, more
<1>7. next = v
  <2>1. SUFFICES ASSUME next # v PROVE FALSE
    OBVIOUS
  <2>2. Precedes(next, v)
    BY <1>3, <1>5, <2>1 DEF IsFirst
  <2>3. next \in Text /\ Precedes(v, next)
    BY <1>1, <1>2, <1>5, <2>1
  <2>4. QED
    BY <1>1, <2>2, <2>3, PrecedesOneWay
<1>8. more = NoNode \/ (more # v /\ more # NoNode)
  <2>1. ~Precedes(v, v)
    BY <1>1, PrecedesOneWay
  <2>2. v \notin Following(W, v)
    BY <1>1, <2>1 DEF Following
  <2>3. QED
    BY <1>4, <1>6, <2>2
<1>9. v # NoNode
  BY <1>1
<1>10. /\ TrieCycle(trie, v, mode, NoNode) = v
       /\ TrieCycle(trie, v, mode, v) = IF more = NoNode THEN v ELSE more
  BY <1>7, <1>9 DEF TrieCycle, next, more
<1>11. TrieRun(trie, v, mode) = IF more = NoNode THEN v ELSE NoNode
  <2>1. trie[v] # NoCommand
    BY DEF VisibleCommand
  <2>2. QED
    BY <1>8, <1>9, <1>10, <2>1 DEF TrieRun
<1>12. more = NoNode <=> Following(W, v) \cup A = {}
  <2>1. Following(W, v) \subseteq W
    BY DEF Following
  <2>2. QED
    BY <1>1, <1>6, <2>1
<1>13. QED
  BY <1>11, <1>12 DEF W, A

\* Where a space can follow, trie_run() goes there, unless a command can be
\* seen where it comes from.
LEMMA RunAtSpace ==
  ASSUME NEW trie, IsTrie(trie), IsWordTrie(trie), NEW mode, NEW v \in DOMAIN trie,
         Append(v, SP) \in DOMAIN trie
  PROVE  /\ TrieRun(trie, v, mode) =
              IF VisibleCommand(trie, v, mode) THEN NoNode ELSE Append(v, SP)
         /\ trie[Append(v, SP)] = NoCommand
<1> DEFINE W == WordCommands(trie, v, mode)
           A == WordEnds(trie, v)
           y == Append(v, SP)
           next == TrieNext(trie, v, mode, NoNode)
<1>1. /\ v \in Text /\ Len(v) \in Nat /\ SP \in Byte \ {NUL}
      /\ W \subseteq Below(trie, v) /\ A \subseteq Below(trie, v)
      /\ Below(trie, v) \subseteq DOMAIN trie /\ DOMAIN trie \subseteq Text
      /\ NoNode \notin Text
  BY NoNodeIsNoText DEF IsTrie, Text, Byte, NUL, SP, Below, WordCommands, WordEnds
<1>2. /\ y \in Text /\ Len(y) = Len(v) + 1 /\ y[Len(v) + 1] = SP /\ IsPrefix(v, y)
      /\ y \in Below(trie, v)
  BY <1>1, AppendIs DEF Below
<1> HIDE DEF y
<1>3. y \in A
  <2>1. Spaceless(y, Len(v) + 1, Len(y) - 1)
    BY <1>1, <1>2 DEF Spaceless
  <2>2. QED
    BY <1>1, <1>2, <2>1, WordEndsAre
<1>4. ASSUME NEW x \in Below(trie, v), x # v
      PROVE  Len(v) < Len(x) /\ Precedes(v, x)
  <2>1. x \in Text /\ IsPrefix(v, x) /\ IsPrefix(v, v) /\ Len(v) < Len(x)
    BY <1>1, <1>4, BelowIs, PrefixOfSelf DEF Below
  <2>2. QED
    BY <1>1, <2>1, EdgesOrder
<1>5. v \notin A
  <2>1. ~(Len(v) < Len(v))
    BY <1>1
  <2>2. QED
    BY <2>1, WordEndsAre
<1>6. next \in W \cup A /\ IsFirst(next, W \cup A)
  <2>1. NextIsFirst(next, Following(W, NoNode) \cup A)
    BY NextIsFirstOf DEF Cursors
  <2>2. Following(W, NoNode) = W
    BY DEF Following
  <2> HIDE DEF next, W, A
  <2>3. QED
    BY <1>3, <2>1, <2>2 DEF NextIsFirst
<1>7. trie[y] = NoCommand
  <2>1. y \in DOMAIN trie /\ y[Len(y)] = SP /\ y # <<>>
    BY <1>1, <1>2
  <2>2. QED
    BY <2>1 DEF IsWordTrie
<1>8. CASE VisibleCommand(trie, v, mode)
  BY <1>3, <1>7, <1>8, RunWhenVisible DEF y
<1>9. CASE ~VisibleCommand(trie, v, mode)
  <2>1. v \notin W
    BY <1>9 DEF WordCommands
  <2>2. next = y
    <3>1. SUFFICES ASSUME next # y PROVE FALSE
      OBVIOUS
    <3>2. PICK x : x = next
      OBVIOUS
    <3>3. /\ x \in Below(trie, v) /\ x \in Text /\ IsPrefix(v, x) /\ Len(v) < Len(x)
          /\ x \in DOMAIN trie /\ Len(x) \in Nat
      <4>1. x \in Below(trie, v) /\ x # v
        BY <1>1, <1>5, <1>6, <2>1, <3>2
      <4>2. QED
        BY <1>1, <1>4, <4>1 DEF Below, Text
    <3>4. Precedes(x, y)
      BY <1>3, <1>6, <3>1, <3>2 DEF IsFirst
    <3>5. PICK q \in Byte : q = x[Len(v) + 1]
      BY <1>1, <3>3 DEF Text
    <3>6. q >= SP
      BY <1>1, <3>3, <3>5 DEF IsWordTrie
    <3>7. q # SP
      <4>1. SUFFICES ASSUME x[Len(v) + 1] = SP PROVE FALSE
        BY <3>5
      <4>2. CASE x \in W
        <5>1. Spaceless(x, Len(v) + 1, Len(x))
          BY <4>2, WordCommandsAre
        <5>2. Len(v) + 1 \in Len(v) + 1 .. Len(x)
          BY <1>1, <3>3
        <5>3. QED
          BY <4>1, <5>1, <5>2 DEF Spaceless
      <4>3. CASE x \in A
        <5>1. Spaceless(x, Len(v) + 1, Len(x) - 1)
          BY <4>3, WordEndsAre
        <5>2. Len(x) = Len(v) + 1
          <6>1. Len(v) + 1 \notin Len(v) + 1 .. Len(x) - 1
            BY <4>1, <5>1 DEF Spaceless
          <6>2. QED
            BY <1>1, <3>3, <6>1
        <5>3. ASSUME NEW j \in 1 .. Len(x) PROVE x[j] = y[j]
          <6>1. j = Len(v) + 1 \/ j \in 1 .. Len(v)
            BY <1>1, <5>2
          <6>2. \A n \in 1 .. Len(v) : x[n] = v[n] /\ y[n] = v[n]
            BY <1>1, <1>2, <3>3, PrefixIs
          <6>3. QED
            BY <1>2, <4>1, <6>1, <6>2
        <5>4. x = y
          BY <1>2, <3>3, <5>2, <5>3, SeqEqual DEF Text
        <5>5. QED
          BY <3>1, <3>2, <5>4
      <4>4. QED
        BY <1>6, <3>2, <4>2, <4>3
    <3>8. y[Len(v) + 1] < x[Len(v) + 1]
      BY <1>2, <3>5, <3>6, <3>7 DEF Byte, SP
    <3>9. Precedes(y, x)
      BY <1>1, <1>2, <3>3, <3>8, EdgesOrder
    <3>10. QED
      BY <1>2, <3>3, <3>4, <3>9, PrecedesOneWay
  <2>3. TrieCycle(trie, v, mode, NoNode) = y
    BY <2>2 DEF TrieCycle
  <2>4. TrieRun(trie, v, mode) = y
    BY <1>7, <2>3 DEF TrieRun
  <2>5. QED
    BY <1>7, <1>9, <2>4 DEF y
<1>10. QED
  BY <1>8, <1>9

-----------------------------------------------------------------------------
\* The states of the two loops over the tokens of a line.
ParseStates(trie) == [t : Cursors(trie), used : Nat, left : BOOLEAN]
WalkStates(trie) == [t : DOMAIN trie, left : BOOLEAN]

\* What parsecommand()'s loop finds for one token.
Reached(trie, mode, t, tok) ==
  IF tok.type = "word" /\ t \o tok.text \in DOMAIN trie
  THEN TrieRun(trie, t \o tok.text, mode) ELSE NoNode

ParseTokenCases(trie, mode, at, tok) ==
  LET t == Reached(trie, mode, at.t, tok) IN
  /\ at.left => ParseToken(trie, mode, at, tok) = at
  /\ ~at.left => ParseToken(trie, mode, at, tok) =
                   [t |-> t, used |-> at.used + 1, left |-> t = NoNode \/ trie[t] # NoCommand]

LEMMA ParseTokenIs ==
  ASSUME NEW trie, IsTrie(trie), NEW mode, NEW at, NEW tok
  PROVE  ParseTokenCases(trie, mode, at, tok)
<1> DEFINE v == at.t \o tok.text
           t == Reached(trie, mode, at.t, tok)
<1>1. v \in DOMAIN trie => v # NoNode
  BY NoNodeIsNoText DEF IsTrie
<1>2. t = IF tok.type = "word"
          THEN IF TrieWalk(trie, at.t, tok.text) = NoNode THEN NoNode
               ELSE TrieRun(trie, TrieWalk(trie, at.t, tok.text), mode)
          ELSE NoNode
  <2> HIDE DEF v
  <2>1. TrieWalk(trie, at.t, tok.text) = IF v \in DOMAIN trie THEN v ELSE NoNode
    BY DEF TrieWalk, v
  <2>2. t = IF tok.type = "word" /\ v \in DOMAIN trie THEN TrieRun(trie, v, mode) ELSE NoNode
    BY DEF Reached, v
  <2> HIDE DEF t
  <2>3. QED
    BY <1>1, <2>1, <2>2
<1>3. (IF t = NoNode THEN TRUE ELSE trie[t] # NoCommand) = (t = NoNode \/ trie[t] # NoCommand)
  OBVIOUS
<1> HIDE DEF t
<1>4. at.left => ParseToken(trie, mode, at, tok) = at
  BY Zenon DEF ParseToken
<1>5. ~at.left => ParseToken(trie, mode, at, tok) =
                   [t |-> t, used |-> at.used + 1, left |-> t = NoNode \/ trie[t] # NoCommand]
  BY <1>2, <1>3 DEF ParseToken
<1>6. QED
  BY <1>4, <1>5 DEF ParseTokenCases, t

LEMMA ParseTokenType ==
  ASSUME NEW trie, IsTrie(trie), NEW mode, NEW at \in ParseStates(trie), NEW tok
  PROVE  ParseToken(trie, mode, at, tok) \in ParseStates(trie)
<1> DEFINE t == Reached(trie, mode, at.t, tok)
<1>1. t \in Cursors(trie)
  <2>1. CASE tok.type = "word" /\ at.t \o tok.text \in DOMAIN trie
    <3>1. t = NoNode \/ t \in Below(trie, at.t \o tok.text)
      BY <2>1, RunGoesDown DEF Reached
    <3> HIDE DEF t
    <3>2. QED
      BY <3>1 DEF Cursors, Below
  <2>2. CASE ~(tok.type = "word" /\ at.t \o tok.text \in DOMAIN trie)
    BY <2>2, Zenon DEF Reached, Cursors
  <2>3. QED
    BY <2>1, <2>2
<1>2. ParseTokenCases(trie, mode, at, tok)
  BY ParseTokenIs
<1> HIDE DEF t
<1>3. [t |-> t, used |-> at.used + 1, left |-> t = NoNode \/ trie[t] # NoCommand] \in ParseStates(trie)
  BY <1>1 DEF ParseStates
<1>4. QED
  BY <1>2, <1>3 DEF ParseTokenCases, t

\* What edit_walk()'s loop makes of one token.
WalkTokenCases(trie, at, tok) ==
  LET v == at.t \o tok.text
      fits == tok.type = "word" /\ v \in DOMAIN trie
      new == WalkToken(trie, at, tok)
  IN /\ new \in WalkStates(trie)
     /\ at.left => new = at
     /\ ~at.left /\ ~fits => new.t = at.t /\ new.left
     /\ ~at.left /\ fits /\ Append(v, SP) \notin DOMAIN trie => new.t = v /\ new.left
     /\ ~at.left /\ fits /\ Append(v, SP) \in DOMAIN trie => new.t = Append(v, SP) /\ ~new.left

LEMMA WalkTokenIs ==
  ASSUME NEW trie, IsTrie(trie), NEW at \in WalkStates(trie), NEW tok
  PROVE  WalkTokenCases(trie, at, tok)
<1> DEFINE v == at.t \o tok.text
           walked == TrieWalk(trie, at.t, tok.text)
           spaced == TrieWalk(trie, walked, <<SP>>)
<1>1. walked = IF v \in DOMAIN trie THEN v ELSE NoNode
  BY DEF TrieWalk
<1>2. v \in DOMAIN trie => v \in Text /\ v # NoNode
  BY NoNodeIsNoText DEF IsTrie
<1>3. ASSUME v \in DOMAIN trie
      PROVE  /\ spaced = IF Append(v, SP) \in DOMAIN trie THEN Append(v, SP) ELSE NoNode
             /\ Append(v, SP) \in Text /\ Append(v, SP) # NoNode
  <2>1. SP \in Byte \ {0} /\ v \in Seq(Byte \ {0})
    BY <1>2, <1>3 DEF SP, Byte, Text
  <2> HIDE DEF v
  <2>2. Append(v, SP) = v \o <<SP>> /\ Append(v, SP) \in Seq(Byte \ {0})
    BY <2>1, AppendIsConcat
  <2> HIDE DEF walked
  <2>3. walked = v
    BY <1>1, <1>3
  <2>4. spaced = IF v \o <<SP>> \in DOMAIN trie THEN v \o <<SP>> ELSE NoNode
    BY <2>3 DEF TrieWalk
  <2>5. QED
    BY <2>2, <2>4, NoNodeIsNoText DEF Text
<1> DEFINE stopped == [at EXCEPT !.left = TRUE]
<1>4. stopped \in WalkStates(trie) /\ stopped.t = at.t /\ stopped.left
  BY DEF WalkStates
<1>5. WalkToken(trie, at, tok) =
        IF at.left THEN at
        ELSE IF tok.type # "word" \/ walked = NoNode THEN stopped
        ELSE IF spaced = NoNode THEN [t |-> walked, left |-> TRUE]
        ELSE [t |-> spaced, left |-> FALSE]
  BY Zenon DEF WalkToken
<1> DEFINE new == WalkToken(trie, at, tok)
           y == Append(v, SP)
<1> HIDE DEF walked, spaced, v, new, y, stopped
<1>6. at.left => new = at
  BY <1>5 DEF new
<1>7. ~at.left /\ ~(tok.type = "word" /\ v \in DOMAIN trie) => new = stopped
  BY <1>1, <1>5 DEF new
<1>8. ~at.left /\ tok.type = "word" /\ v \in DOMAIN trie =>
        new = IF y \in DOMAIN trie THEN [t |-> y, left |-> FALSE] ELSE [t |-> v, left |-> TRUE]
  BY <1>1, <1>2, <1>3, <1>5 DEF new, y
<1>9. new \in WalkStates(trie)
  <2>1. /\ v \in DOMAIN trie => [t |-> v, left |-> TRUE] \in WalkStates(trie)
        /\ y \in DOMAIN trie => [t |-> y, left |-> FALSE] \in WalkStates(trie)
    BY DEF WalkStates
  <2>2. QED
    BY <1>4, <1>6, <1>7, <1>8, <2>1
<1> DEFINE fits == tok.type = "word" /\ v \in DOMAIN trie
<1>10. ~at.left /\ ~fits => new.t = at.t /\ new.left
  BY <1>4, <1>7
<1>11. ~at.left /\ fits /\ y \notin DOMAIN trie => new.t = v /\ new.left
  BY <1>8
<1>12. ~at.left /\ fits /\ y \in DOMAIN trie => new.t = y /\ ~new.left
  BY <1>8
<1>13. QED
  BY <1>6, <1>9, <1>10, <1>11, <1>12, Zenon DEF WalkTokenCases, new, y, v

LEMMA PrefixOfConcat ==
  ASSUME NEW x \in Text, NEW y \in Text
  PROVE  IsPrefix(x, x \o y) /\ x \o y \in Text
<1>1. /\ x \o y \in Text /\ Len(x) <= Len(x \o y)
      /\ \A j \in 1 .. Len(x) : x[j] = (x \o y)[j]
  BY DEF Text
<1>2. QED
  BY <1>1, PrefixIs

LEMMA PrefixTransitive ==
  ASSUME NEW x \in Text, NEW y \in Text, NEW z \in Text, IsPrefix(x, y), IsPrefix(y, z)
  PROVE  IsPrefix(x, z)
<1>1. /\ Len(x) \in Nat /\ Len(y) \in Nat /\ Len(z) \in Nat
      /\ Len(x) <= Len(y) /\ \A j \in 1 .. Len(x) : x[j] = y[j]
      /\ Len(y) <= Len(z) /\ \A j \in 1 .. Len(y) : y[j] = z[j]
  BY PrefixIs DEF Text
<1>2. Len(x) <= Len(z) /\ \A j \in 1 .. Len(x) : x[j] = z[j]
  BY <1>1
<1>3. QED
  BY <1>2, PrefixIs

(***************************************************************************)
(* The two loops over the same tokens: as long as both go on they are at   *)
(* the same node, and the one for help stops no later and no deeper.       *)
(***************************************************************************)
Along(trie, p, w) ==
  \/ p.left /\ p.t = NoNode
  \/ ~p.left /\ ~w.left /\ p.t = w.t /\ p.t \in DOMAIN trie
  \/ w.left /\ p.t \in DOMAIN trie /\ IsPrefix(w.t, p.t)

LEMMA StaysAlong ==
  ASSUME NEW trie, IsTrie(trie), IsWordTrie(trie), NEW mode, NEW tok \in Token,
         NEW p \in ParseStates(trie), NEW w \in WalkStates(trie), Along(trie, p, w)
  PROVE  Along(trie, ParseToken(trie, mode, p, tok), WalkToken(trie, w, tok))
<1> DEFINE p2 == ParseToken(trie, mode, p, tok)
           w2 == WalkToken(trie, w, tok)
           t == Reached(trie, mode, p.t, tok)
           v == p.t \o tok.text
<1>1. ParseTokenCases(trie, mode, p, tok)
  BY ParseTokenIs
<1>2. WalkTokenCases(trie, w, tok)
  BY WalkTokenIs
<1>3. CASE p.left
  <2>1. p2 = p
    BY <1>1, <1>3 DEF ParseTokenCases
  <2>2. w.left => w2 = w
    BY <1>2 DEF WalkTokenCases
  <2> HIDE DEF p2, w2
  <2>3. Along(trie, p2, w2)
    BY <1>3, <2>1, <2>2 DEF Along
  <2>4. QED
    BY <2>3 DEF p2, w2
<1>4. CASE ~p.left
  <2>1. p2.t = t /\ p2.left = (t = NoNode \/ trie[t] # NoCommand)
    BY <1>1, <1>4 DEF ParseTokenCases
  <2>2. CASE t = NoNode
    <3> HIDE DEF p2, w2, t
    <3>1. p2.left /\ p2.t = NoNode
      BY <2>1, <2>2
    <3>2. QED
      BY <3>1 DEF Along, p2, w2
  <2>3. CASE t # NoNode
    <3>1. tok.type = "word" /\ v \in DOMAIN trie /\ t = TrieRun(trie, v, mode)
      BY <2>3 DEF Reached
    <3>2. t \in Below(trie, v)
      BY <2>3, <3>1, RunGoesDown
    <3>3. t \in DOMAIN trie /\ IsPrefix(v, t) /\ t \in Text /\ v \in Text
      BY <3>1, <3>2 DEF Below, IsTrie
    <3>4. CASE w.left
      <4>1. p.t \in DOMAIN trie /\ IsPrefix(w.t, p.t) /\ w2 = w
        BY <1>2, <1>4, <3>4 DEF Along, WalkTokenCases
      <4>2. p.t \in Text /\ w.t \in Text /\ tok.text \in Text
        BY <4>1 DEF IsTrie, WalkStates, Token
      <4>3. IsPrefix(p.t, v)
        BY <4>2, PrefixOfConcat
      <4> HIDE DEF v, t, p2, w2
      <4>4. IsPrefix(w.t, t)
        BY <3>3, <4>1, <4>2, <4>3, PrefixTransitive
      <4>5. w2.left /\ p2.t \in DOMAIN trie /\ IsPrefix(w2.t, p2.t)
        BY <2>1, <3>3, <3>4, <4>1, <4>4
      <4>6. QED
        BY <4>5 DEF Along, p2, w2
    <3>5. CASE ~w.left
      <4>1. p.t = w.t
        BY <1>4, <3>5 DEF Along
      <4>2. CASE Append(v, SP) \in DOMAIN trie
        <5>1. w2.t = Append(v, SP) /\ ~w2.left
          BY <1>2, <3>1, <3>5, <4>1, <4>2 DEF WalkTokenCases
        <5>2. t = Append(v, SP) /\ trie[t] = NoCommand
          BY <2>3, <3>1, <4>2, RunAtSpace
        <5> HIDE DEF v, t, p2, w2
        <5>3. ~p2.left /\ ~w2.left /\ p2.t = w2.t /\ p2.t \in DOMAIN trie
          BY <2>1, <2>3, <3>3, <5>1, <5>2
        <5>4. QED
          BY <5>3 DEF Along, p2, w2
      <4>3. CASE Append(v, SP) \notin DOMAIN trie
        <5>1. w2.t = v /\ w2.left
          BY <1>2, <3>1, <3>5, <4>1, <4>3 DEF WalkTokenCases
        <5> HIDE DEF v, t, p2, w2
        <5>2. w2.left /\ p2.t \in DOMAIN trie /\ IsPrefix(w2.t, p2.t)
          BY <2>1, <3>3, <5>1
        <5>3. QED
          BY <5>2 DEF Along, p2, w2
      <4>4. QED
        BY <4>2, <4>3
    <3>6. QED
      BY <3>4, <3>5 DEF WalkStates
  <2>4. QED
    BY <2>2, <2>3
<1>5. QED
  BY <1>3, <1>4

-----------------------------------------------------------------------------
\* A loop over L tokens, each turn of which makes a value of S of the last one.
Turns(at, base, step, L) ==
  at = [n \in 0 .. L |-> IF n = 0 THEN base ELSE step[n - 1][at[n - 1]]]

LEMMA TurnsExist ==
  ASSUME NEW S, NEW base, base \in S, NEW step, step \in Steps(S), NEW L \in Nat
  PROVE  \E at : at \in [0 .. L -> S] /\ Turns(at, base, step, L)
<1>1. PICK f : Follows(f, S, base, step)
  BY PrimitiveRecursion
<1>2. f \in [Nat -> S] /\ f[0] = base /\ \A n \in Nat : f[n + 1] = step[n][f[n]]
  BY <1>1 DEF Follows
<1> DEFINE g == [n \in 0 .. L |-> f[n]]
<1>3. ASSUME NEW n \in 0 .. L
      PROVE  g[n] \in S /\ g[n] = IF n = 0 THEN base ELSE step[n - 1][g[n - 1]]
  <2>1. CASE n = 0
    BY <1>2, <2>1
  <2>2. CASE n # 0
    <3>1. PICK m \in Nat : m = n - 1 /\ n = m + 1 /\ m \in 0 .. L
      BY <2>2
    <3>2. f[m + 1] = step[m][f[m]]
      BY <1>2, <3>1
    <3>3. QED
      BY <1>2, <2>2, <3>1, <3>2
  <2>3. QED
    BY <2>1, <2>2
<1>4. g = [n \in 0 .. L |-> g[n]]
  OBVIOUS
<1> HIDE DEF g
<1>5. g = [n \in 0 .. L |-> IF n = 0 THEN base ELSE step[n - 1][g[n - 1]]]
  BY <1>3, <1>4
<1>6. g \in [0 .. L -> S]
  BY <1>3, <1>4
<1>7. QED
  BY <1>5, <1>6, Zenon DEF Turns

\* The recursive functions in ParseLoop and WalkLoop.
Parses(at, trie, mode, toks) ==
  at = [n \in 0 .. Len(toks) |->
          IF n = 0 THEN ParseStart ELSE ParseToken(trie, mode, at[n - 1], toks[n])]
Walks(at, trie, toks) ==
  at = [n \in 0 .. Len(toks) |->
          IF n = 0 THEN [t |-> <<>>, left |-> FALSE] ELSE WalkToken(trie, at[n - 1], toks[n])]

LEMMA ParsesExist ==
  ASSUME NEW trie, IsTrie(trie), <<>> \in DOMAIN trie, NEW mode, NEW toks \in Seq(Token)
  PROVE  \E at : Parses(at, trie, mode, toks)
<1> DEFINE S == ParseStates(trie)
           step == [n \in Nat |-> [v \in S |-> ParseToken(trie, mode, v, toks[n + 1])]]
<1>1. PICK L \in Nat : L = Len(toks)
  OBVIOUS
<1>2. step \in Steps(S) /\ ParseStart \in S
  BY ParseTokenType DEF Steps, ParseStates, ParseStart, Cursors
<1> HIDE DEF step, S
<1>3. PICK at \in [0 .. L -> S] : Turns(at, ParseStart, step, L)
  BY <1>2, TurnsExist
<1>4. at = [n \in 0 .. L |-> IF n = 0 THEN ParseStart ELSE step[n - 1][at[n - 1]]]
  BY <1>3, Zenon DEF Turns
<1>5. ASSUME NEW n \in 0 .. L, n # 0
      PROVE  step[n - 1][at[n - 1]] = ParseToken(trie, mode, at[n - 1], toks[n])
  <2>1. PICK m \in Nat : m = n - 1 /\ m + 1 = n /\ m \in 0 .. L
    BY <1>5
  <2>2. at[m] \in S
    BY <1>3, <2>1
  <2>3. step[m][at[m]] = ParseToken(trie, mode, at[m], toks[m + 1])
    BY <2>2 DEF step
  <2>4. QED
    BY <2>1, <2>3
<1>6. at = [n \in 0 .. L |->
              IF n = 0 THEN ParseStart ELSE ParseToken(trie, mode, at[n - 1], toks[n])]
  BY <1>4, <1>5
<1>7. QED
  BY <1>1, <1>6, Zenon DEF Parses

LEMMA WalksExist ==
  ASSUME NEW trie, IsTrie(trie), <<>> \in DOMAIN trie, NEW toks \in Seq(Token)
  PROVE  \E at : Walks(at, trie, toks)
<1> DEFINE S == WalkStates(trie)
           start == [t |-> <<>>, left |-> FALSE]
           step == [n \in Nat |-> [v \in S |-> WalkToken(trie, v, toks[n + 1])]]
<1>1. PICK L \in Nat : L = Len(toks)
  OBVIOUS
<1>2. step \in Steps(S) /\ start \in S
  BY WalkTokenIs DEF Steps, WalkStates, WalkTokenCases
<1> HIDE DEF step, S, start
<1>3. PICK at \in [0 .. L -> S] : Turns(at, start, step, L)
  BY <1>2, TurnsExist
<1>4. at = [n \in 0 .. L |-> IF n = 0 THEN start ELSE step[n - 1][at[n - 1]]]
  BY <1>3, Zenon DEF Turns
<1>5. ASSUME NEW n \in 0 .. L, n # 0
      PROVE  step[n - 1][at[n - 1]] = WalkToken(trie, at[n - 1], toks[n])
  <2>1. PICK m \in Nat : m = n - 1 /\ m + 1 = n /\ m \in 0 .. L
    BY <1>5
  <2>2. at[m] \in S
    BY <1>3, <2>1
  <2>3. step[m][at[m]] = WalkToken(trie, at[m], toks[m + 1])
    BY <2>2 DEF step
  <2>4. QED
    BY <2>1, <2>3
<1>6. at = [n \in 0 .. L |-> IF n = 0 THEN start ELSE WalkToken(trie, at[n - 1], toks[n])]
  BY <1>4, <1>5
<1>7. QED
  BY <1>1, <1>6, Zenon DEF Walks, start

LEMMA LoopsAlong ==
  ASSUME NEW trie, IsTrie(trie), IsWordTrie(trie), <<>> \in DOMAIN trie, NEW mode,
         NEW toks \in Seq(Token)
  PROVE  /\ Along(trie, ParseLoop(trie, mode, toks), WalkLoop(trie, toks))
         /\ WalkLoop(trie, toks) \in WalkStates(trie)
<1> DEFINE p == CHOOSE at : Parses(at, trie, mode, toks)
           w == CHOOSE at : Walks(at, trie, toks)
           start == [t |-> <<>>, left |-> FALSE]
<1>1. PICK L \in Nat : L = Len(toks)
  OBVIOUS
<1>2. Parses(p, trie, mode, toks) /\ Walks(w, trie, toks)
  BY ParsesExist, WalksExist, Zenon
<1>3. ParseLoop(trie, mode, toks) = p[L] /\ WalkLoop(trie, toks) = w[L]
  BY <1>1, Zenon DEF ParseLoop, WalkLoop, Parses, Walks
<1> HIDE DEF p, w
<1>4. /\ p = [n \in 0 .. L |->
                IF n = 0 THEN ParseStart ELSE ParseToken(trie, mode, p[n - 1], toks[n])]
      /\ w = [n \in 0 .. L |-> IF n = 0 THEN start ELSE WalkToken(trie, w[n - 1], toks[n])]
  BY <1>1, <1>2, Zenon DEF Parses, Walks
<1>5. p[0] = ParseStart /\ w[0] = start
  BY <1>4
<1> DEFINE Good(n) == /\ p[n] \in ParseStates(trie) /\ w[n] \in WalkStates(trie)
                      /\ Along(trie, p[n], w[n])
           G == {n \in Nat : n <= L => Good(n)}
<1>6. 0 \in G
  <2>1. /\ ParseStart \in ParseStates(trie) /\ start \in WalkStates(trie)
        /\ Along(trie, ParseStart, start)
    BY DEF ParseStart, ParseStates, WalkStates, Cursors, Along
  <2>2. QED
    BY <1>5, <2>1
<1>7. ASSUME NEW n \in Nat, n \in G PROVE n + 1 \in G
  <2>1. SUFFICES ASSUME n + 1 <= L PROVE Good(n + 1)
    OBVIOUS
  <2>2. Good(n) /\ n + 1 \in 0 .. L /\ n + 1 # 0 /\ (n + 1) - 1 = n
    BY <1>7, <2>1
  <2>3. p[n + 1] = ParseToken(trie, mode, p[n], toks[n + 1]) /\ w[n + 1] = WalkToken(trie, w[n], toks[n + 1])
    BY <1>4, <2>2
  <2>4. PICK tok \in Token : tok = toks[n + 1]
    BY <1>1, <2>1
  <2>5. /\ ParseToken(trie, mode, p[n], tok) \in ParseStates(trie)
        /\ WalkToken(trie, w[n], tok) \in WalkStates(trie)
    BY <2>2, ParseTokenType, WalkTokenIs DEF WalkTokenCases
  <2>6. Along(trie, ParseToken(trie, mode, p[n], tok), WalkToken(trie, w[n], tok))
    BY <2>2, StaysAlong
  <2>7. QED
    BY <2>3, <2>4, <2>5, <2>6
<1>8. L \in G
  <2> HIDE DEF G
  <2>1. QED
    BY <1>6, <1>7, Induction
<1>9. QED
  BY <1>3, <1>8

(***************************************************************************)
(* For every table of names that are words, and every visible() that tells *)
(* whether a mode is in a mask: of the command that a line runs, help in   *)
(* the middle of that line lists an entry.  A table with control           *)
(* characters in a name, or one that ends in a space, makes the two walks  *)
(* part.                                                                   *)
(***************************************************************************)
THEOREM HelpIsForWhatRuns ==
  ASSUME NamesAreWords, VisibleByParts
  PROVE  Spec => []HelpListsWhatRuns
<1>1. ASSUME BuiltInv PROVE HelpListsWhatRuns
  <2> DEFINE parsed(mode, line) == ParseCommand(root, mode, line)
  <2>1. SUFFICES ASSUME Built, NEW mode \in Modes, NEW line \in Lines, parsed(mode, line).ok
                 PROVE  \E k \in ToSet(trie_help(root, mode)[EditWalk(root, line)]) :
                          commands[k].command = parsed(mode, line).t
    BY DEF HelpListsWhatRuns
  <2> DEFINE p == ParseLoop(root, mode, Tokens(line))
             w == WalkLoop(root, Tokens(line))
  <2>2. /\ IsTrie(root) /\ Agrees(root) /\ IsWordTrie(root) /\ <<>> \in DOMAIN root
        /\ Len(commands) \in Nat
    BY <1>1, <2>1, BuiltIsTrie, BuiltIsWordTrie
  <2>3. Tokens(line) \in Seq(Token)
    <3>1. line \in Text /\ 1 \in 1 .. Len(line) + 1
      BY LinesAreText DEF Text
    <3>2. QED
      BY <3>1, TokensFromIs DEF Tokens
  <2>4. Along(root, p, w) /\ w \in WalkStates(root)
    BY <2>2, <2>3, LoopsAlong
  <2>5. Runnable(root, mode, p.t) /\ parsed(mode, line).t = p.t /\ EditWalk(root, line) = w.t
    BY <2>1 DEF ParseCommand, EditWalk
  <2> HIDE DEF p, w
  <2>6. /\ p.t \in DOMAIN root /\ VisibleCommand(root, p.t, mode)
        /\ w.t \in DOMAIN root /\ IsPrefix(w.t, p.t)
    <3>1. p.t \in DOMAIN root /\ VisibleCommand(root, p.t, mode)
      BY <2>5 DEF Runnable
    <3>2. p.t # NoNode /\ p.t \in Text
      BY <2>2, <3>1, NoNodeIsNoText DEF IsTrie
    <3>3. w.t \in DOMAIN root
      BY <2>4 DEF WalkStates
    <3>4. IsPrefix(w.t, p.t)
      BY <2>4, <3>2, PrefixOfSelf DEF Along
    <3>5. QED
      BY <3>1, <3>3, <3>4
  <2>7. PICK k \in 1 .. Len(commands) :
          commands[k].command = p.t /\ visible(mode, commands[k].modes)
    <3>1. i = Len(commands) /\ commands \in Tables
      BY <1>1, <2>1 DEF BuiltInv, TreeInv, Built
    <3>2. Given(i, p.t) # {} /\ root[p.t].modes = ModesGiven(i, p.t)
      BY <1>1, <2>6 DEF BuiltInv, TreeInv, TrieMatchesTable, VisibleCommand
    <3>3. PICK n \in 1 .. Len(commands) : commands[n].command = p.t
      BY <3>1, <3>2 DEF Given
    <3>4. Given(i, p.t) = Same(commands, n)
      BY <3>1, <3>3, <2>2 DEF Given, Same
    <3>5. VisibleMerged(commands, n, mode)
      BY <2>6, <3>2, <3>4 DEF VisibleCommand, VisibleMerged, ModesGiven
    <3>6. PICK k \in Same(commands, n) : visible(mode, commands[k].modes)
      BY <3>1, <3>5 DEF VisibleByParts
    <3>7. QED
      BY <3>3, <3>6 DEF Same
  <2>8. k \in Under(w.t, mode)
    BY <2>6, <2>7 DEF Under
  <2>9. k \in ToSet(trie_help(root, mode)[w.t])
    BY <2>2, <2>6, <2>8, HelpLists DEF Lists
  <2>10. QED
    BY <2>5, <2>7, <2>9
<1>2. QED
  BY <1>1, BuiltInvariant, PTL

-----------------------------------------------------------------------------
LEMMA CutIs ==
  ASSUME NEW s \in Text, NEW n \in 0 .. Len(s)
  PROVE  /\ SubSeq(s, 1, n) \in Text /\ Len(SubSeq(s, 1, n)) = n
         /\ \A j \in 1 .. n : SubSeq(s, 1, n)[j] = s[j]
         /\ SubSeq(s, 1, n) \in Prefixes(s) /\ IsPrefix(SubSeq(s, 1, n), s)
<1> DEFINE t == SubSeq(s, 1, n)
<1>1. /\ t \in Text /\ Len(t) = n /\ \A j \in 1 .. n : t[j] = s[j] /\ Len(s) \in Nat
  BY DEF Text
<1>2. t \in Prefixes(s)
  BY DEF Prefixes
<1> HIDE DEF t
<1>3. IsPrefix(t, s)
  BY <1>1, PrefixIs
<1>4. QED
  BY <1>1, <1>2, <1>3 DEF t

LEMMA ConcatIs ==
  ASSUME NEW S, NEW x \in Seq(S), NEW y \in Seq(S)
  PROVE  /\ x \o y \in Seq(S) /\ Len(x \o y) = Len(x) + Len(y)
         /\ \A j \in 1 .. Len(x) : (x \o y)[j] = x[j]
         /\ \A j \in Len(x) + 1 .. Len(x) + Len(y) : (x \o y)[j] = y[j - Len(x)]
  OBVIOUS

\* A line up to a word, that word and a space after it.
LEMMA CutsJoin ==
  ASSUME NEW s \in Text, NEW a \in 1 .. Len(s) + 1, NEW e \in a .. Len(s) + 1
  PROVE  /\ SubSeq(s, 1, a - 1) \o SubSeq(s, a, e - 1) = SubSeq(s, 1, e - 1)
         /\ e <= Len(s) => Append(SubSeq(s, 1, e - 1), s[e]) = SubSeq(s, 1, e)
<1>1. /\ Len(s) \in Nat /\ a \in Nat /\ e \in Nat
      /\ a - 1 \in 0 .. Len(s) /\ e - 1 \in 0 .. Len(s) /\ s \in Seq(Byte \ {0})
  BY DEF Text
<1> DEFINE x == SubSeq(s, 1, a - 1)
           y == SubSeq(s, a, e - 1)
           z == SubSeq(s, 1, e - 1)
<1>2. /\ x \in Seq(Byte \ {0}) /\ Len(x) = a - 1 /\ \A j \in 1 .. a - 1 : x[j] = s[j]
      /\ z \in Seq(Byte \ {0}) /\ Len(z) = e - 1 /\ \A j \in 1 .. e - 1 : z[j] = s[j]
  BY <1>1, CutIs DEF Text
<1>3. /\ y \in Seq(Byte \ {0}) /\ Len(y) = e - a /\ \A j \in 1 .. e - a : y[j] = s[a + j - 1]
  BY <1>1
<1> HIDE DEF x, y, z
<1>4. x \o y = z
  <2> DEFINE w == x \o y
  <2>1. /\ w \in Seq(Byte \ {0}) /\ Len(w) = Len(x) + Len(y)
        /\ \A j \in 1 .. Len(x) : w[j] = x[j]
        /\ \A j \in Len(x) + 1 .. Len(x) + Len(y) : w[j] = y[j - Len(x)]
    BY <1>2, <1>3, ConcatIs
  <2> HIDE DEF w
  <2>2. ASSUME NEW j \in 1 .. Len(w) PROVE w[j] = z[j]
    <3>1. CASE j <= a - 1
      BY <1>1, <1>2, <1>3, <2>1, <3>1
    <3>2. CASE j > a - 1
      <4>1. PICK n \in Nat : n = j - (a - 1) /\ n \in 1 .. e - a /\ a + n - 1 = j
        BY <1>1, <1>2, <1>3, <2>1, <3>2
      <4>2. j \in Len(x) + 1 .. Len(x) + Len(y) /\ j - Len(x) = n
        BY <1>1, <1>2, <1>3, <2>1, <3>2, <4>1
      <4>3. w[j] = y[n] /\ y[n] = s[j]
        BY <1>3, <2>1, <4>1, <4>2
      <4>4. j \in 1 .. e - 1
        BY <1>1, <1>2, <1>3, <4>2
      <4>5. QED
        BY <1>2, <4>3, <4>4
    <3>3. QED
      BY <1>1, <2>1, <3>1, <3>2
  <2>3. Len(w) = Len(z)
    BY <1>1, <1>2, <1>3, <2>1
  <2>4. w = z
    BY <1>2, <2>1, <2>2, <2>3, SeqEqual
  <2>5. QED
    BY <2>4 DEF w
<1>5. ASSUME e <= Len(s) PROVE Append(z, s[e]) = SubSeq(s, 1, e)
  <2> DEFINE w == Append(z, s[e])
             u == SubSeq(s, 1, e)
  <2>1. /\ e \in 0 .. Len(s) /\ s[e] \in Byte \ {0}
    BY <1>1, <1>5
  <2>2. /\ u \in Seq(Byte \ {0}) /\ Len(u) = e /\ \A j \in 1 .. e : u[j] = s[j]
    BY <2>1, CutIs DEF Text
  <2>3. /\ w \in Seq(Byte \ {0}) /\ Len(w) = Len(z) + 1 /\ w[Len(z) + 1] = s[e]
        /\ \A j \in 1 .. Len(z) : w[j] = z[j]
    BY <1>2, <2>1
  <2> HIDE DEF w, u
  <2>4. ASSUME NEW j \in 1 .. Len(w) PROVE w[j] = u[j]
    <3>1. j = e \/ j \in 1 .. e - 1
      BY <1>1, <1>2, <2>3
    <3>2. Len(z) + 1 = e
      BY <1>1, <1>2
    <3>3. QED
      BY <1>1, <1>2, <2>2, <2>3, <3>1, <3>2
  <2>5. Len(w) = Len(u)
    BY <1>1, <1>2, <2>2, <2>3
  <2>6. w = u
    BY <2>2, <2>3, <2>4, <2>5, SeqEqual
  <2>7. QED
    BY <2>6 DEF w, u
<1>6. QED
  BY <1>4, <1>5 DEF x, y, z

ParseTurns(at, trie, mode, toks) ==
  /\ ParseLoop(trie, mode, toks) = at[Len(toks)]
  /\ at[0] = ParseStart
  /\ \A n \in 0 .. Len(toks) - 1 : at[n + 1] = ParseToken(trie, mode, at[n], toks[n + 1])

LEMMA ParseLoopIs ==
  ASSUME NEW trie, IsTrie(trie), <<>> \in DOMAIN trie, NEW mode, NEW toks \in Seq(Token)
  PROVE  \E at : ParseTurns(at, trie, mode, toks)
<1> DEFINE p == CHOOSE at : Parses(at, trie, mode, toks)
<1>1. PICK L \in Nat : L = Len(toks)
  OBVIOUS
<1>2. Parses(p, trie, mode, toks)
  BY ParsesExist, Zenon
<1>3. ParseLoop(trie, mode, toks) = p[L]
  BY <1>1, Zenon DEF ParseLoop, Parses
<1> HIDE DEF p
<1>4. p = [n \in 0 .. L |-> IF n = 0 THEN ParseStart ELSE ParseToken(trie, mode, p[n - 1], toks[n])]
  BY <1>1, <1>2, Zenon DEF Parses
<1>5. p[0] = ParseStart
  BY <1>4
<1>6. ASSUME NEW n \in 0 .. L - 1 PROVE p[n + 1] = ParseToken(trie, mode, p[n], toks[n + 1])
  <2>1. n + 1 \in 0 .. L /\ n + 1 # 0 /\ (n + 1) - 1 = n
    BY <1>6
  <2>2. QED
    BY <1>4, <2>1
<1>7. ParseTurns(p, trie, mode, toks)
  BY <1>1, <1>3, <1>5, <1>6 DEF ParseTurns
<1>8. QED
  BY <1>7

\* The line up to the end of token n.
UpTo(s, toks, n) == SubSeq(s, 1, toks[n].end - 1)

\* Whether a command can be seen where one of the words before n ends.
Stops(trie, mode, s, toks, n) ==
  \E k \in 1 .. n : VisibleCommand(trie, UpTo(s, toks, k), mode)

\* What parsecommand()'s loop has come to before token n + 1 of a path.
Stage(trie, mode, s, toks, at, n) ==
  IF Stops(trie, mode, s, toks, n) THEN at.left /\ at.t = NoNode
  ELSE ~at.left /\ at.used = n /\ at.t = SubSeq(s, 1, toks[n + 1].start - 1)

\* One token of a line of words that is a path of the trie.
WordTokenIs(trie, s, toks, n) ==
  LET v == UpTo(s, toks, n) IN
  /\ toks[n].type = "word" /\ v \in DOMAIN trie
  /\ SubSeq(s, 1, toks[n].start - 1) \o toks[n].text = v
  /\ n = Len(toks) => v = s
  /\ n < Len(toks) => /\ Append(v, SP) \in DOMAIN trie
                      /\ Append(v, SP) = SubSeq(s, 1, toks[n + 1].start - 1)
                      /\ IsPrefix(Append(v, SP), s)

LEMMA WordToken ==
  ASSUME NEW trie, IsTrie(trie), NEW s \in DOMAIN trie, IsWords(s),
         NEW toks, WordsFrom(toks, s, 1), NEW n \in 1 .. Len(toks)
  PROVE  WordTokenIs(trie, s, toks, n)
<1>1. s \in Text /\ Len(s) \in Nat /\ Prefixes(s) \subseteq DOMAIN trie
  BY DEF IsTrie, Text
<1>2. PICK a \in 1 .. Len(s), e \in 1 + 1 .. Len(s) + 1 :
        /\ IsWord(toks[n], s, a, e) /\ a < e
        /\ n = Len(toks) => e = Len(s) + 1
        /\ n < Len(toks) => e < Len(s) /\ s[e] = SP /\ toks[n + 1].start = e + 1
  BY DEF WordsFrom
<1>3. toks[n].type = "word" /\ toks[n].start = a /\ toks[n].end = e /\ toks[n].text = SubSeq(s, a, e - 1)
  BY <1>2 DEF IsWord
<1>4. a \in 1 .. Len(s) + 1 /\ e \in a .. Len(s) + 1 /\ e - 1 \in 0 .. Len(s)
  BY <1>1, <1>2
<1>5. UpTo(s, toks, n) = SubSeq(s, 1, e - 1) /\ UpTo(s, toks, n) \in DOMAIN trie
  <2>1. UpTo(s, toks, n) = SubSeq(s, 1, e - 1)
    BY <1>3 DEF UpTo
  <2>2. SubSeq(s, 1, e - 1) \in Prefixes(s)
    BY <1>1, <1>4, CutIs
  <2>3. QED
    BY <1>1, <2>1, <2>2
<1>6. SubSeq(s, 1, toks[n].start - 1) \o toks[n].text = UpTo(s, toks, n)
  <2>1. SubSeq(s, 1, a - 1) \o SubSeq(s, a, e - 1) = SubSeq(s, 1, e - 1)
    BY <1>1, <1>4, CutsJoin
  <2>2. QED
    BY <1>3, <1>5, <2>1
<1>7. ASSUME n = Len(toks) PROVE UpTo(s, toks, n) = s
  <2>1. e - 1 = Len(s) /\ SubSeq(s, 1, Len(s)) = s
    BY <1>1, <1>2, <1>7 DEF Text
  <2>2. QED
    BY <1>5, <2>1
<1>8. ASSUME n < Len(toks)
      PROVE  LET y == Append(UpTo(s, toks, n), SP) IN
             y \in DOMAIN trie /\ y = SubSeq(s, 1, toks[n + 1].start - 1) /\ IsPrefix(y, s)
  <2>1. e \in 0 .. Len(s) /\ e <= Len(s) /\ s[e] = SP /\ toks[n + 1].start - 1 = e
    BY <1>1, <1>2, <1>8
  <2>2. Append(SubSeq(s, 1, e - 1), s[e]) = SubSeq(s, 1, e)
    BY <1>1, <1>4, <2>1, CutsJoin
  <2>3. SubSeq(s, 1, e) \in Prefixes(s) /\ IsPrefix(SubSeq(s, 1, e), s)
    BY <1>1, <2>1, CutIs
  <2>4. Append(UpTo(s, toks, n), SP) = SubSeq(s, 1, e)
    BY <1>5, <2>1, <2>2
  <2>5. QED
    BY <1>1, <2>1, <2>3, <2>4
<1>9. QED
  BY <1>3, <1>5, <1>6, <1>7, <1>8 DEF WordTokenIs

NameParsed(trie, mode, s, toks, at) ==
  IF Stops(trie, mode, s, toks, Len(toks) - 1) THEN at.t = NoNode
  ELSE at.t = TrieRun(trie, s, mode) /\ at.used = Len(toks)

\* The loop on a line of words that is a path of the trie.
LEMMA PathIsParsed ==
  ASSUME NEW trie, IsTrie(trie), IsWordTrie(trie), <<>> \in DOMAIN trie, NEW mode,
         NEW s \in DOMAIN trie, IsWords(s), NEW toks, WordsFrom(toks, s, 1)
  PROVE  NameParsed(trie, mode, s, toks, ParseLoop(trie, mode, toks))
<1>1. toks \in Seq(Token) /\ Len(toks) \in Nat /\ Len(toks) >= 1 /\ toks[1].start = 1
  BY DEF WordsFrom
<1>2. PICK at : ParseTurns(at, trie, mode, toks)
  BY <1>1, ParseLoopIs
<1> DEFINE Good(n) == Stage(trie, mode, s, toks, at[n], n)
           G == {n \in Nat : n <= Len(toks) - 1 => Good(n)}
<1>3. 0 \in G
  <2>1. ~Stops(trie, mode, s, toks, 0)
    BY DEF Stops
  <2>2. SubSeq(s, 1, toks[0 + 1].start - 1) = <<>>
    <3>1. toks[0 + 1].start - 1 = 0 /\ s \in Seq(Byte \ {0})
      BY <1>1 DEF IsTrie, Text
    <3>2. SubSeq(s, 1, 0) = <<>>
      BY <3>1, SubSeqEmpty
    <3>3. QED
      BY <3>1, <3>2
  <2>3. at[0] = ParseStart
    BY <1>2 DEF ParseTurns
  <2>4. ~at[0].left /\ at[0].used = 0 /\ at[0].t = <<>>
    BY <2>3 DEF ParseStart
  <2>5. Good(0)
    BY <2>1, <2>2, <2>4 DEF Stage
  <2>6. QED
    BY <2>5
<1>4. ASSUME NEW n \in Nat, n + 1 <= Len(toks), Good(n)
      PROVE  /\ Stops(trie, mode, s, toks, n) => at[n + 1] = at[n]
             /\ ~Stops(trie, mode, s, toks, n) =>
                  /\ at[n + 1].t = TrieRun(trie, UpTo(s, toks, n + 1), mode)
                  /\ at[n + 1].used = n + 1
                  /\ at[n + 1].left = (at[n + 1].t = NoNode \/ trie[at[n + 1].t] # NoCommand)
  <2>1. n \in 0 .. Len(toks) - 1 /\ n + 1 \in 1 .. Len(toks)
    BY <1>1, <1>4
  <2>2. at[n + 1] = ParseToken(trie, mode, at[n], toks[n + 1])
    BY <1>2, <2>1 DEF ParseTurns
  <2> DEFINE tok == toks[n + 1]
             v == UpTo(s, toks, n + 1)
             t == Reached(trie, mode, at[n].t, tok)
  <2>3. /\ at[n].left => at[n + 1] = at[n]
        /\ ~at[n].left => at[n + 1] = [t |-> t, used |-> at[n].used + 1,
                                       left |-> t = NoNode \/ trie[t] # NoCommand]
    <3>1. ParseTokenCases(trie, mode, at[n], tok)
      BY ParseTokenIs
    <3>2. QED
      BY <2>2, <3>1 DEF ParseTokenCases
  <2>4. tok.type = "word" /\ v \in DOMAIN trie /\ SubSeq(s, 1, tok.start - 1) \o tok.text = v
    <3>1. WordTokenIs(trie, s, toks, n + 1)
      BY <2>1, WordToken
    <3>2. QED
      BY <3>1 DEF WordTokenIs
  <2>5. ASSUME ~Stops(trie, mode, s, toks, n) PROVE ~at[n].left /\ at[n].used = n /\ t = TrieRun(trie, v, mode)
    <3>1. ~at[n].left /\ at[n].used = n /\ at[n].t = SubSeq(s, 1, tok.start - 1)
      BY <1>4, <2>5 DEF Stage
    <3>2. at[n].t \o tok.text = v
      BY <2>4, <3>1
    <3> HIDE DEF v, tok
    <3>3. t = TrieRun(trie, v, mode)
      BY <2>4, <3>2 DEF Reached
    <3>4. QED
      BY <3>1, <3>3
  <2>6. Stops(trie, mode, s, toks, n) => at[n].left
    BY <1>4 DEF Stage
  <2> HIDE DEF v, tok, t
  <2>7. QED
    BY <2>3, <2>5, <2>6 DEF v
<1>5. ASSUME NEW n \in Nat, n \in G PROVE n + 1 \in G
  <2>1. SUFFICES ASSUME n + 1 <= Len(toks) - 1 PROVE Good(n + 1)
    OBVIOUS
  <2>2. Good(n) /\ n + 1 <= Len(toks) /\ n + 1 \in 1 .. Len(toks) /\ n + 1 < Len(toks)
    BY <1>1, <1>5, <2>1
  <2> DEFINE v == UpTo(s, toks, n + 1)
             y == Append(v, SP)
             nextAt == at[n + 1]
  <2>3. Stops(trie, mode, s, toks, n + 1) <=> Stops(trie, mode, s, toks, n) \/ VisibleCommand(trie, v, mode)
    <3>1. 1 .. n + 1 = (1 .. n) \cup {n + 1}
      OBVIOUS
    <3>2. QED
      BY <3>1 DEF Stops
  <2>4. v \in DOMAIN trie /\ y \in DOMAIN trie /\ y = SubSeq(s, 1, toks[n + 1 + 1].start - 1)
    <3>1. WordTokenIs(trie, s, toks, n + 1)
      BY <2>2, WordToken
    <3>2. QED
      BY <2>2, <3>1 DEF WordTokenIs
  <2>5. TrieRun(trie, v, mode) = (IF VisibleCommand(trie, v, mode) THEN NoNode ELSE y) /\ trie[y] = NoCommand
    BY <2>4, RunAtSpace
  <2>6. y # NoNode
    BY <2>4, NoNodeIsNoText DEF IsTrie
  <2>7. /\ Stops(trie, mode, s, toks, n) => nextAt = at[n]
        /\ ~Stops(trie, mode, s, toks, n) =>
             /\ nextAt.t = TrieRun(trie, v, mode) /\ nextAt.used = n + 1
             /\ nextAt.left = (nextAt.t = NoNode \/ trie[nextAt.t] # NoCommand)
    BY <1>4, <2>2
  <2> HIDE DEF v, y, nextAt
  <2>8. Stage(trie, mode, s, toks, nextAt, n + 1)
    <3>1. CASE Stops(trie, mode, s, toks, n)
      <4>1. at[n].left /\ at[n].t = NoNode
        BY <2>2, <3>1 DEF Stage
      <4>2. QED
        BY <2>3, <2>7, <3>1, <4>1 DEF Stage
    <3>2. CASE ~Stops(trie, mode, s, toks, n) /\ VisibleCommand(trie, v, mode)
      <4>1. nextAt.t = NoNode /\ nextAt.left
        BY <2>5, <2>7, <3>2
      <4>2. QED
        BY <2>3, <3>2, <4>1 DEF Stage
    <3>3. CASE ~Stops(trie, mode, s, toks, n) /\ ~VisibleCommand(trie, v, mode)
      <4>1. nextAt.t = y /\ ~nextAt.left /\ nextAt.used = n + 1
        BY <2>5, <2>6, <2>7, <3>3
      <4>2. QED
        BY <2>3, <2>4, <3>3, <4>1 DEF Stage
    <3>4. QED
      BY <3>1, <3>2, <3>3
  <2>9. QED
    BY <2>8 DEF nextAt
<1>6. \A n \in Nat : n \in G
  <2> HIDE DEF G
  <2>1. QED
    BY <1>3, <1>5, Induction
<1>7. PICK n \in Nat : n + 1 = Len(toks) /\ n = Len(toks) - 1 /\ n + 1 <= Len(toks)
  BY <1>1
<1>8. Good(n)
  BY <1>6, <1>7
<1>9. UpTo(s, toks, n + 1) = s
  <2>1. n + 1 \in 1 .. Len(toks)
    BY <1>1, <1>7
  <2>2. QED
    BY <1>7, <2>1, WordToken DEF WordTokenIs
<1>10. ParseLoop(trie, mode, toks) = at[n + 1]
  BY <1>2, <1>7 DEF ParseTurns
<1>11. NameParsed(trie, mode, s, toks, at[n + 1])
  <2>1. CASE Stops(trie, mode, s, toks, n)
    <3>1. at[n + 1] = at[n] /\ at[n].t = NoNode
      BY <1>4, <1>7, <1>8, <2>1 DEF Stage
    <3>2. QED
      BY <1>7, <2>1, <3>1 DEF NameParsed
  <2>2. CASE ~Stops(trie, mode, s, toks, n)
    <3>1. at[n + 1].t = TrieRun(trie, s, mode) /\ at[n + 1].used = n + 1
      BY <1>4, <1>7, <1>8, <1>9, <2>2
    <3>2. QED
      BY <1>7, <2>2, <3>1 DEF NameParsed
  <2>3. QED
    BY <2>1, <2>2
<1>12. QED
  BY <1>10, <1>11

-----------------------------------------------------------------------------
\* A command can be seen at a path if one of its entries can.
SeenAt(x, mode) == \E j \in Shown(mode) : commands[j].command = x

LEMMA SeenIs ==
  ASSUME VisibleByParts, VisibleTogether, BuiltInv, Built, NEW mode \in Modes, NEW x \in DOMAIN root
  PROVE  VisibleCommand(root, x, mode) <=> SeenAt(x, mode)
<1>1. /\ i = Len(commands) /\ commands \in Tables /\ Len(commands) \in Nat /\ Agrees(root)
  BY BuiltIsTrie DEF BuiltInv, TreeInv, Built
<1>2. CASE \A j \in 1 .. Len(commands) : commands[j].command # x
  <2>1. root[x] = NoCommand
    <3>1. Given(i, x) = {}
      BY <1>1, <1>2 DEF Given
    <3>2. QED
      BY <3>1 DEF BuiltInv, TreeInv, TrieMatchesTable
  <2>2. ~SeenAt(x, mode)
    BY <1>2 DEF SeenAt, Shown
  <2>3. QED
    BY <2>1, <2>2 DEF VisibleCommand
<1>3. ASSUME NEW n \in 1 .. Len(commands), commands[n].command = x
      PROVE  VisibleCommand(root, x, mode) <=> SeenAt(x, mode)
  <2>1. Given(i, x) = Same(commands, n) /\ Given(i, x) # {}
    BY <1>1, <1>3 DEF Given, Same
  <2>2. root[x] # NoCommand
    BY <1>1, <1>3 DEF Agrees
  <2>3. root[x].modes = ModesGiven(i, x)
    BY <2>1 DEF BuiltInv, TreeInv, TrieMatchesTable
  <2>4. VisibleCommand(root, x, mode) <=> VisibleMerged(commands, n, mode)
    BY <2>1, <2>2, <2>3 DEF VisibleCommand, VisibleMerged, ModesGiven
  <2>5. ASSUME VisibleMerged(commands, n, mode) PROVE SeenAt(x, mode)
    <3>1. PICK j \in Same(commands, n) : visible(mode, commands[j].modes)
      BY <1>1, <2>5 DEF VisibleByParts
    <3>2. QED
      BY <1>3, <3>1 DEF SeenAt, Shown, Same
  <2>6. ASSUME SeenAt(x, mode) PROVE VisibleMerged(commands, n, mode)
    <3>1. PICK j \in 1 .. Len(commands) : visible(mode, commands[j].modes) /\ commands[j].command = x
      BY <2>6 DEF SeenAt, Shown
    <3>2. VisibleMerged(commands, j, mode)
      BY <1>1, <3>1 DEF VisibleTogether
    <3>3. Same(commands, j) = Same(commands, n)
      BY <1>3, <3>1 DEF Same
    <3>4. QED
      BY <3>2, <3>3 DEF VisibleMerged
  <2>7. QED
    BY <2>4, <2>5, <2>6
<1>4. QED
  BY <1>2, <1>3

LEMMA NameIsWords ==
  ASSUME NamesAreWords, NamesCanBeTyped, BuiltInv, Built, NEW k \in 1 .. Len(commands)
  PROVE  IsWords(commands[k].command)
<1>1. commands \in Tables /\ commands \in Seq(Entries)
  BY TablesAreTables DEF BuiltInv, TreeInv
<1>2. PICK e \in Entries : e = commands[k]
  BY <1>1
<1>3. e.command \in Text /\ e.command # <<>>
  BY <1>1, <1>2, TablesAreTables
<1>4. PICK s \in Text : s = e.command /\ Len(s) \in Nat /\ Len(s) >= 1
  BY <1>3 DEF Text
<1>5. /\ \A j \in 1 .. Len(s) : s[j] >= SP /\ s[j] \notin {SQ, DQ, PIPE}
      /\ s[Len(s)] # SP /\ s[1] # SP
      /\ \A j \in 1 .. Len(s) - 1 : s[j] = SP => s[j + 1] # SP
  <2>1. \A j \in 1 .. Len(s) : s[j] >= SP /\ Last(s) # SP
    BY <1>4 DEF NamesAreWords
  <2>2. ToSet(s) \cap {SQ, DQ, PIPE} = {} /\ Head(s) # SP
    BY <1>4 DEF NamesCanBeTyped
  <2>3. \A j \in 1 .. Len(s) - 1 : s[j] = SP => s[j + 1] # SP
    BY <1>4 DEF NamesCanBeTyped
  <2>4. ASSUME NEW j \in 1 .. Len(s) PROVE s[j] \in ToSet(s)
    BY <1>4 DEF ToSet
  <2>5. Head(s) = s[1]
    BY <1>4 DEF Text
  <2>6. Last(s) # SP
    BY <1>4 DEF NamesAreWords
  <2>7. QED
    BY <1>4, <2>1, <2>2, <2>3, <2>4, <2>5, <2>6 DEF Last
<1>6. ASSUME NEW j \in 1 .. Len(s) PROVE Plain(s[j]) \/ s[j] = SP
  <2>1. PICK q \in Byte \ {0} : q = s[j]
    BY <1>4 DEF Text
  <2>2. q >= SP /\ q \notin {SQ, DQ, PIPE}
    BY <1>5, <2>1
  <2>3. QED
    BY <2>1, <2>2 DEF Plain, IsSpace, Byte, NUL, SP, HT, LF, VT, FF, CR
<1>7. s # <<>>
  BY <1>3, <1>4
<1>8. IsWords(s)
  BY <1>5, <1>6, <1>7 DEF IsWords
<1>9. QED
  BY <1>2, <1>4, <1>8

\* A visible command where a word of the name ends is one that the name goes
\* on from with a space.
LEMMA StopsAre ==
  ASSUME VisibleByParts, VisibleTogether, BuiltInv, Built, NEW mode \in Modes,
         NEW s \in DOMAIN root, IsWords(s), NEW toks, WordsFrom(toks, s, 1)
  PROVE  Stops(root, mode, s, toks, Len(toks) - 1) <=>
           \E j \in Shown(mode) : IsPrefix(commands[j].command \o <<SP>>, s)
<1>1. /\ IsTrie(root) /\ Agrees(root) /\ s \in Text /\ Len(s) \in Nat
      /\ toks \in Seq(Token) /\ Len(toks) \in Nat /\ Len(toks) >= 1
  BY BuiltIsTrie DEF IsTrie, Text, WordsFrom
<1>2. ASSUME NEW j \in Shown(mode)
      PROVE  /\ commands[j].command \in DOMAIN root /\ commands[j].command \in Text
             /\ commands[j].command \o <<SP>> = Append(commands[j].command, SP)
  <2>1. commands[j].command \in DOMAIN root
    BY <1>1 DEF Agrees, Shown
  <2>2. PICK c \in Text : c = commands[j].command
    BY <1>1, <2>1 DEF IsTrie
  <2>3. c \in Seq(Byte \ {0}) /\ SP \in Byte \ {0}
    BY DEF Text, SP, Byte
  <2>4. c \o <<SP>> = Append(c, SP)
    BY <2>3, AppendIsConcat
  <2>5. QED
    BY <2>1, <2>2, <2>4
<1>3. ASSUME NEW n \in 1 .. Len(toks) - 1, VisibleCommand(root, UpTo(s, toks, n), mode)
      PROVE  \E j \in Shown(mode) : IsPrefix(commands[j].command \o <<SP>>, s)
  <2>1. n \in 1 .. Len(toks) /\ n < Len(toks)
    BY <1>1
  <2>2. UpTo(s, toks, n) \in DOMAIN root /\ IsPrefix(Append(UpTo(s, toks, n), SP), s)
    <3>1. WordTokenIs(root, s, toks, n)
      BY <1>1, <2>1, WordToken
    <3>2. QED
      BY <2>1, <3>1 DEF WordTokenIs
  <2>3. PICK j \in Shown(mode) : commands[j].command = UpTo(s, toks, n)
    BY <1>3, <2>2, SeenIs DEF SeenAt
  <2>4. QED
    BY <1>2, <2>2, <2>3
<1>4. ASSUME NEW j \in Shown(mode), IsPrefix(commands[j].command \o <<SP>>, s)
      PROVE  Stops(root, mode, s, toks, Len(toks) - 1)
  <2>1. PICK c \in Text : /\ c = commands[j].command /\ c \in DOMAIN root
                          /\ IsPrefix(Append(c, SP), s) /\ Len(c) \in Nat
    <3>1. PICK c \in Text : c = commands[j].command
      BY <1>2
    <3>2. c \in DOMAIN root /\ IsPrefix(Append(c, SP), s)
      BY <1>2, <1>4, <3>1
    <3>3. Len(c) \in Nat
      BY DEF Text
    <3>4. QED
      BY <3>1, <3>2, <3>3
  <2>2. SP \in Byte \ {NUL}
    BY DEF SP, Byte, NUL
  <2>3. IsPrefix(c, s) /\ Len(c) < Len(s) /\ s[Len(c) + 1] = SP
    BY <1>1, <2>1, <2>2, OneEdge
  <2>4. Len(c) + 1 \in 1 .. Len(s)
    BY <1>1, <2>1, <2>3
  <2>5. PICK n \in 1 .. Len(toks) - 1 : toks[n].end = Len(c) + 1
    BY <2>3, <2>4 DEF WordsFrom
  <2>6. UpTo(s, toks, n) = c
    <3>1. UpTo(s, toks, n) = SubSeq(s, 1, Len(c))
      BY <2>1, <2>5 DEF UpTo
    <3>2. SubSeq(c, 1, Len(c)) = c
      BY DEF Text
    <3>3. QED
      BY <2>3, <3>1, <3>2 DEF IsPrefix
  <2>7. SeenAt(c, mode)
    BY <2>1 DEF SeenAt
  <2>8. VisibleCommand(root, c, mode)
    BY <2>1, <2>7, SeenIs
  <2>9. QED
    BY <2>6, <2>8 DEF Stops
<1>5. QED
  BY <1>3, <1>4 DEF Stops

\* What goes on from a visible command: another one, or any after a space.
Continued(s, mode) ==
  \E j \in 1 .. Len(commands) :
    /\ IsStrictPrefix(s, commands[j].command)
    /\ j \in Shown(mode) \/ SP \in ToSet(Label(s, commands[j].command))

LEMMA ContinuedIs ==
  ASSUME VisibleByParts, VisibleTogether, BuiltInv, Built, NEW mode \in Modes,
         NEW s \in DOMAIN root, VisibleCommand(root, s, mode)
  PROVE  Following(WordCommands(root, s, mode), s) \cup WordEnds(root, s) # {} <=> Continued(s, mode)
<1> DEFINE W == WordCommands(root, s, mode)
           A == WordEnds(root, s)
<1>1. /\ IsTrie(root) /\ Agrees(root) /\ s \in Text /\ Len(s) \in Nat
      /\ DOMAIN root = PathsGiven(Len(commands))
  BY BuiltIsTrie DEF IsTrie, Text, BuiltInv, TreeInv, TrieMatchesTable, Built
<1>2. s \in W
  <2>1. Spaceless(s, Len(s) + 1, Len(s))
    BY <1>1 DEF Spaceless
  <2>2. QED
    BY <1>1, <2>1, BelowIs, WordCommandsAre
<1>3. ASSUME NEW j \in 1 .. Len(commands)
      PROVE  commands[j].command \in DOMAIN root /\ commands[j].command \in Text
  BY <1>1 DEF Agrees, IsTrie
<1>4. ASSUME NEW x \in Following(W, s) PROVE Continued(s, mode)
  <2>1. x \in W /\ Precedes(s, x)
    <3>1. s # NoNode
      BY <1>1, NoNodeIsNoText
    <3> HIDE DEF W
    <3>2. QED
      BY <1>4, <3>1 DEF Following
  <2>2. x \in Below(root, s) /\ VisibleCommand(root, x, mode) /\ x \in DOMAIN root
    BY <1>1, <2>1, WordCommandsAre, BelowIs
  <2>3. x # s
    BY <1>1, <2>1, PrecedesOneWay
  <2>4. PICK j \in Shown(mode) : commands[j].command = x
    BY <2>2, SeenIs DEF SeenAt
  <2>5. IsStrictPrefix(s, x)
    BY <2>2, <2>3 DEF Below, IsStrictPrefix
  <2>6. QED
    BY <2>4, <2>5 DEF Continued, Shown
<1>5. ASSUME NEW x \in A PROVE Continued(s, mode)
  <2>1. x \in Below(root, s) /\ Len(s) < Len(x) /\ x[Len(x)] = SP
    BY <1>1, <1>5, WordEndsAre
  <2>2. x \in DOMAIN root /\ x \in Text /\ IsPrefix(s, x) /\ Len(x) \in Nat
    BY <1>1, <2>1 DEF Below, IsTrie, Text
  <2>3. PICK j \in 1 .. Len(commands) : x \in Prefixes(commands[j].command)
    BY <1>1, <2>2 DEF PathsGiven
  <2>4. PICK c \in Text : c = commands[j].command
    BY <1>3
  <2>5. PICK n \in 0 .. Len(c) : x = SubSeq(c, 1, n)
    BY <2>3, <2>4 DEF Prefixes
  <2>6. Len(c) \in Nat /\ Len(x) = n /\ IsPrefix(x, c) /\ c[Len(x)] = SP
    <3>1. Len(x) = n /\ (\A m \in 1 .. n : x[m] = c[m]) /\ IsPrefix(x, c)
      BY <2>5, CutIs
    <3>2. n \in 1 .. n
      BY <1>1, <2>1, <3>1
    <3>3. QED
      BY <2>1, <3>1, <3>2 DEF Text
  <2>7. IsPrefix(s, c)
    BY <1>1, <2>2, <2>6, PrefixTransitive
  <2>8. IsStrictPrefix(s, c)
    BY <1>1, <2>1, <2>6, <2>7 DEF IsStrictPrefix
  <2>9. SP \in ToSet(Label(s, c))
    <3>1. PICK m \in Nat : m = Len(x) - Len(s) /\ m \in 1 .. Len(c) - Len(s) /\ Len(s) + m = Len(x)
      BY <1>1, <2>1, <2>2, <2>6
    <3>2. Len(Label(s, c)) = Len(c) - Len(s) /\ Label(s, c)[m] = SP
      BY <1>1, <2>6, <2>7, <3>1, LabelIs
    <3>3. m \in DOMAIN Label(s, c)
      <4>1. Label(s, c) \in Text
        BY <1>1, <2>6 DEF Label, Text
      <4>2. DOMAIN Label(s, c) = 1 .. Len(Label(s, c))
        BY <4>1 DEF Text
      <4>3. QED
        BY <3>1, <3>2, <4>2
    <3>4. QED
      BY <3>2, <3>3 DEF ToSet
  <2>10. QED
    BY <2>4, <2>8, <2>9 DEF Continued
<1>6. ASSUME Continued(s, mode) PROVE Following(W, s) \cup A # {}
  <2>1. PICK j \in 1 .. Len(commands) :
          /\ IsStrictPrefix(s, commands[j].command)
          /\ j \in Shown(mode) \/ SP \in ToSet(Label(s, commands[j].command))
    BY <1>6 DEF Continued
  <2>2. PICK c \in Text : c = commands[j].command
    BY <1>3
  <2>3. /\ c \in DOMAIN root /\ IsPrefix(s, c) /\ s # c /\ c \in Below(root, s)
        /\ Len(c) \in Nat /\ Len(s) <= Len(c)
        /\ j \in Shown(mode) \/ SP \in ToSet(Label(s, c))
    <3>1. c \in DOMAIN root /\ IsPrefix(s, c) /\ s # c
      BY <1>3, <2>1, <2>2 DEF IsStrictPrefix
    <3>2. Len(c) \in Nat
      BY DEF Text
    <3>3. Len(s) <= Len(c)
      BY <3>1 DEF IsPrefix
    <3>4. QED
      BY <2>1, <2>2, <3>1, <3>2, <3>3 DEF Below
  <2>4. Len(s) < Len(c)
    BY <1>1, <2>3, BelowIs
  <2>5. CASE \E q \in Len(s) + 1 .. Len(c) : c[q] = SP
    <3> DEFINE Q == {q \in Len(s) + 1 .. Len(c) : c[q] = SP}
    <3>1. Q \in SUBSET Nat /\ Q # {}
      BY <1>1, <2>3, <2>5
    <3>2. PICK q \in Q : \A y \in Q : q <= y
      <4> HIDE DEF Q
      <4>1. QED
        BY <3>1, LeastNumber, Zenon
    <3>3. /\ q \in Nat /\ q \in Len(s) + 1 .. Len(c) /\ c[q] = SP /\ q \in 0 .. Len(c)
          /\ \A n \in Len(s) + 1 .. q - 1 : c[n] # SP
      BY <1>1, <2>3, <3>2
    <3> DEFINE x == SubSeq(c, 1, q)
    <3>4. x \in Text /\ Len(x) = q /\ (\A n \in 1 .. q : x[n] = c[n]) /\ x \in Prefixes(c)
      BY <3>3, CutIs
    <3>5. x \in DOMAIN root
      BY <1>1, <2>3, <3>4 DEF IsTrie
    <3> HIDE DEF x
    <3>6. IsPrefix(s, x)
      <4>1. \A n \in 1 .. Len(s) : s[n] = c[n]
        BY <1>1, <2>3, PrefixIs
      <4>2. Len(s) <= Len(x) /\ \A n \in 1 .. Len(s) : s[n] = x[n]
        BY <1>1, <3>3, <3>4, <4>1
      <4>3. QED
        BY <1>1, <3>4, <4>2, PrefixIs
    <3>7. x \in Below(root, s) /\ Len(s) < Len(x) /\ x[Len(x)] = SP
      BY <1>1, <3>3, <3>4, <3>5, <3>6 DEF Below
    <3>8. Spaceless(x, Len(s) + 1, Len(x) - 1)
      BY <1>1, <3>3, <3>4 DEF Spaceless
    <3>9. x \in A
      BY <1>1, <3>7, <3>8, WordEndsAre
    <3>10. QED
      BY <3>9
  <2>6. CASE \A q \in Len(s) + 1 .. Len(c) : c[q] # SP
    <3>1. SP \notin ToSet(Label(s, c))
      <4>1. SUFFICES ASSUME SP \in ToSet(Label(s, c)) PROVE FALSE
        OBVIOUS
      <4>2. Label(s, c) \in Text
        BY <1>1, <2>3 DEF Label, Text
      <4>3. PICK m \in 1 .. Len(Label(s, c)) : Label(s, c)[m] = SP
        BY <4>1, <4>2 DEF ToSet, Text
      <4>4. m \in 1 .. Len(c) - Len(s) /\ Label(s, c)[m] = c[Len(s) + m]
        BY <1>1, <2>3, <4>3, LabelIs
      <4>5. Len(s) + m \in Len(s) + 1 .. Len(c)
        BY <1>1, <2>3, <4>4
      <4>6. QED
        BY <2>6, <4>3, <4>4, <4>5
    <3>2. SeenAt(c, mode)
      BY <2>2, <2>3, <3>1 DEF SeenAt
    <3>3. VisibleCommand(root, c, mode)
      BY <2>3, <3>2, SeenIs
    <3>4. c \in W
      BY <1>1, <2>3, <2>6, <3>3, WordCommandsAre DEF Spaceless
    <3>5. Precedes(s, c)
      BY <1>1, <2>3, <2>4, PrefixOfSelf, EdgesOrder
    <3>6. s # NoNode
      BY <1>1, NoNodeIsNoText
    <3>7. c \in Following(W, s)
      BY <1>2, <3>4, <3>5, <3>6 DEF Following
    <3>8. QED
      BY <3>7
  <2>7. QED
    BY <2>5, <2>6
<1>7. QED
  BY <1>4, <1>5, <1>6

(***************************************************************************)
(* For every table whose names are words that can be typed, and every      *)
(* visible() that sees a command if and only if it sees one of its         *)
(* entries: a command that can be seen runs when its name is typed in      *)
(* full, without arguments, exactly if no other command shadows it.        *)
(***************************************************************************)
THEOREM FullNameIsEnough ==
  ASSUME NamesAreWords, NamesCanBeTyped, VisibleByParts, VisibleTogether
  PROVE  Spec => []FullNameRuns
<1>1. ASSUME BuiltInv PROVE FullNameRuns
  <2> DEFINE Runs(mode, name) == LET parsed == ParseCommand(root, mode, name) IN
               parsed.ok /\ parsed.t = name /\ parsed.args = 0
  <2>1. SUFFICES ASSUME Built, NEW mode \in Modes, NEW k \in Shown(mode)
                 PROVE  Runs(mode, commands[k].command) <=> ~Shadowed(k, mode)
    BY DEF FullNameRuns
  <2>2. /\ IsTrie(root) /\ Agrees(root) /\ IsWordTrie(root) /\ <<>> \in DOMAIN root
        /\ k \in 1 .. Len(commands)
    BY <1>1, <2>1, BuiltIsTrie, BuiltIsWordTrie DEF Shown
  <2>3. PICK s \in DOMAIN root : s = commands[k].command
    BY <2>2 DEF Agrees
  <2>4. IsWords(s) /\ VisibleCommand(root, s, mode)
    <3>1. SeenAt(s, mode)
      BY <2>1, <2>3 DEF SeenAt
    <3>2. QED
      BY <1>1, <2>1, <2>2, <2>3, <3>1, NameIsWords, SeenIs
  <2>5. s \in Text /\ s # <<>> /\ s # NoNode /\ NoNode \notin DOMAIN root
    BY <2>2, <2>4, NoNodeIsNoText DEF IsTrie, IsWords
  <2> DEFINE toks == Tokens(s)
             at == ParseLoop(root, mode, toks)
             stops == Stops(root, mode, s, toks, Len(toks) - 1)
             more == Following(WordCommands(root, s, mode), s) \cup WordEnds(root, s)
  <2>6. WordsFrom(toks, s, 1)
    <3>1. 1 \in 1 .. Len(s) /\ s[1] # SP
      BY <2>4, <2>5 DEF IsWords, Text
    <3>2. QED
      BY <2>4, <3>1, WordsAreLexed DEF Tokens
  <2>7. Len(toks) \in Nat
    BY <2>6 DEF WordsFrom
  <2> HIDE DEF toks
  <2>8. NameParsed(root, mode, s, toks, at)
    BY <2>2, <2>4, <2>6, PathIsParsed
  <2>9. TrieRun(root, s, mode) = IF more = {} THEN s ELSE NoNode
    BY <2>2, <2>4, RunWhenVisible
  <2> HIDE DEF at, stops, more
  <2>10. at.t = (IF stops \/ more # {} THEN NoNode ELSE s) /\ (at.t = s => at.used = Len(toks))
    BY <2>5, <2>8, <2>9 DEF NameParsed, stops
  <2>11. Runs(mode, s) <=> Runnable(root, mode, at.t) /\ at.t = s /\ Len(toks) - at.used = 0
    BY DEF ParseCommand, at, toks
  <2>12. Runnable(root, mode, s)
    BY <2>4, <2>5 DEF Runnable
  <2>13. Runs(mode, s) <=> ~(stops \/ more # {})
    <3> HIDE DEF Runs
    <3>1. QED
      BY <2>5, <2>7, <2>10, <2>11, <2>12
  <2>14. stops <=> \E j \in Shown(mode) : IsPrefix(commands[j].command \o <<SP>>, s)
    BY <1>1, <2>1, <2>4, <2>6, StopsAre DEF stops
  <2>15. more # {} <=> Continued(s, mode)
    BY <1>1, <2>1, <2>4, ContinuedIs DEF more
  <2>16. Shadowed(k, mode) <=> stops \/ more # {}
    BY <2>3, <2>14, <2>15 DEF Shadowed, Continued
  <2>17. QED
    BY <2>3, <2>13, <2>16
<1>2. QED
  BY <1>1, BuiltInvariant, PTL

-----------------------------------------------------------------------------
\* The application passes cl_visible() for tree->visible.
VisibleIsByMask == \A mode, modes : visible(mode, modes) = ClVisible(mode, modes)

\* No command is given once with modes 0 and once with a mask.
ModesNotMixed ==
  \A table \in Tables : \A k \in 1 .. Len(table) : \A j \in Same(table, k) :
    table[k].modes = {} => table[j].modes = {}

\* Of a mask that is put together from those of the entries of a command,
\* cl_visible() says what one of the entries says.
LEMMA MaskIsByParts ==
  ASSUME VisibleIsByMask
  PROVE  VisibleByParts
<1>1. SUFFICES ASSUME NEW table \in Tables, NEW mode \in Modes, NEW k \in 1 .. Len(table),
                      VisibleMerged(table, k, mode)
               PROVE  \E j \in Same(table, k) : visible(mode, table[j].modes)
  BY DEF VisibleByParts
<1> DEFINE all == UNION {table[j].modes : j \in Same(table, k)}
<1>2. ClVisible(mode, all) /\ k \in Same(table, k)
  BY <1>1 DEF VisibleIsByMask, VisibleMerged, Same
<1>3. CASE mode = {}
  <2>1. all = {}
    BY <1>2, <1>3 DEF ClVisible
  <2>2. table[k].modes = {}
    BY <1>2, <2>1
  <2>3. ClVisible(mode, table[k].modes)
    BY <1>3, <2>2 DEF ClVisible
  <2>4. QED
    BY <1>2, <2>3 DEF VisibleIsByMask
<1>4. CASE mode # {}
  <2>1. PICK x \in all : x \in mode
    BY <1>2, <1>4 DEF ClVisible
  <2>2. PICK j \in Same(table, k) : x \in table[j].modes
    BY <2>1
  <2>3. ClVisible(mode, table[j].modes)
    BY <1>4, <2>1, <2>2 DEF ClVisible
  <2>4. QED
    BY <2>2, <2>3 DEF VisibleIsByMask
<1>5. QED
  BY <1>3, <1>4

\* And what each says, unless modes 0 and masks are mixed.
LEMMA MaskIsTogether ==
  ASSUME VisibleIsByMask, ModesNotMixed
  PROVE  VisibleTogether
<1>1. SUFFICES ASSUME NEW table \in Tables, NEW mode \in Modes, NEW k \in 1 .. Len(table),
                      visible(mode, table[k].modes)
               PROVE  VisibleMerged(table, k, mode)
  BY DEF VisibleTogether
<1> DEFINE all == UNION {table[j].modes : j \in Same(table, k)}
<1>2. ClVisible(mode, table[k].modes) /\ k \in Same(table, k)
  BY <1>1 DEF VisibleIsByMask, Same
<1>3. CASE mode = {}
  <2>1. table[k].modes = {}
    BY <1>2, <1>3 DEF ClVisible
  <2>2. ASSUME NEW j \in Same(table, k) PROVE table[j].modes = {}
    BY <2>1 DEF ModesNotMixed
  <2>3. all = {}
    BY <2>2
  <2>4. ClVisible(mode, all)
    BY <1>3, <2>3 DEF ClVisible
  <2>5. QED
    BY <2>4 DEF VisibleIsByMask, VisibleMerged
<1>4. CASE mode # {}
  <2>1. PICK x \in table[k].modes : x \in mode
    BY <1>2, <1>4 DEF ClVisible
  <2>2. x \in all
    BY <1>2, <2>1
  <2>3. ClVisible(mode, all)
    BY <1>4, <2>1, <2>2 DEF ClVisible
  <2>4. QED
    BY <2>3 DEF VisibleIsByMask, VisibleMerged
<1>5. QED
  BY <1>3, <1>4

(***************************************************************************)
(* The two theorems above for an application that passes cl_visible():     *)
(* what is left to ask of a table is that its names are words, and for     *)
(* names in full, that they can be typed and that no command has an entry  *)
(* with modes 0 and one with a mask.                                       *)
(***************************************************************************)
THEOREM TreeOfMasksIsRight ==
  ASSUME VisibleIsByMask, NamesAreWords
  PROVE  /\ Spec => []HelpListsWhatRuns
         /\ NamesCanBeTyped /\ ModesNotMixed => (Spec => []FullNameRuns)
<1>1. VisibleByParts
  BY MaskIsByParts
<1>2. Spec => []HelpListsWhatRuns
  BY <1>1, HelpIsForWhatRuns
<1>3. ASSUME NamesCanBeTyped, ModesNotMixed PROVE Spec => []FullNameRuns
  BY <1>1, <1>3, MaskIsTogether, FullNameIsEnough
<1>4. QED
  BY <1>2, <1>3
=============================================================================

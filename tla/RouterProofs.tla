------------------------------ MODULE RouterProofs -----------------------------
(***************************************************************************)
(* Proofs about the command server, for any number of clients and          *)
(* descriptors, and every failure.                                         *)
(***************************************************************************)
EXTENDS Router, TLAPS, SequenceTheorems

Links == {"none", "queued", "open", "eof", "reset", "closed"}

\* Where in the list the peer of connection c is found.
FoundAt(c, k) ==
  /\ k \in DOMAIN peers /\ peers[k] = c
  /\ \A j \in 1 .. k - 1 : fd[peers[j]] # fd[c]

\* Descriptors and the list: no two open connections share a descriptor, and
\* whatever comes before an open one in the list has another.
LoopInv ==
  /\ link \in [Conns -> Links]
  /\ pending \in [Conns -> BOOLEAN]
  /\ fd \in [Conns -> Fds \cup {NoFd}]
  /\ peers \in Seq(Conns)
  /\ \A c, d \in Open : fd[c] = fd[d] => c = d
  /\ \A c \in Open : fd[c] \in Fds
  /\ \A c \in Open : \E k \in Nat : FoundAt(c, k)
  /\ master = {Listener} \cup {fd[c] : c \in Open}

Node(i, v) == [id |-> i, value |-> v]

\* What is asked, what the client was shown, and what it has proved, while the
\* fields of login or of enable are asked for.
LoginInv(c) ==
  \/ /\ dialogue[c].left = <<"username", "password">>
     /\ \/ dialogue[c].values = <<>>
        \/ dialogue[c].values = <<Node("username", "")>> /\ prompt[c] = "username"
  \/ /\ dialogue[c].left = <<"password">>
     /\ \E user \in Texts :
          \/ dialogue[c].values = <<Node("username", user)>>
          \/ /\ dialogue[c].values = <<Node("password", ""), Node("username", user)>>
             /\ prompt[c] = "password"
             /\ user = USERNAME => "username" \in proved[c]

EnableInv(c) ==
  /\ dialogue[c].left = <<"password">>
  /\ \/ dialogue[c].values = <<>>
     \/ dialogue[c].values = <<Node("password", "")>> /\ prompt[c] = "password"

\* The dialogue of one peer with the client it belongs to.
TalkInv(c) ==
  /\ \/ dialogue[c] = Idle
     \/ /\ mode[c] = "connected" /\ dialogue[c].cmd = "login"
        /\ LoginInv(c)
     \/ /\ mode[c] = "disabled" /\ dialogue[c].cmd = "enable"
        /\ EnableInv(c)
  /\ dialogue[c] = Idle \/ term[c] = "up"
  /\ mode[c] \in Modes \cup {"none"}
  /\ c \in Open => mode[c] \in Modes
  /\ link[c] \in {"none", "queued"} => dialogue[c] = Idle /\ mode[c] = "none"

PeersInv ==
  /\ mode \in [Conns -> Modes \cup {"none"}]
  /\ DOMAIN dialogue = Conns /\ DOMAIN term = Conns
  /\ prompt \in [Conns -> {"none", "command", "username", "password"}]
  /\ proved \in [Conns -> SUBSET {"username", "password"}]
  /\ \A c \in Conns : TalkInv(c)
  /\ status # "assert"

RouterInv == LoopInv /\ PeersInv

-----------------------------------------------------------------------------
\* What the list gives for an open connection's descriptor.
LEMMA FindsOwn ==
  ASSUME LoopInv, NEW c \in Open
  PROVE  findpeer(fd[c]) = {c}
<1>1. PICK k \in Nat : FoundAt(c, k)
  BY DEF LoopInv
<1> DEFINE At == {j \in DOMAIN peers :
                    fd[peers[j]] = fd[c] /\ \A l \in 1 .. j - 1 : fd[peers[l]] # fd[c]}
<1>2. k \in At
  BY <1>1 DEF FoundAt
<1>3. ASSUME NEW j \in At PROVE j = k
  <2>1. DOMAIN peers = 1 .. Len(peers) /\ Len(peers) \in Nat
    BY DEF LoopInv
  <2>2. j \in Nat /\ k \in Nat /\ j >= 1 /\ k >= 1
    BY <2>1, <1>2
  <2>3. ~ (j < k)
    BY <1>1, <1>3, <2>2 DEF FoundAt
  <2>4. ~ (k < j)
    BY <1>2, <1>3, <2>2
  <2>5. QED
    BY <2>2, <2>3, <2>4
<1>4. At = {k}
  BY <1>2, <1>3
<1>5. findpeer(fd[c]) = {peers[j] : j \in At}
  BY DEF findpeer
<1>6. QED
  BY <1>1, <1>4, <1>5 DEF FoundAt

\* The invariant says what the property does.
LEMMA LoopImpliesFound ==
  ASSUME LoopInv
  PROVE  PeersAreFound
BY FindsOwn DEF LoopInv, PeersAreFound

-----------------------------------------------------------------------------
\* What cl_get_field() finds in a list of one node and of two.
LEMMA FieldOfOne ==
  ASSUME NEW i, NEW v
  PROVE  /\ GetField(<<Node(i, v)>>, i) = v
         /\ \A j : j # i => GetField(<<Node(i, v)>>, j) = ""
<1> DEFINE list == <<Node(i, v)>>
<1>1. DOMAIN list = {1} /\ list[1].id = i /\ list[1].value = v
  BY DEF Node
<1> HIDE DEF list
<1>2. {k \in DOMAIN list : list[k].id = i} = {1}
  BY <1>1
<1>3. (CHOOSE k \in {1} : \A j \in {1} : k <= j) = 1
  OBVIOUS
<1>4. GetField(list, i) = v
  BY <1>1, <1>2, <1>3 DEF GetField
<1>5. ASSUME NEW j, j # i PROVE GetField(list, j) = ""
  <2>1. {k \in DOMAIN list : list[k].id = j} = {}
    BY <1>1, <1>5
  <2>2. QED
    BY <2>1 DEF GetField
<1>6. QED
  BY <1>4, <1>5 DEF list

LEMMA FieldOfTwo ==
  ASSUME NEW i, NEW j, i # j, NEW v, NEW w
  PROVE  /\ GetField(<<Node(i, v), Node(j, w)>>, i) = v
         /\ GetField(<<Node(i, v), Node(j, w)>>, j) = w
<1> DEFINE list == <<Node(i, v), Node(j, w)>>
<1>1. /\ DOMAIN list = {1, 2} /\ list[1].id = i /\ list[1].value = v
      /\ list[2].id = j /\ list[2].value = w
  BY DEF Node
<1> HIDE DEF list
<1>2. {k \in DOMAIN list : list[k].id = i} = {1} /\ {k \in DOMAIN list : list[k].id = j} = {2}
  BY <1>1
<1>3. /\ (CHOOSE k \in {1} : \A l \in {1} : k <= l) = 1
      /\ (CHOOSE k \in {2} : \A l \in {2} : k <= l) = 2
  OBVIOUS
<1>4. GetField(list, i) = list[1].value
  BY <1>1, <1>2, <1>3 DEF GetField
<1>5. GetField(list, j) = list[2].value
  BY <1>1, <1>2, <1>3 DEF GetField
<1>6. QED
  BY <1>1, <1>4, <1>5 DEF list

-----------------------------------------------------------------------------
LEMMA LoopInit ==
  Init => LoopInv
BY DEF Init, LoopInv, Links, Open

\* accept() and addpeer(): the new peer has a descriptor that was free, and
\* comes first in the list.
LEMMA AcceptKeepsLoop ==
  ASSUME LoopInv, AcceptPeer
  PROVE  LoopInv'
<1>1. PICK c \in {d \in Conns : link[d] = "queued"} :
        \/ /\ \E i \in Fds : /\ IsLowest(i, FreeFds)
                             /\ fd' = [fd EXCEPT ![c] = i]
                             /\ master' = master \cup {i}
           /\ peers' = <<c>> \o peers
           /\ link' = [link EXCEPT ![c] = "open"]
        \/ UNCHANGED <<link, fd, master, peers>>
  BY DEF AcceptPeer, addpeer, IsLowest
<1>2. pending' = pending
  BY DEF AcceptPeer
<1>3. CASE UNCHANGED <<link, fd, master, peers>>
  BY <1>2, <1>3 DEF LoopInv, Open, FoundAt
<1>4. CASE /\ \E i \in Fds : /\ IsLowest(i, FreeFds)
                             /\ fd' = [fd EXCEPT ![c] = i]
                             /\ master' = master \cup {i}
           /\ peers' = <<c>> \o peers
           /\ link' = [link EXCEPT ![c] = "open"]
  <2>1. PICK i \in Fds : /\ IsLowest(i, FreeFds)
                         /\ fd' = [fd EXCEPT ![c] = i]
                         /\ master' = master \cup {i}
    BY <1>4
  <2>2. \A d \in Open : fd[d] # i
    BY <2>1 DEF IsLowest, FreeFds
  <2>3. /\ c \in Conns /\ link[c] = "queued" /\ c \notin Open
        /\ Open' = Open \cup {c}
        /\ link' \in [Conns -> Links]
    BY <1>4 DEF LoopInv, Open, Links
  <2>4. /\ fd' \in [Conns -> Fds \cup {NoFd}]
        /\ fd'[c] = i /\ \A d \in Conns : d # c => fd'[d] = fd[d]
    BY <2>1, <2>3 DEF LoopInv
  <2>5. /\ peers' \in Seq(Conns) /\ DOMAIN peers = 1 .. Len(peers) /\ Len(peers) \in Nat
        /\ DOMAIN peers' = 1 .. Len(peers) + 1
        /\ peers'[1] = c
        /\ \A k \in 1 .. Len(peers) : peers[k] \in Conns /\ peers'[k + 1] = peers[k]
    BY <1>4, <2>3 DEF LoopInv
  <2>6. \A d, e \in Open' : fd'[d] = fd'[e] => d = e
    BY <2>2, <2>3, <2>4 DEF LoopInv, Open
  <2>7. \A d \in Open' : fd'[d] \in Fds
    BY <2>3, <2>4 DEF LoopInv, Open
  <2>8. \A d \in Open' : \E k \in Nat : FoundAt(d, k)'
    <3>1. FoundAt(c, 1)'
      BY <2>5 DEF FoundAt
    <3>2. ASSUME NEW d \in Open PROVE \E k \in Nat : FoundAt(d, k)'
      <4>1. PICK k \in Nat : FoundAt(d, k)
        BY DEF LoopInv
      <4>2. k \in 1 .. Len(peers) /\ peers'[k + 1] = d /\ k + 1 \in DOMAIN peers'
        BY <4>1, <2>5 DEF FoundAt
      <4>3. d # c /\ d \in Conns /\ fd'[d] = fd[d] /\ fd[d] # i
        BY <2>2, <2>3, <2>4 DEF Open
      <4>4. ASSUME NEW j \in 1 .. k PROVE fd'[peers'[j]] # fd'[d]
        <5>1. CASE j = 1
          BY <5>1, <2>4, <2>5, <4>3
        <5>2. CASE j # 1
          <6>1. j - 1 \in 1 .. k - 1 /\ j - 1 \in 1 .. Len(peers) /\ (j - 1) + 1 = j
            BY <5>2, <4>2
          <6>2. peers'[j] = peers[j - 1] /\ peers[j - 1] \in Conns
            BY <6>1, <2>5
          <6>3. fd[peers[j - 1]] # fd[d]
            BY <6>1, <4>1 DEF FoundAt
          <6>4. QED
            BY <6>2, <6>3, <2>4, <4>3
        <5>3. QED
          BY <5>1, <5>2
      <4>5. FoundAt(d, k + 1)'
        BY <4>2, <4>4 DEF FoundAt
      <4>6. QED
        BY <4>5
    <3>3. QED
      BY <2>3, <3>1, <3>2
  <2>9. master' = {Listener} \cup {fd'[d] : d \in Open'}
    <3>1. {fd'[d] : d \in Open'} = {fd[d] : d \in Open} \cup {i}
      BY <2>3, <2>4 DEF Open
    <3>2. QED
      BY <2>1, <3>1 DEF LoopInv
  <2>10. QED
    BY <1>2, <2>3, <2>4, <2>5, <2>6, <2>7, <2>8, <2>9 DEF LoopInv
<1>5. QED
  BY <1>1, <1>3, <1>4

\* read() fails: the descriptor is taken out of what select() watches, and no
\* other connection had it.
LEMMA ResetKeepsLoop ==
  ASSUME LoopInv, NEW c \in Open, ReadFails(c)
  PROVE  LoopInv'
<1>1. /\ link' = [link EXCEPT ![c] = "closed"] /\ c \in Conns
      /\ UNCHANGED <<pending, peers, fd>>
      /\ master' = master \ {fd[c]}
  BY DEF ReadFails, Open
<1>2. Open' = Open \ {c} /\ link' \in [Conns -> Links]
  BY <1>1 DEF LoopInv, Open, Links
<1>3. \A d, k : FoundAt(d, k)' <=> FoundAt(d, k)
  BY <1>1 DEF FoundAt
<1>4. master' = {Listener} \cup {fd'[d] : d \in Open'}
  <2>1. fd[c] # Listener
    BY FdsAreNat DEF LoopInv
  <2>2. \A d \in Open : d # c => fd[d] # fd[c]
    BY DEF LoopInv
  <2>3. {fd[d] : d \in Open'} = {fd[d] : d \in Open} \ {fd[c]}
    BY <1>2, <2>2
  <2>4. {fd'[d] : d \in Open'} = {fd[d] : d \in Open} \ {fd[c]}
    BY <1>1, <2>3
  <2> DEFINE old == {fd[d] : d \in Open}
  <2>5. master = {Listener} \cup old
    BY DEF LoopInv
  <2>6. {Listener} \cup {fd'[d] : d \in Open'} = {Listener} \cup (old \ {fd[c]})
    BY <2>4
  <2>7. master' = ({Listener} \cup old) \ {fd[c]}
    BY <1>1, <2>5
  <2> HIDE DEF old
  <2>8. QED
    BY <2>1, <2>6, <2>7
<1>5. QED
  BY <1>1, <1>2, <1>3, <1>4 DEF LoopInv

\* A connection that is not opened nor closed stays as it is found.
LEMMA LinksKeepLoop ==
  ASSUME LoopInv, link' \in [Conns -> Links], pending' \in [Conns -> BOOLEAN],
         Open' = Open, UNCHANGED loopVars
  PROVE  LoopInv'
<1>1. \A d, k : FoundAt(d, k)' <=> FoundAt(d, k)
  BY DEF FoundAt, loopVars
<1>2. QED
  BY <1>1 DEF LoopInv, loopVars

LEMMA LoopStep ==
  ASSUME LoopInv, [Next]_vars
  PROVE  LoopInv'
<1>1. CASE Select
  BY <1>1, LinksKeepLoop DEF Select, netVars, Open, LoopInv
<1>2. CASE AcceptPeer
  BY <1>2, AcceptKeepsLoop
<1>3. CASE Scan
  <2>1. PICK c \in Open : ReadFails(c) \/ ReadEof(c) \/ ReadFirst(c) \/ ReadLine(c)
    BY <1>3 DEF Scan
  <2>2. CASE ReadFails(c)
    BY <2>2, ResetKeepsLoop
  <2>3. CASE ReadEof(c)
    BY <2>3, LinksKeepLoop DEF ReadEof, netVars, Open, LoopInv
  <2>4. CASE ReadLine(c)
    <3>1. link' = link /\ UNCHANGED loopVars /\ pending' = [pending EXCEPT ![c] = FALSE]
      BY <2>4 DEF ReadLine
    <3>2. QED
      BY <3>1, LinksKeepLoop DEF Open, LoopInv
  <2>5. CASE ReadFirst(c)
    <3>1. /\ link' = link /\ UNCHANGED loopVars
          /\ pending' \in {pending, [pending EXCEPT ![c] = FALSE]}
      BY <2>5 DEF ReadFirst
    <3>2. pending' \in [Conns -> BOOLEAN]
      BY <3>1 DEF LoopInv
    <3>3. QED
      BY <3>1, <3>2, LinksKeepLoop DEF Open, LoopInv
  <2>6. QED
    BY <2>1, <2>2, <2>3, <2>4, <2>5
<1>4. CASE \E c \in Conns : Client(c)
  <2>1. PICK c \in Conns : Client(c)
    BY <1>4
  <2>2. UNCHANGED loopVars /\ Open' = Open
        /\ link' \in [Conns -> Links] /\ pending' \in [Conns -> BOOLEAN]
    BY <2>1 DEF Client, LoopInv, Links, Open
  <2>3. QED
    BY <2>2, LinksKeepLoop
<1>5. CASE WriteFails
  BY <1>5, LinksKeepLoop DEF WriteFails, Open, LoopInv
<1>6. CASE UNCHANGED vars
  BY <1>6, LinksKeepLoop DEF vars, netVars, Open, LoopInv
<1>7. QED
  BY <1>1, <1>2, <1>3, <1>4, <1>5, <1>6 DEF Next, Server

-----------------------------------------------------------------------------
LEMMA PeersInit ==
  Init => PeersInv
BY DEF Init, PeersInv, TalkInv, Open

\* A peer that is not given a line.
LEMMA TalkKept ==
  ASSUME NEW c \in Conns, TalkInv(c),
         dialogue'[c] = dialogue[c], mode'[c] = mode[c], term'[c] = term[c],
         prompt'[c] = prompt[c], proved'[c] = proved[c],
         c \in Open' => c \in Open,
         link'[c] \in {"none", "queued"} => link[c] \in {"none", "queued"}
  PROVE  TalkInv(c)'
BY DEF TalkInv, LoginInv, EnableInv

\* What the answers in a list are good for.
Entitles(list, m) ==
  /\ m = "connected" => /\ GetField(list, "username") = USERNAME
                        /\ GetField(list, "password") = PASSWORD
  /\ m = "disabled" => GetField(list, "password") = PASSWORD

\* A callback in a mode in which its command is visible.
LEMMA CallBackStep ==
  ASSUME NEW c \in Conns, NEW k \in Visible(mode[c]), NEW argc, NEW list,
         mode \in [Conns -> Modes \cup {"none"}], mode[c] \in Modes,
         status # "assert", CallBack(c, k, argc, list)
  PROVE  /\ status' # "assert"
         /\ \/ mode' = mode
            \/ \E m \in Modes :
                 /\ mode' = [mode EXCEPT ![c] = m]
                 /\ Level(m) > Level(mode[c]) =>
                      Level(m) = Level(mode[c]) + 1 /\ Entitles(list, mode[c])
<1>1. mode[c] \in AssertedModes(k)
  BY ObjectsAreKnown DEF Visible, AssertedModes, Modes
<1>2. \/ Prints
      \/ k = "login" /\ cmd_login(c, list)
      \/ k = "enable" /\ cmd_enable(c, list)
      \/ k = "configure_terminal" /\ SetMode(c, "configure")
      \/ k \in Objects /\ cmd_config(c, k)
      \/ k = "exit" /\ cmd_exit(c)
  BY <1>1 DEF CallBack
<1>3. CASE Prints
  BY <1>3 DEF Prints
<1>4. CASE k = "login" /\ cmd_login(c, list)
  <2>1. mode[c] = "connected"
    BY <1>1, <1>4, ObjectsAreKnown DEF AssertedModes
  <2>2. QED
    BY <1>4, <2>1, ObjectsAreKnown DEF cmd_login, Prints, SetMode, Entitles, Level, Modes
<1>5. CASE k = "enable" /\ cmd_enable(c, list)
  <2>1. mode[c] = "disabled"
    BY <1>1, <1>5, ObjectsAreKnown DEF AssertedModes
  <2>2. QED
    BY <1>5, <2>1, ObjectsAreKnown DEF cmd_enable, Prints, SetMode, Entitles, Level, Modes
<1>6. CASE k = "configure_terminal" /\ SetMode(c, "configure")
  <2>1. mode[c] = "enabled"
    BY <1>1, <1>6, ObjectsAreKnown DEF AssertedModes
  <2>2. Level("configure") = Level(mode[c]) + 1 /\ Entitles(list, mode[c])
    BY <2>1 DEF Entitles, Level
  <2>3. "configure" \in Modes /\ mode' = [mode EXCEPT ![c] = "configure"] /\ status' = status
    BY <1>6 DEF SetMode, Modes
  <2>4. QED
    BY <2>2, <2>3
<1>7. CASE k \in Objects /\ cmd_config(c, k)
  <2>1. mode[c] = "configure"
    BY <1>1, <1>7, ObjectsAreKnown DEF AssertedModes
  <2>2. QED
    BY <1>7, <2>1, ObjectsAreKnown DEF cmd_config, Prints, SetMode, Entitles, Level, Modes
<1>8. CASE k = "exit" /\ cmd_exit(c)
  BY <1>8, ObjectsAreKnown DEF cmd_exit, Prints, SetMode, Outer, Level, Modes
<1>9. QED
  BY <1>2, <1>3, <1>4, <1>5, <1>6, <1>7, <1>8

-----------------------------------------------------------------------------
\* Short lists.
LEMMA ListOfOne ==
  ASSUME NEW a
  PROVE  <<a>> \o <<>> = <<a>> /\ Head(<<a>>) = a /\ Tail(<<a>>) = <<>>
<1>1. <<a>> \in Seq({a}) /\ <<a>> # <<>> /\ Len(<<a>>) = 1
  OBVIOUS
<1>2. <<a>> \o <<>> = <<a>>
  BY <1>1, ConcatEmptySeq
<1>3. Tail(<<a>>) \in Seq({a}) /\ Len(Tail(<<a>>)) = 0
  BY <1>1, HeadTailProperties
<1>4. Tail(<<a>>) = <<>>
  BY <1>3, EmptySeq
<1>5. Head(<<a>>) = a
  OBVIOUS
<1>6. QED
  BY <1>2, <1>4, <1>5

LEMMA ListOfTwo ==
  ASSUME NEW a, NEW b
  PROVE  /\ <<a>> \o <<b>> = <<a, b>>
         /\ Head(<<a, b>>) = a /\ Tail(<<a, b>>) = <<b>>
<1> DEFINE S == {a, b}
<1>1. /\ <<a>> \in Seq(S) /\ <<b>> \in Seq(S) /\ <<a, b>> \in Seq(S) /\ <<a, b>> # <<>>
      /\ Len(<<a>>) = 1 /\ Len(<<b>>) = 1 /\ Len(<<a, b>>) = 2
      /\ <<a>>[1] = a /\ <<b>>[1] = b /\ <<a, b>>[1] = a /\ <<a, b>>[2] = b
  OBVIOUS
<1>2. <<a>> \o <<b>> = <<a, b>>
  <2>1. /\ <<a>> \o <<b>> \in Seq(S) /\ Len(<<a>> \o <<b>>) = 2
        /\ (<<a>> \o <<b>>)[1] = a /\ (<<a>> \o <<b>>)[2] = b
    BY <1>1, ConcatProperties
  <2>2. \A i \in 1 .. 2 : (<<a>> \o <<b>>)[i] = <<a, b>>[i]
    BY <1>1, <2>1
  <2> HIDE DEF S
  <2>3. QED
    BY <1>1, <2>1, <2>2, SeqEqual, Zenon
<1>3. Tail(<<a, b>>) = <<b>>
  <2>1. /\ Tail(<<a, b>>) \in Seq(S) /\ Len(Tail(<<a, b>>)) = 1
        /\ Tail(<<a, b>>)[1] = b
    BY <1>1, HeadTailProperties
  <2>2. QED
    BY <1>1, <2>1, SeqEqual
<1>4. Head(<<a, b>>) = a
  OBVIOUS
<1>5. QED
  BY <1>2, <1>3, <1>4

\* The answer is stored in the newest node.
Stored(list, text) == <<[id |-> Head(list).id, value |-> text]>> \o Tail(list)

LEMMA StoredInOne ==
  ASSUME NEW i, NEW v, NEW text
  PROVE  Stored(<<Node(i, v)>>, text) = <<Node(i, text)>>
<1> DEFINE a == Node(i, v)
           n == Node(i, text)
<1>1. a.id = i /\ n = [id |-> i, value |-> text]
  BY DEF Node
<1> HIDE DEF a, n
<1>2. Head(<<a>>) = a /\ Tail(<<a>>) = <<>> /\ <<n>> \o <<>> = <<n>>
  BY ListOfOne
<1>3. Stored(<<a>>, text) = <<n>> \o <<>>
  BY <1>1, <1>2 DEF Stored
<1>4. QED
  BY <1>2, <1>3 DEF a, n

LEMMA StoredInTwo ==
  ASSUME NEW i, NEW v, NEW b, NEW text
  PROVE  Stored(<<Node(i, v), b>>, text) = <<Node(i, text), b>>
<1> DEFINE a == Node(i, v)
           n == Node(i, text)
<1>1. a.id = i /\ n = [id |-> i, value |-> text]
  BY DEF Node
<1> HIDE DEF a, n
<1>2. Head(<<a, b>>) = a /\ Tail(<<a, b>>) = <<b>> /\ <<n>> \o <<b>> = <<n, b>>
  BY ListOfTwo
<1>3. Stored(<<a, b>>, text) = <<n>> \o <<b>>
  BY <1>1, <1>2 DEF Stored
<1>4. QED
  BY <1>2, <1>3 DEF a, n

\* What a line of client c may do to the peers.
LineOK(c) ==
  /\ status' # "assert"
  /\ \A d \in Conns : d # c =>
       /\ dialogue'[d] = dialogue[d] /\ mode'[d] = mode[d]
       /\ prompt'[d] = prompt[d] /\ proved'[d] = proved[d]
  /\ TalkInv(c)'
  /\ mode' \in [Conns -> Modes \cup {"none"}]
  /\ DOMAIN dialogue' = Conns
  /\ prompt' \in [Conns -> {"none", "command", "username", "password"}]
  /\ proved' \in [Conns -> SUBSET {"username", "password"}]
  /\ Level(mode'[c]) > Level(mode[c]) =>
       /\ Level(mode'[c]) = Level(mode[c]) + 1
       /\ Required(mode[c]) \subseteq proved'[c]

\* The history of answers, after any line.
ProvedStep(c) ==
  /\ proved' \in [Conns -> SUBSET {"username", "password"}]
  /\ \A d \in Conns : d # c => proved'[d] = proved[d]

\* A line that ends in a callback.
LEMMA ExecuteOK ==
  ASSUME PeersInv, NEW c \in Open, NEW k \in Visible(mode[c]), NEW argc, NEW list,
         link' = link, ProvedStep(c), Execute(c, c, k, argc, list),
         Entitles(list, mode[c]) => Required(mode[c]) \subseteq proved'[c]
  PROVE  LineOK(c)
<1>1. c \in Conns /\ mode[c] \in Modes /\ mode \in [Conns -> Modes \cup {"none"}]
  BY DEF PeersInv, TalkInv, Open
<1>2. /\ CallBack(c, k, argc, list)
      /\ dialogue' = [dialogue EXCEPT ![c] = Idle]
      /\ prompt' = [prompt EXCEPT ![c] = "command"]
  BY DEF Execute
<1>3. status # "assert"
  BY DEF PeersInv
<1>4. /\ status' # "assert"
      /\ \/ mode' = mode
         \/ \E m \in Modes :
              /\ mode' = [mode EXCEPT ![c] = m]
              /\ Level(m) > Level(mode[c]) =>
                   Level(m) = Level(mode[c]) + 1 /\ Entitles(list, mode[c])
  BY <1>1, <1>2, <1>3, CallBackStep
<1>5. /\ mode' \in [Conns -> Modes \cup {"none"}] /\ mode'[c] \in Modes
      /\ \A d \in Conns : d # c => mode'[d] = mode[d]
  BY <1>1, <1>4
<1>6. Level(mode'[c]) > Level(mode[c]) =>
        Level(mode'[c]) = Level(mode[c]) + 1 /\ Required(mode[c]) \subseteq proved'[c]
  <2>1. CASE mode' = mode
    <3>1. Level(mode[c]) \in Int
      BY DEF Level
    <3>2. QED
      BY <2>1, <3>1
  <2>2. CASE \E m \in Modes :
              /\ mode' = [mode EXCEPT ![c] = m]
              /\ Level(m) > Level(mode[c]) =>
                   Level(m) = Level(mode[c]) + 1 /\ Entitles(list, mode[c])
    <3>1. PICK m \in Modes :
              /\ mode' = [mode EXCEPT ![c] = m]
              /\ Level(m) > Level(mode[c]) =>
                   Level(m) = Level(mode[c]) + 1 /\ Entitles(list, mode[c])
      BY <2>2
    <3>2. mode'[c] = m
      BY <3>1, <1>1
    <3>3. QED
      BY <3>1, <3>2
  <2>3. QED
    BY <1>4, <2>1, <2>2
<1>7. /\ DOMAIN dialogue' = Conns /\ dialogue'[c] = Idle
      /\ \A d \in Conns : d # c => dialogue'[d] = dialogue[d] /\ prompt'[d] = prompt[d]
      /\ prompt' \in [Conns -> {"none", "command", "username", "password"}]
  BY <1>1, <1>2 DEF PeersInv
<1>8. TalkInv(c)'
  BY <1>1, <1>5, <1>7 DEF TalkInv, Open
<1>9. QED
  BY <1>4, <1>5, <1>6, <1>7, <1>8 DEF LineOK, ProvedStep

\* A line that ends in the next field's prompt, or in nothing.
LEMMA AskOK ==
  ASSUME PeersInv, NEW c \in Open, NEW k, NEW argc, NEW left, NEW list,
         link' = link, term' = term, term[c] = "up", ProvedStep(c), Ask(c, c, k, argc, left, list),
         Head(left) \in {"username", "password"},
         \/ /\ mode[c] = "connected" /\ k = "login"
            /\ \/ left = <<"username", "password">> /\ list = <<>>
               \/ /\ left = <<"password">>
                  /\ \E user \in Texts :
                       /\ list = <<Node("username", user)>>
                       /\ user = USERNAME => "username" \in proved'[c]
         \/ /\ mode[c] = "disabled" /\ k = "enable"
            /\ left = <<"password">> /\ list = <<>>
  PROVE  LineOK(c)
<1>1. c \in Conns /\ mode[c] \in Modes /\ mode \in [Conns -> Modes \cup {"none"}]
  BY DEF PeersInv, TalkInv, Open
<1>2. mode' = mode /\ status' = status
  BY DEF Ask, Prints
<1>3. PICK values :
        /\ dialogue' = [dialogue EXCEPT ![c] =
             [cmd |-> k, argc |-> argc, left |-> left, values |-> values]]
        /\ \/ /\ values = <<Node(Head(left), "")>> \o list
              /\ prompt' = [prompt EXCEPT ![c] = Head(left)]
           \/ values = list /\ prompt' = prompt
  BY DEF Ask, Node
<1>4. /\ DOMAIN dialogue' = Conns
      /\ dialogue'[c].cmd = k /\ dialogue'[c].left = left /\ dialogue'[c].values = values
      /\ \A d \in Conns : d # c => dialogue'[d] = dialogue[d]
  BY <1>1, <1>3 DEF PeersInv
<1>5. /\ prompt' \in [Conns -> {"none", "command", "username", "password"}]
      /\ \A d \in Conns : d # c => prompt'[d] = prompt[d]
      /\ \/ values = <<Node(Head(left), "")>> \o list /\ prompt'[c] = Head(left)
         \/ values = list
  BY <1>1, <1>3 DEF PeersInv
<1>6. \/ mode[c] = "connected" /\ k = "login" /\ LoginInv(c)'
      \/ mode[c] = "disabled" /\ k = "enable" /\ EnableInv(c)'
  <2>1. CASE mode[c] = "connected" /\ k = "login" /\ left = <<"username", "password">> /\ list = <<>>
    <3>1. \/ values = <<Node("username", "")>> /\ prompt'[c] = "username"
          \/ values = <<>>
      BY <1>5, <2>1, ListOfOne, ListOfTwo
    <3>2. QED
      BY <1>4, <2>1, <3>1 DEF LoginInv
  <2>2. ASSUME NEW user \in Texts, mode[c] = "connected", k = "login", left = <<"password">>,
               list = <<Node("username", user)>>, user = USERNAME => "username" \in proved'[c]
        PROVE  LoginInv(c)'
    <3>1. /\ Head(<<"password">>) = "password"
          /\ <<Node("password", "")>> \o <<Node("username", user)>>
               = <<Node("password", ""), Node("username", user)>>
      BY ListOfOne, ListOfTwo, Zenon
    <3>2. \/ /\ values = <<Node("password", ""), Node("username", user)>>
             /\ prompt'[c] = "password"
          \/ values = <<Node("username", user)>>
      BY <1>5, <2>2, <3>1, Zenon
    <3>3. QED
      BY <1>4, <2>2, <3>2 DEF LoginInv
  <2>3. CASE mode[c] = "disabled" /\ k = "enable" /\ left = <<"password">> /\ list = <<>>
    <3>1. \/ values = <<Node("password", "")>> /\ prompt'[c] = "password"
          \/ values = <<>>
      BY <1>5, <2>3, ListOfOne, ListOfTwo
    <3>2. QED
      BY <1>4, <2>3, <3>1 DEF EnableInv
  <2>4. QED
    BY <2>1, <2>2, <2>3
<1>7. TalkInv(c)'
  BY <1>1, <1>2, <1>4, <1>6 DEF TalkInv, Open
<1>8. ~ (Level(mode'[c]) > Level(mode[c]))
  <2>1. Level(mode[c]) \in Int
    BY DEF Level
  <2>2. mode'[c] = mode[c]
    BY <1>2
  <2>3. QED
    BY <2>1, <2>2
<1>9. /\ status' # "assert" /\ mode' \in [Conns -> Modes \cup {"none"}]
      /\ \A d \in Conns : mode'[d] = mode[d]
  BY <1>1, <1>2 DEF PeersInv
<1>10. QED
  BY <1>4, <1>5, <1>7, <1>8, <1>9 DEF LineOK, ProvedStep

LEMMA CommandLineOK ==
  ASSUME PeersInv, NEW c \in Open, link' = link, term' = term, term[c] = "up",
         CommandLine(c, c)
  PROVE  LineOK(c)
<1>1. c \in Conns /\ mode[c] \in Modes /\ mode \in [Conns -> Modes \cup {"none"}]
  BY DEF PeersInv, TalkInv, Open
<1>2. ProvedStep(c) /\ dialogue[c] = Idle
  BY <1>1 DEF CommandLine, ProvedStep, PeersInv
<1>3. CASE /\ UNCHANGED <<mode, status, dialogue>>
           /\ prompt' = [prompt EXCEPT ![c] = "command"] \/ prompt' = prompt
  <2>1. TalkInv(c)'
    BY <1>1, <1>2, <1>3 DEF PeersInv, TalkInv, Open
  <2>2. /\ prompt' \in [Conns -> {"none", "command", "username", "password"}]
        /\ \A d \in Conns : d # c => prompt'[d] = prompt[d]
    BY <1>1, <1>3 DEF PeersInv
  <2>3. ~ (Level(mode'[c]) > Level(mode[c]))
    <3>1. Level(mode[c]) \in Int /\ mode'[c] = mode[c]
      BY <1>3 DEF Level
    <3>2. QED
      BY <3>1
  <2>4. QED
    BY <1>2, <1>3, <2>1, <2>2, <2>3 DEF LineOK, ProvedStep, PeersInv
<1>4. ASSUME NEW k \in Visible(mode[c]), NEW argc \in {0, 1},
             FieldsOf(k) = <<>>, Execute(c, c, k, argc, <<>>)
      PROVE  LineOK(c)
  <2>1. GetField(<<>>, "password") # PASSWORD
    BY DEF GetField, PASSWORD
  <2>2. Entitles(<<>>, mode[c]) => Required(mode[c]) \subseteq proved'[c]
    BY <2>1 DEF Entitles, Required
  <2>3. QED
    BY <1>2, <1>4, <2>2, ExecuteOK
<1>5. ASSUME NEW k \in Visible(mode[c]), NEW argc \in {0, 1},
             FieldsOf(k) # <<>>, Ask(c, c, k, argc, FieldsOf(k), <<>>)
      PROVE  LineOK(c)
  <2>1. \/ mode[c] = "connected" /\ k = "login" /\ FieldsOf(k) = <<"username", "password">>
        \/ mode[c] = "disabled" /\ k = "enable" /\ FieldsOf(k) = <<"password">>
    BY <1>5, ObjectsAreKnown DEF FieldsOf, Visible
  <2>2. Head(FieldsOf(k)) \in {"username", "password"}
    BY <2>1, ListOfOne, ListOfTwo
  <2>3. QED
    BY <1>2, <1>5, <2>1, <2>2, AskOK
<1>6. QED
  BY <1>3, <1>4, <1>5 DEF CommandLine, Prints

LEMMA AnswerOK ==
  ASSUME PeersInv, NEW c \in Open, link' = link, term' = term, term[c] = "up",
         Answer(c, c)
  PROVE  LineOK(c)
<1>1. /\ c \in Conns /\ mode[c] \in Modes /\ mode \in [Conns -> Modes \cup {"none"}]
      /\ TalkInv(c) /\ dialogue[c] # Idle
  BY DEF PeersInv, TalkInv, Open, Answer
<1>2. PICK k, argc, left, values :
        /\ dialogue[c].cmd = k /\ dialogue[c].argc = argc
        /\ dialogue[c].left = left /\ dialogue[c].values = values
  OBVIOUS
<1>3. PICK text \in Texts :
        /\ \/ values = <<>> /\ status' = "undefined" /\ UNCHANGED <<mode, dialogue, prompt>>
           \/ /\ values # <<>> /\ Tail(left) = <<>>
              /\ Execute(c, c, k, argc, Stored(values, text))
           \/ /\ values # <<>> /\ Tail(left) # <<>>
              /\ Ask(c, c, k, argc, Tail(left), Stored(values, text))
        /\ proved' = [proved EXCEPT ![c] = IF text \in Right(prompt[c])
                                           THEN @ \cup {prompt[c]} ELSE @]
  BY <1>2 DEF Answer, Stored
<1>4. /\ ProvedStep(c) /\ proved[c] \subseteq proved'[c]
      /\ prompt[c] = "username" /\ text = USERNAME => "username" \in proved'[c]
      /\ prompt[c] = "password" /\ text = PASSWORD => "password" \in proved'[c]
  BY <1>1, <1>3 DEF PeersInv, ProvedStep, Right
<1>5. CASE values = <<>>
  <2>1. status' = "undefined" /\ UNCHANGED <<mode, dialogue, prompt>>
    BY <1>3, <1>5
  <2>2. TalkInv(c)'
    BY <1>1, <1>2, <1>4, <1>5, <2>1 DEF TalkInv, Open, LoginInv, EnableInv
  <2>3. ~ (Level(mode'[c]) > Level(mode[c]))
    <3>1. Level(mode[c]) \in Int /\ mode'[c] = mode[c]
      BY <2>1 DEF Level
    <3>2. QED
      BY <3>1
  <2>4. QED
    BY <1>4, <2>1, <2>2, <2>3 DEF LineOK, ProvedStep, PeersInv
<1>6. CASE /\ mode[c] = "connected" /\ k = "login" /\ left = <<"username", "password">>
           /\ values = <<Node("username", "")>> /\ prompt[c] = "username"
  <2>1. Stored(<<Node("username", "")>>, text) = <<Node("username", text)>>
    BY StoredInOne, Zenon
  <2>2. Tail(<<"username", "password">>) = <<"password">>
    BY ListOfTwo, Zenon
  <2>3. Head(<<"password">>) = "password"
    BY ListOfOne, Zenon
  <2>4. <<"password">> # <<>> /\ <<Node("username", "")>> # <<>>
    OBVIOUS
  <2>5. Ask(c, c, "login", argc, <<"password">>, <<Node("username", text)>>)
    BY <1>3, <1>6, <2>1, <2>4, <2>2, Zenon
  <2>6. text = USERNAME => "username" \in proved'[c]
    BY <1>4, <1>6
  <2>7. QED
    BY <1>4, <1>6, <2>3, <2>5, <2>6, AskOK
<1>7. ASSUME NEW user \in Texts, mode[c] = "connected", k = "login", left = <<"password">>,
             values = <<Node("username", user)>>
      PROVE  LineOK(c)
  <2>1. /\ Stored(<<Node("username", user)>>, text) = <<Node("username", text)>>
        /\ Tail(<<"password">>) = <<>>
    BY StoredInOne, ListOfOne, Zenon
  <2>2. <<Node("username", user)>> # <<>>
    OBVIOUS
  <2>3. Execute(c, c, "login", argc, <<Node("username", text)>>)
    BY <1>3, <1>7, <2>1, <2>2, Zenon
  <2>4. ~ Entitles(<<Node("username", text)>>, mode[c])
    BY <1>7, FieldOfOne DEF Entitles, PASSWORD
  <2>5. "login" \in Visible(mode[c])
    BY <1>7 DEF Visible
  <2>6. QED
    BY <1>4, <2>3, <2>4, <2>5, ExecuteOK
<1>8. ASSUME NEW user \in Texts, mode[c] = "connected", k = "login", left = <<"password">>,
             values = <<Node("password", ""), Node("username", user)>>,
             prompt[c] = "password", user = USERNAME => "username" \in proved[c]
      PROVE  LineOK(c)
  <2> DEFINE both == <<Node("password", text), Node("username", user)>>
  <2>1. Stored(<<Node("password", ""), Node("username", user)>>, text) = both
    BY StoredInTwo, Zenon
  <2>2. Tail(<<"password">>) = <<>>
    BY ListOfOne, Zenon
  <2>3. <<Node("password", ""), Node("username", user)>> # <<>>
    OBVIOUS
  <2>4. Execute(c, c, "login", argc, both)
    BY <1>3, <1>8, <2>1, <2>3, <2>2, Zenon
  <2>5. GetField(both, "username") = user /\ GetField(both, "password") = text
    BY FieldOfTwo
  <2>6. Entitles(both, mode[c]) => user = USERNAME /\ text = PASSWORD
    BY <1>8, <2>5 DEF Entitles
  <2>7. Entitles(both, mode[c]) => Required(mode[c]) \subseteq proved'[c]
    BY <1>4, <1>8, <2>6 DEF Required
  <2>8. "login" \in Visible(mode[c])
    BY <1>8 DEF Visible
  <2>9. QED
    BY <1>4, <2>4, <2>7, <2>8, ExecuteOK
<1>9. CASE /\ mode[c] = "disabled" /\ k = "enable" /\ left = <<"password">>
           /\ values = <<Node("password", "")>> /\ prompt[c] = "password"
  <2>1. /\ Stored(<<Node("password", "")>>, text) = <<Node("password", text)>>
        /\ Tail(<<"password">>) = <<>>
    BY StoredInOne, ListOfOne, Zenon
  <2>2. <<Node("password", "")>> # <<>>
    OBVIOUS
  <2>3. Execute(c, c, "enable", argc, <<Node("password", text)>>)
    BY <1>3, <1>9, <2>1, <2>2, Zenon
  <2>4. GetField(<<Node("password", text)>>, "password") = text
    BY FieldOfOne
  <2>5. Entitles(<<Node("password", text)>>, mode[c]) => Required(mode[c]) \subseteq proved'[c]
    BY <1>4, <1>9, <2>4 DEF Required, Entitles
  <2>6. "enable" \in Visible(mode[c])
    BY <1>9 DEF Visible
  <2>7. QED
    BY <1>4, <2>3, <2>5, <2>6, ExecuteOK
<1>10. QED
  BY <1>1, <1>2, <1>5, <1>6, <1>7, <1>8, <1>9 DEF TalkInv, LoginInv, EnableInv

-----------------------------------------------------------------------------
\* What PrivilegeIsEarned says of one peer.
Earned(c) ==
  Level(mode'[c]) > Level(mode[c]) =>
    /\ Level(mode'[c]) = Level(mode[c]) + 1
    /\ mode[c] # "none" => pending[c] /\ ~pending'[c]
    /\ Required(mode[c]) \subseteq proved'[c]

LEMMA EarnedKept ==
  ASSUME NEW c \in Conns, mode'[c] = mode[c]
  PROVE  Earned(c)
<1>1. Level(mode[c]) \in Int
  BY DEF Level
<1>2. QED
  BY <1>1 DEF Earned

\* Steps that leave what is said to the peers alone.
LEMMA NothingSaid ==
  ASSUME PeersInv, UNCHANGED <<term, mode, dialogue, prompt, proved>>, status' # "assert",
         Open' \subseteq Open,
         \A c \in Conns : link'[c] \in {"none", "queued"} => link[c] \in {"none", "queued"}
  PROVE  PeersInv' /\ \A c \in Conns : Earned(c)
<1>1. \A c \in Conns : TalkInv(c)'
  BY TalkKept DEF PeersInv
<1>2. \A c \in Conns : Earned(c)
  BY EarnedKept
<1>3. QED
  BY <1>1, <1>2 DEF PeersInv

\* A new connection's peer: nothing has been said to it.
LEMMA AcceptKeepsPeers ==
  ASSUME LoopInv, PeersInv, AcceptPeer
  PROVE  PeersInv' /\ \A c \in Conns : Earned(c)
<1>1. PICK c \in Conns :
        /\ link[c] = "queued"
        /\ \/ /\ SetMode(c, "connected")
              /\ link' = [link EXCEPT ![c] = "open"]
           \/ status' = "returned" /\ UNCHANGED <<link, mode>>
  BY DEF AcceptPeer, IsLowest
<1>2. UNCHANGED <<term, dialogue, prompt, proved>>
  BY DEF AcceptPeer, userVars
<1>3. CASE status' = "returned" /\ UNCHANGED <<link, mode>>
  BY <1>2, <1>3, NothingSaid DEF Open
<1>4. CASE /\ SetMode(c, "connected")
           /\ link' = [link EXCEPT ![c] = "open"]
  <2>1. dialogue[c] = Idle /\ mode[c] = "none"
    BY <1>1 DEF PeersInv, TalkInv
  <2>2. /\ mode' = [mode EXCEPT ![c] = "connected"] /\ mode'[c] = "connected"
        /\ link'[c] = "open" /\ status' # "assert"
        /\ \A d \in Conns : d # c =>
             mode'[d] = mode[d] /\ link'[d] = link[d]
    BY <1>4 DEF SetMode, PeersInv, LoopInv
  <2>3. TalkInv(c)'
    BY <1>2, <2>1, <2>2 DEF TalkInv, Modes
  <2>4. ASSUME NEW d \in Conns, d # c PROVE TalkInv(d)' /\ Earned(d)
    <3>1. TalkInv(d) /\ (d \in Open' => d \in Open)
      BY <2>2, <2>4 DEF PeersInv, Open
    <3>2. QED
      BY <1>2, <2>2, <2>4, <3>1, TalkKept, EarnedKept
  <2>5. Earned(c)
    BY <2>1, <2>2 DEF Earned, Level, Required
  <2>6. mode' \in [Conns -> Modes \cup {"none"}]
    BY <1>4, <2>2 DEF PeersInv, Modes
  <2>7. QED
    BY <1>2, <2>2, <2>3, <2>4, <2>5, <2>6 DEF PeersInv
<1>5. QED
  BY <1>1, <1>3, <1>4

\* The first input: the prompt that it ends in is that of a peer which has not
\* been given a command.
LEMMA FirstKeepsPeers ==
  ASSUME LoopInv, PeersInv, NEW c \in Open, ReadFirst(c)
  PROVE  PeersInv' /\ \A d \in Conns : Earned(d)
<1>1. /\ findpeer(fd[c]) = {c} /\ link' = link /\ Open' = Open /\ c \in Conns
      /\ UNCHANGED <<mode, dialogue, proved>>
  BY FindsOwn DEF ReadFirst, Open
<1>2. /\ term[c] = "none"
      /\ term' = [term EXCEPT ![c] = "up"] \/ term' = [term EXCEPT ![c] = "failed"]
      /\ prompt' = [prompt EXCEPT ![c] = "command"] \/ prompt' = prompt
      /\ status' = status \/ status' \in {"running", "aborted"}
  BY <1>1 DEF ReadFirst
<1>3. /\ \A d \in Conns : d # c => term'[d] = term[d] /\ prompt'[d] = prompt[d]
      /\ prompt' \in [Conns -> {"none", "command", "username", "password"}]
      /\ status' # "assert" /\ DOMAIN term' = Conns
  BY <1>1, <1>2 DEF PeersInv
<1>4. TalkInv(c)'
  <2>1. dialogue[c] = Idle /\ TalkInv(c)
    BY <1>1, <1>2 DEF PeersInv, TalkInv
  <2>2. QED
    BY <1>1, <2>1 DEF TalkInv
<1>5. \A d \in Conns : TalkInv(d)'
  BY <1>1, <1>3, <1>4, TalkKept DEF PeersInv
<1>6. \A d \in Conns : Earned(d)
  BY <1>1, EarnedKept
<1>7. QED
  BY <1>1, <1>3, <1>5, <1>6 DEF PeersInv

\* A line: it is given to the peer of the client that typed it.
LEMMA LineKeepsPeers ==
  ASSUME LoopInv, PeersInv, NEW c \in Open, ReadLine(c)
  PROVE  PeersInv' /\ \A d \in Conns : Earned(d)
<1>1. /\ findpeer(fd[c]) = {c} /\ link' = link /\ Open' = Open
      /\ pending[c] /\ ~ pending'[c]
  BY FindsOwn DEF ReadLine, LoopInv, Open
<1>2. CASE status' # "assert" /\ UNCHANGED <<peerVars, userVars>>
  BY <1>1, <1>2, NothingSaid DEF peerVars, userVars
<1>3. CASE term[c] = "up" /\ (CommandLine(c, c) \/ Answer(c, c)) /\ UNCHANGED term
  <2>1. LineOK(c)
    BY <1>1, <1>3, CommandLineOK, AnswerOK
  <2>2. ASSUME NEW d \in Conns, d # c PROVE TalkInv(d)' /\ Earned(d)
    <3>1. TalkInv(d) /\ d \in Conns
      BY DEF PeersInv
    <3>2. QED
      BY <1>1, <1>3, <2>1, <2>2, <3>1, TalkKept, EarnedKept DEF LineOK
  <2>3. Earned(c)
    BY <1>1, <2>1 DEF LineOK, Earned
  <2>4. QED
    BY <1>3, <2>1, <2>2, <2>3 DEF LineOK, PeersInv
<1>4. \/ term[c] = "up" /\ (CommandLine(c, c) \/ Answer(c, c)) /\ UNCHANGED term
      \/ status' # "assert" /\ UNCHANGED <<peerVars, userVars>>
  <2>1. status # "assert"
    BY DEF PeersInv
  <2>2. QED
    BY <1>1, <2>1 DEF ReadLine
<1>5. QED
  BY <1>2, <1>3, <1>4

LEMMA PeersStep ==
  ASSUME RouterInv, [Next]_vars
  PROVE  PeersInv' /\ \A c \in Conns : Earned(c)
<1>1. LoopInv /\ PeersInv
  BY DEF RouterInv
<1>2. CASE Select
  BY <1>1, <1>2, NothingSaid
     DEF Select, netVars, peerVars, userVars, PeersInv, Open
<1>3. CASE AcceptPeer
  BY <1>1, <1>3, AcceptKeepsPeers
<1>4. CASE Scan
  <2>1. PICK c \in Open : ReadFails(c) \/ ReadEof(c) \/ ReadFirst(c) \/ ReadLine(c)
    BY <1>4 DEF Scan
  <2>2. CASE ReadFails(c)
    BY <1>1, <2>2, NothingSaid
       DEF ReadFails, peerVars, userVars, PeersInv, LoopInv, Open
  <2>3. CASE ReadEof(c)
    BY <1>1, <2>3, NothingSaid
       DEF ReadEof, netVars, peerVars, userVars, PeersInv, Open
  <2>4. QED
    BY <1>1, <2>1, <2>2, <2>3, FirstKeepsPeers, LineKeepsPeers
<1>5. CASE \E c \in Conns : Client(c)
  <2>1. PICK c \in Conns : Client(c)
    BY <1>5
  <2>2. /\ UNCHANGED <<term, mode, dialogue, prompt, proved, status>>
        /\ Open' \subseteq Open
        /\ \A d \in Conns : link'[d] \in {"none", "queued"} => link[d] \in {"none", "queued"}
    BY <1>1, <2>1 DEF Client, peerVars, userVars, LoopInv, Open
  <2>3. QED
    BY <1>1, <2>2, NothingSaid DEF PeersInv
<1>6. CASE WriteFails
  BY <1>1, <1>6, NothingSaid DEF WriteFails, peerVars, userVars, PeersInv, Open
<1>7. CASE UNCHANGED vars
  BY <1>1, <1>7, NothingSaid DEF vars, netVars, peerVars, userVars, PeersInv, Open
<1>8. QED
  BY <1>2, <1>3, <1>4, <1>5, <1>6, <1>7 DEF Next, Server

-----------------------------------------------------------------------------
LEMMA InvHolds ==
  Spec => []RouterInv
<1>1. Init => RouterInv
  BY LoopInit, PeersInit DEF RouterInv
<1>2. RouterInv /\ [Next]_vars => RouterInv'
  BY LoopStep, PeersStep DEF RouterInv
<1>3. QED
  BY <1>1, <1>2, PTL DEF Spec

(***************************************************************************)
(* The list of peers, which only grows, and descriptors that are given out *)
(* again: findpeer() has the peer of the connection that is open on a      *)
(* descriptor, however many connections came and went.                     *)
(***************************************************************************)
THEOREM RouterFindsPeers ==
  Spec => []PeersAreFound
<1>1. RouterInv => PeersAreFound
  BY LoopImpliesFound DEF RouterInv
<1>2. QED
  BY <1>1, InvHolds, PTL

(***************************************************************************)
(* The asserts of main() and of the callbacks hold: what is asked for in   *)
(* the middle of a command leaves the mode it was given in.                *)
(***************************************************************************)
THEOREM RouterAssertsHold ==
  Spec => []AssertsHold
<1>1. RouterInv => AssertsHold
  BY DEF RouterInv, PeersInv, AssertsHold
<1>2. QED
  BY <1>1, InvHolds, PTL

(***************************************************************************)
(* No client gets past login or enable but by its own right answers to the *)
(* prompts it was shown since it gave the command, however the lines of    *)
(* all the clients are interleaved and whatever allocation fails.          *)
(***************************************************************************)
THEOREM RouterPrivilege ==
  Spec => PrivilegeIsEarned
<1>1. RouterInv /\ [Next]_vars =>
        \A c \in Conns :
          Level(mode'[c]) > Level(mode[c]) =>
            /\ Level(mode'[c]) = Level(mode[c]) + 1
            /\ mode[c] # "none" => pending[c] /\ ~pending'[c]
            /\ Required(mode[c]) \subseteq proved'[c]
  BY PeersStep DEF Earned
<1>2. QED
  BY <1>1, InvHolds, PTL DEF Spec, PrivilegeIsEarned

-----------------------------------------------------------------------------
\* The types of what RouterInv leaves out: the scan, the server's end and the
\* whole of a dialogue.
Statuses == {"running", "returned", "killed", "undefined", "aborted", "assert", "no_name"}
Terms == {"none", "up", "failed"}
ValueNode == [id : {"username", "password"}, value : Texts]

RestTypes ==
  /\ curr \subseteq Fds \cup {Listener}
  /\ stuck \subseteq Open
  /\ status \in Statuses
  /\ term \in [Conns -> Terms]
  /\ dialogue \in [Conns -> Dialogues]

LEMMA IdleType == Idle \in Dialogues
<1>1. <<>> \in Seq(ValueNode)
  OBVIOUS
<1>2. QED
  BY <1>1 DEF Idle, Dialogues, ValueNode

LEMMA ExecuteTypes ==
  ASSUME RestTypes, NEW p \in Conns, NEW c, NEW k, NEW argc, NEW list,
         Execute(p, c, k, argc, list)
  PROVE  status' \in Statuses /\ dialogue' \in [Conns -> Dialogues]
<1>1. status' \in Statuses
  BY DEF Execute, CallBack, RestTypes, Statuses, Prints, SetMode, cmd_login, cmd_enable,
         cmd_config, cmd_exit
<1>2. dialogue' = [dialogue EXCEPT ![p] = Idle]
  BY DEF Execute
<1>3. QED
  BY <1>1, <1>2, IdleType DEF RestTypes

LEMMA AskTypes ==
  ASSUME RestTypes, NEW p \in Conns, NEW c,
         NEW k \in {"login", "enable"}, NEW argc \in {0, 1},
         NEW left \in {<<"password">>, <<"username", "password">>},
         NEW list \in Seq(ValueNode),
         Ask(p, c, k, argc, left, list)
  PROVE  status' \in Statuses /\ dialogue' \in [Conns -> Dialogues]
<1>1. status' = status
  BY DEF Ask, Prints
<1> DEFINE node == [id |-> Head(left), value |-> ""]
           talk(values) == [cmd |-> k, argc |-> argc, left |-> left, values |-> values]
<1>2. node \in ValueNode
  <2>1. Head(<<"password">>) = "password" /\ Head(<<"username", "password">>) = "username"
    OBVIOUS
  <2>2. Head(left) \in {"username", "password"}
    BY <2>1
  <2> HIDE DEF node
  <2>3. QED
    BY <2>2 DEF node, ValueNode, Texts
<1> HIDE DEF node
<1>3. <<node>> \o list \in Seq(ValueNode)
  BY <1>2
<1>4. \A values \in Seq(ValueNode) : talk(values) \in Dialogues
  BY DEF Dialogues, ValueNode
<1>5. \/ dialogue' = [dialogue EXCEPT ![p] = talk(<<node>> \o list)]
      \/ dialogue' = [dialogue EXCEPT ![p] = talk(list)]
  BY DEF Ask, node
<1> HIDE DEF talk
<1>6. talk(<<node>> \o list) \in Dialogues /\ talk(list) \in Dialogues
  BY <1>3, <1>4
<1>7. dialogue' \in [Conns -> Dialogues]
  BY <1>5, <1>6 DEF RestTypes
<1>8. QED
  BY <1>1, <1>7 DEF RestTypes

LEMMA LineTypes ==
  ASSUME RouterInv, RestTypes, NEW p \in Conns, NEW c, CommandLine(p, c) \/ Answer(p, c)
  PROVE  status' \in Statuses /\ dialogue' \in [Conns -> Dialogues]
<1>1. CASE CommandLine(p, c)
  <2>1. CASE Prints /\ UNCHANGED dialogue
    BY <2>1 DEF RestTypes, Prints
  <2>2. ASSUME NEW k \in Visible(mode[p]), NEW argc \in {0, 1},
               IF FieldsOf(k) = <<>> THEN Execute(p, c, k, argc, <<>>)
               ELSE Ask(p, c, k, argc, FieldsOf(k), <<>>)
        PROVE  status' \in Statuses /\ dialogue' \in [Conns -> Dialogues]
    <3>1. CASE FieldsOf(k) = <<>>
      BY <1>1, <2>2, <3>1, ExecuteTypes
    <3>2. CASE FieldsOf(k) # <<>>
      <4>1. /\ k \in {"login", "enable"}
            /\ FieldsOf(k) \in {<<"password">>, <<"username", "password">>}
        BY <3>2 DEF FieldsOf
      <4>2. <<>> \in Seq(ValueNode)
        OBVIOUS
      <4>3. Ask(p, c, k, argc, FieldsOf(k), <<>>)
        BY <2>2, <3>2
      <4>4. QED
        BY <4>1, <4>2, <4>3, AskTypes
    <3>3. QED
      BY <3>1, <3>2
  <2>3. QED
    BY <1>1, <2>1, <2>2 DEF CommandLine
<1>2. CASE Answer(p, c)
  <2>1. dialogue[p] \in Dialogues /\ dialogue[p] # Idle /\ TalkInv(p)
    BY <1>2 DEF RestTypes, RouterInv, PeersInv, Answer
  <2>2. PICK d : d = dialogue[p]
    OBVIOUS
  <2>3. /\ d.cmd \in {"login", "enable"} /\ d.argc \in {0, 1}
        /\ d.left \in {<<"password">>, <<"username", "password">>}
        /\ d.values \in Seq(ValueNode)
    <3>1. d.argc \in {0, 1} /\ d.values \in Seq(ValueNode)
      BY <2>1, <2>2 DEF Dialogues, ValueNode
    <3>2. d.cmd \in {"login", "enable"} /\ (LoginInv(p) \/ EnableInv(p))
      BY <2>1, <2>2 DEF TalkInv
    <3>3. d.left \in {<<"password">>, <<"username", "password">>}
      BY <2>2, <3>2 DEF LoginInv, EnableInv
    <3>4. QED
      BY <3>1, <3>2, <3>3
  <2>4. CASE d.values = <<>>
    BY <1>2, <2>2, <2>4 DEF Answer, RestTypes, Statuses
  <2>5. CASE d.values # <<>>
    <3>1. PICK text \in Texts :
            \E list \in {<<[id |-> Head(d.values).id, value |-> text]>> \o Tail(d.values)} :
              IF Tail(d.left) = <<>> THEN Execute(p, c, d.cmd, d.argc, list)
              ELSE Ask(p, c, d.cmd, d.argc, Tail(d.left), list)
      BY <1>2, <2>2, <2>5 DEF Answer
    <3> DEFINE node == [id |-> Head(d.values).id, value |-> text]
               list == <<node>> \o Tail(d.values)
    <3>2. list \in Seq(ValueNode)
      <4>1. Head(d.values) \in ValueNode /\ Tail(d.values) \in Seq(ValueNode)
        BY <2>3, <2>5
      <4>2. node \in ValueNode
        BY <4>1 DEF ValueNode
      <4> HIDE DEF node
      <4>3. QED
        BY <4>1, <4>2
    <3>3. IF Tail(d.left) = <<>> THEN Execute(p, c, d.cmd, d.argc, list)
          ELSE Ask(p, c, d.cmd, d.argc, Tail(d.left), list)
      BY <3>1
    <3> HIDE DEF list
    <3>4. CASE Tail(d.left) = <<>>
      BY <3>3, <3>4, ExecuteTypes
    <3>5. CASE Tail(d.left) # <<>>
      <4>1. Tail(d.left) \in {<<"password">>, <<"username", "password">>}
        <5>1. Tail(<<"password">>) = <<>> /\ Tail(<<"username", "password">>) = <<"password">>
          OBVIOUS
        <5>2. QED
          BY <2>3, <3>5, <5>1
      <4>2. Ask(p, c, d.cmd, d.argc, Tail(d.left), list)
        BY <3>3, <3>5
      <4>3. QED
        BY <2>3, <3>2, <4>1, <4>2, AskTypes
    <3>6. QED
      BY <3>4, <3>5
  <2>6. QED
    BY <2>4, <2>5
<1>3. QED
  BY <1>1, <1>2

\* A turn of the scan leaves nobody stuck but the client whose input was read.
LEMMA ScanTypes ==
  ASSUME RouterInv, RestTypes, Scan
  PROVE  RestTypes'
<1>1. PICK c \in Open : /\ curr' = curr \ {fd[c]}
                        /\ ReadFails(c) \/ ReadEof(c) \/ ReadFirst(c) \/ ReadLine(c)
  BY DEF Scan
<1>2. curr' \subseteq Fds \cup {Listener} /\ stuck = {} /\ c \in Conns
  BY <1>1 DEF Scan, Serving, RestTypes, Open
<1>3. CASE ReadFails(c) \/ ReadEof(c)
  BY <1>2, <1>3 DEF ReadFails, ReadEof, netVars, peerVars, RestTypes
<1>4. findpeer(fd[c]) = {c}
  BY FindsOwn DEF RouterInv
<1>5. CASE ReadFirst(c)
  <2>1. Open' = Open
    BY <1>5 DEF ReadFirst, Open
  <2>2. /\ status' \in {status, "running", "aborted"} /\ Written(c) /\ UNCHANGED dialogue
        /\ term' = [term EXCEPT ![c] = "up"] \/ term' = [term EXCEPT ![c] = "failed"]
    BY <1>4, <1>5 DEF ReadFirst
  <2>3. stuck' \subseteq Open'
    BY <1>1, <1>2, <2>1, <2>2 DEF Written
  <2>4. QED
    BY <1>2, <2>2, <2>3 DEF RestTypes, Statuses, Terms
<1>6. CASE ReadLine(c)
  <2>1. Open' = Open
    BY <1>6 DEF ReadLine, Open
  <2>2. \/ (CommandLine(c, c) \/ Answer(c, c)) /\ Written(c) /\ UNCHANGED term
        \/ /\ status' = status \/ status' \in {"assert", "aborted", "killed"}
           /\ UNCHANGED stuck \/ Written(c)
           /\ UNCHANGED <<term, dialogue>>
    BY <1>4, <1>6 DEF ReadLine, peerVars
  <2>3. status' \in Statuses /\ dialogue' \in [Conns -> Dialogues]
    <3>1. CASE CommandLine(c, c) \/ Answer(c, c)
      BY <1>2, <3>1, LineTypes
    <3>2. CASE /\ status' = status \/ status' \in {"assert", "aborted", "killed"}
               /\ UNCHANGED dialogue
      BY <3>2 DEF RestTypes, Statuses
    <3>3. QED
      BY <2>2, <3>1, <3>2
  <2>4. stuck' \subseteq Open' /\ term' = term
    BY <1>1, <1>2, <2>1, <2>2 DEF Written
  <2>5. QED
    BY <1>2, <2>3, <2>4 DEF RestTypes
<1>7. QED
  BY <1>1, <1>3, <1>5, <1>6

LEMMA RestStep == RouterInv /\ RestTypes /\ [Next]_vars => RestTypes'
<1>1. SUFFICES ASSUME RouterInv, RestTypes, [Next]_vars PROVE RestTypes'
  OBVIOUS
<1>2. CASE Select
  <2>1. master \subseteq Fds \cup {Listener}
    BY <1>1 DEF RouterInv, LoopInv
  <2>2. curr' \subseteq master /\ UNCHANGED <<link, stuck, status, term, dialogue>>
    BY <1>2 DEF Select, netVars, peerVars
  <2>3. QED
    BY <1>1, <2>1, <2>2 DEF RestTypes, Open
<1>3. CASE AcceptPeer
  <2>1. /\ curr' \subseteq curr /\ UNCHANGED <<stuck, term, dialogue>> /\ stuck = {}
        /\ status' \in {status, "returned"}
    BY <1>3 DEF AcceptPeer, SetMode, Serving
  <2>2. QED
    BY <1>1, <2>1 DEF RestTypes, Statuses
<1>4. CASE Scan
  BY <1>1, <1>4, ScanTypes
<1>5. CASE WriteFails
  BY <1>1, <1>5 DEF WriteFails, peerVars, RestTypes, Statuses
<1>6. CASE \E c \in Conns : Client(c)
  <2>1. /\ UNCHANGED <<curr, status, term, dialogue>> /\ stuck' \subseteq stuck
        /\ Open' = Open
    BY <1>1, <1>6 DEF Client, peerVars, RouterInv, LoopInv, Open
  <2>2. QED
    BY <1>1, <2>1 DEF RestTypes
<1>7. CASE UNCHANGED vars
  BY <1>1, <1>7 DEF vars, netVars, peerVars, RestTypes, Open
<1>8. QED
  BY <1>1, <1>2, <1>3, <1>4, <1>5, <1>6, <1>7 DEF Next, Server

(***************************************************************************)
(* The types: in particular the peer of an open connection is in a mode    *)
(* that has a prompt, and only login and enable are ever asked for fields. *)
(***************************************************************************)
THEOREM RouterTypes ==
  Spec => []RouterTypeOK
<1>1. Init => RestTypes
  BY IdleType DEF Init, RestTypes, Statuses, Terms
<1>2. RouterInv /\ RestTypes => RouterTypeOK
  <2>1. SUFFICES ASSUME RouterInv, RestTypes PROVE RouterTypeOK
    OBVIOUS
  <2>2. \A c \in Open : fd[c] \in Fds /\ mode[c] \in Modes
    BY <2>1 DEF RouterInv, LoopInv, PeersInv, TalkInv, Open
  <2>3. QED
    BY <2>1, <2>2 DEF RouterInv, LoopInv, PeersInv, RestTypes, RouterTypeOK, Links, Statuses,
           Terms
<1>3. QED
  BY <1>1, <1>2, InvHolds, RestStep, PTL DEF Spec
=============================================================================

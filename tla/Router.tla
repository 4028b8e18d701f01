--------------------------------- MODULE Router --------------------------------
(***************************************************************************)
(* The command server of examples/router/router.c: one process serves      *)
(* several telnet clients from a select() loop, finds the peer a file      *)
(* descriptor belongs to in a list, and hands what it reads to cl_read().  *)
(* A client's input is taken line by line: how a line becomes a command    *)
(* and its arguments is Reader's subject, what the layers below do with    *)
(* the bytes is Peer's.  Sockets are the kernel's, modelled as the server  *)
(* uses them.                                                              *)
(***************************************************************************)
EXTENDS Integers, Sequences, FiniteSets

CONSTANTS
  Conns,     \* the connections that are ever made, numbered in their order
  Fds,       \* the descriptors accept() can return
  Listener,  \* s: the descriptor of the listening socket
  Objects,   \* what can be configured: "interface", "effect", "link"
  Failures   \* whether allocations and accept() may fail

ASSUME ConnsAreNat == Conns \subseteq Nat
ASSUME FdsAreNat == Fds \subseteq Nat /\ Listener \in Nat \ Fds
ASSUME ObjectsAreKnown == Objects \subseteq {"interface", "effect", "link"}
ASSUME FailuresIsBoolean == Failures \in BOOLEAN

VARIABLES
  \* the kernel and the clients
  link,      \* how far each connection has come
  pending,   \* whether input of it waits to be read
  stuck,     \* the client the server waits for in write(), if it does
  \* main()
  master,    \* the descriptors select() is called with
  curr,      \* those of its last result that are still to be looked at
  peers,     \* the list of struct peer, newest first
  fd,        \* each struct peer's fd
  status,    \* whether the server runs, or what has ended it
  \* each peer's struct cl_peer
  term,      \* p->tctx: not created yet, there, or failed for good
  mode,      \* p->mode
  dialogue,  \* the command whose fields are being asked, see Idle
  \* history: what a client sees and has typed
  prompt,    \* what it was last asked for
  proved     \* what it has answered rightly since its last command line

netVars == <<link, pending, stuck>>
loopVars == <<master, peers, fd>>
peerVars == <<term, mode, dialogue>>
userVars == <<prompt, proved>>
vars == <<netVars, loopVars, curr, status, peerVars, userVars>>

USERNAME == "alice"
PASSWORD == "hello"
Texts == {USERNAME, PASSWORD, ""}   \* the answers to a field's prompt

NoFd == -1

\* STATE_NEW: no command is in progress.  The list of values and argv live on,
\* but are not looked at before the next command has replaced them.
Idle == [cmd |-> "none", argc |-> 0, left |-> <<>>, values |-> <<>>]

Init ==
  /\ link = [c \in Conns |-> "none"]
  /\ pending = [c \in Conns |-> FALSE] /\ stuck = {}
  /\ master = {Listener} /\ curr = {} /\ peers = <<>>
  /\ fd = [c \in Conns |-> NoFd]
  /\ status = "running"
  /\ term = [c \in Conns |-> "none"]
  /\ mode = [c \in Conns |-> "none"]
  /\ dialogue = [c \in Conns |-> Idle]
  /\ prompt = [c \in Conns |-> "none"]
  /\ proved = [c \in Conns |-> {}]

-----------------------------------------------------------------------------
\* Mutant of Visible: enable is given the modes of two levels.
Visible_EnableTooEarly(m) ==
  {"exit", "help"} \cup
  CASE m = "connected" -> {"show_motd", "login", "enable"}
    [] m = "disabled"  -> {"enable"}
    [] m = "enabled"   -> {"configure_terminal"}
    [] m = "configure" -> Objects
    [] OTHER           -> {}

\* commands[]: what is visible in a mode, which fields it asks for, lowest bit
\* first, and which modes its callback asserts.  The three entries for exit are
\* merged to one for all modes.
Visible(m) ==
  {"exit", "help"} \cup
  CASE m = "connected" -> {"show_motd", "login"}
    [] m = "disabled"  -> {"enable"}
    [] m = "enabled"   -> {"configure_terminal"}
    [] m = "configure" -> Objects
    [] OTHER           -> {}

FieldsOf(k) ==
  CASE k = "login"  -> <<"username", "password">>
    [] k = "enable" -> <<"password">>
    [] OTHER        -> <<>>

Modes == {"connected", "disabled", "enabled", "configure"} \cup Objects

AssertedModes(k) ==
  CASE k \in {"show_motd", "login"} -> {"connected"}
    [] k = "enable"                 -> {"disabled"}
    [] k = "configure_terminal"     -> {"enabled"}
    [] k \in Objects                -> {"configure"}
    [] OTHER                        -> Modes

\* cl_get_field(): the newest node's value of an id, or "".
GetField(list, id) ==
  LET found == {k \in DOMAIN list : list[k].id = id} IN
  IF found = {} THEN ""
  ELSE list[CHOOSE k \in found : \A j \in found : k <= j].value

-----------------------------------------------------------------------------
\* A callback that only prints, be it "invalid cardinality".
Prints == UNCHANGED <<mode, status>>

SetMode(p, m) == mode' = [mode EXCEPT ![p] = m] /\ UNCHANGED status

\* Mutant of cmd_login: either answer will do.
cmd_login_Either(p, list) ==
  IF GetField(list, "username") = USERNAME \/ GetField(list, "password") = PASSWORD
  THEN SetMode(p, "disabled") ELSE Prints

(***************************************************************************)
(* The counts of failed attempts, which all peers share, only decide       *)
(* whether "invalid password" is printed: cl_again() does nothing.         *)
(***************************************************************************)
cmd_login(p, list) ==
  IF GetField(list, "username") = USERNAME /\ GetField(list, "password") = PASSWORD
  THEN SetMode(p, "disabled") ELSE Prints

cmd_enable(p, list) ==
  IF GetField(list, "password") = PASSWORD THEN SetMode(p, "enabled") ELSE Prints

(***************************************************************************)
(* argv[0] leads into the line, which getc_main() has freed: it reads as a *)
(* name, as something that is none, or as "", which may also be typed and  *)
(* which the assert on it does not allow for.                              *)
(***************************************************************************)
cmd_config(p, object) ==
  \/ status' = "no_name" /\ UNCHANGED mode
  \/ Prints
  \/ SetMode(p, object)

Outer(m) ==
  CASE m \in Objects   -> "configure"
    [] m = "configure" -> "enabled"
    [] m = "enabled"   -> "disabled"
    [] m = "disabled"  -> "connected"

\* In the outermost mode exit is cl_close(): it destroys the peer's terminal
\* twice and frees the peer that getc_main() goes on to use.
cmd_exit(p) ==
  IF mode[p] = "connected" THEN status' = "undefined" /\ UNCHANGED mode
  ELSE SetMode(p, Outer(mode[p]))

\* The callback of command k, called with argc arguments and a list of values.
CallBack(p, k, argc, list) ==
  IF mode[p] \notin AssertedModes(k)
  THEN status' = "assert" /\ UNCHANGED mode
  ELSE IF argc # (IF k \in Objects THEN 1 ELSE 0) THEN Prints
  ELSE \/ k \in {"show_motd", "help"} /\ Prints
       \/ k = "login" /\ cmd_login(p, list)
       \/ k = "enable" /\ cmd_enable(p, list)
       \/ k = "configure_terminal" /\ SetMode(p, "configure")
       \/ k \in Objects /\ cmd_config(p, k)
       \/ k = "exit" /\ cmd_exit(p)

-----------------------------------------------------------------------------
\* Where a line of connection c is given to peer p, which is c's own as long as
\* findpeer() is right.  What p prints goes to p's descriptor, which is c's.

\* firstfield with nothing left: the callback, then the application's prompt.
Execute(p, c, k, argc, list) ==
  /\ CallBack(p, k, argc, list)
  /\ dialogue' = [dialogue EXCEPT ![p] = Idle]
  /\ prompt' = [prompt EXCEPT ![c] = "command"]

\* firstfield with a field left: a node for it and its prompt.  Without memory
\* for the node nothing is printed, and the telnet layer ignores the error.
Ask(p, c, k, argc, left, list) ==
  /\ \/ /\ dialogue' = [dialogue EXCEPT ![p] =
              [cmd |-> k, argc |-> argc, left |-> left,
               values |-> <<[id |-> Head(left), value |-> ""]>> \o list]]
        /\ prompt' = [prompt EXCEPT ![c] = Head(left)]
     \/ /\ Failures
        /\ dialogue' = [dialogue EXCEPT ![p] =
              [cmd |-> k, argc |-> argc, left |-> left, values |-> list]]
        /\ UNCHANGED prompt
  /\ Prints

\* A command line: one that is rejected, or for which there is no memory, or
\* that of a visible command with an argument or without.
CommandLine(p, c) ==
  /\ dialogue[p] = Idle
  /\ \/ /\ prompt' = [prompt EXCEPT ![c] = "command"]
        /\ Prints /\ UNCHANGED dialogue
     \/ Failures /\ Prints /\ UNCHANGED <<dialogue, prompt>>
     \/ \E k \in Visible(mode[p]), argc \in {0, 1} :
          IF FieldsOf(k) = <<>> THEN Execute(p, c, k, argc, <<>>)
          ELSE Ask(p, c, k, argc, FieldsOf(k), <<>>)
  /\ proved' = [proved EXCEPT ![c] = {}]

\* What a client has proved by answering the prompt it sees.
Right(shown) == CASE shown = "username" -> {USERNAME}
                  [] shown = "password" -> {PASSWORD}
                  [] OTHER              -> {}

\* STATE_FIELD: the newest node gets the answer; if there is none, NULL is
\* dereferenced.
Answer(p, c) ==
  /\ dialogue[p] # Idle
  /\ \E text \in Texts : \E d \in {dialogue[p]} :
       /\ IF d.values = <<>>
          THEN /\ status' = "undefined"
               /\ UNCHANGED <<mode, dialogue, prompt>>
          ELSE \E list \in {<<[id |-> Head(d.values).id, value |-> text]>> \o Tail(d.values)} :
                 IF Tail(d.left) = <<>> THEN Execute(p, c, d.cmd, d.argc, list)
                 ELSE Ask(p, c, d.cmd, d.argc, Tail(d.left), list)
       /\ proved' = [proved EXCEPT ![c] = IF text \in Right(prompt[c])
                                          THEN @ \cup {prompt[c]} ELSE @]

-----------------------------------------------------------------------------
Running == status = "running"
Serving == Running /\ stuck = {}

\* The connections that are open in the server, and have a descriptor.
Open == {c \in Conns : link[c] \in {"open", "eof", "reset"}}

\* What read() would not wait for; at the end of the input it never waits.
Readable(c) == pending[c] \/ link[c] \in {"eof", "reset"}

\* select() returns, when something is ready; it is only given open descriptors
\* and does not fail.
Select ==
  /\ Serving /\ curr = {}
  /\ curr' = master \cap ({Listener : c \in {d \in Conns : link[d] = "queued"}}
                            \cup {fd[c] : c \in {d \in Open : Readable(d)}})
  /\ curr' # {}
  /\ UNCHANGED <<netVars, loopVars, status, peerVars, userVars>>

\* The kernel gives a connection the lowest free descriptor.
FreeFds == Fds \ {fd[c] : c \in Open}
IsLowest(i, F) == i \in F /\ \A j \in F : i <= j

\* Mutant of addpeer: the new peer is put at the end of the list.
addpeer_AtEnd(c) == peers' = peers \o <<c>>

addpeer(c) == peers' = <<c>> \o peers

\* Mutant of AcceptPeer: the peer's first mode is not set.
AcceptPeer_NoMode ==
  /\ Serving /\ Listener \in curr
  /\ curr' = curr \ {Listener}
  /\ \E c \in Conns :
       /\ IsLowest(c, {d \in Conns : link[d] = "queued"})
       /\ \/ /\ \E i \in Fds : /\ IsLowest(i, FreeFds)
                               /\ fd' = [fd EXCEPT ![c] = i]
                               /\ master' = master \cup {i}
             /\ addpeer(c)
             /\ UNCHANGED <<mode, status>>
             /\ link' = [link EXCEPT ![c] = "open"]
          \/ /\ Failures \/ FreeFds = {}
             /\ status' = "returned"
             /\ UNCHANGED <<link, fd, master, peers, mode>>
  /\ UNCHANGED <<pending, stuck, term, dialogue, userVars>>

\* accept(), of the oldest in the queue, cl_accept(), addpeer(), cl_set_opaque(),
\* cl_set_mode(), cl_ready(); any that can fail makes main() return.  Nothing but
\* the telnet layer's negotiation is sent before the client has answered or typed.
AcceptPeer ==
  /\ Serving /\ Listener \in curr
  /\ curr' = curr \ {Listener}
  /\ \E c \in Conns :
       /\ IsLowest(c, {d \in Conns : link[d] = "queued"})
       /\ \/ /\ \E i \in Fds : /\ IsLowest(i, FreeFds)
                               /\ fd' = [fd EXCEPT ![c] = i]
                               /\ master' = master \cup {i}
             /\ addpeer(c)
             /\ SetMode(c, "connected")
             /\ link' = [link EXCEPT ![c] = "open"]
          \/ /\ Failures \/ FreeFds = {}
             /\ status' = "returned"
             /\ UNCHANGED <<link, fd, master, peers, mode>>
  /\ UNCHANGED <<pending, stuck, term, dialogue, userVars>>

-----------------------------------------------------------------------------
\* findpeer(): the first in the list with descriptor i, if there is one.
findpeer(i) ==
  {peers[k] : k \in {j \in DOMAIN peers :
                      fd[peers[j]] = i /\ \A l \in 1 .. j - 1 : fd[peers[l]] # i}}

\* read() returns -1: the descriptor is closed; the peer stays in the list.
ReadFails(c) ==
  /\ link[c] = "reset" /\ ~pending[c]
  /\ master' = master \ {fd[c]}
  /\ link' = [link EXCEPT ![c] = "closed"]
  /\ UNCHANGED <<pending, stuck, peers, fd, status, peerVars, userVars>>

\* read() returns 0, and will again.
ReadEof(c) ==
  /\ link[c] = "eof" /\ ~pending[c]
  /\ UNCHANGED <<netVars, loopVars, status, peerVars, userVars>>

\* What is printed goes out by write(), which waits for a client that is there
\* and has not read what it was sent before.
Written(c) == stuck' = {} \/ (link[c] \in {"open", "eof"} /\ stuck' = {c})

(***************************************************************************)
(* The first of c's input that makes its peer's chain ready: the answer    *)
(* about its terminal, or keys, before which an unknown terminal is taken. *)
(* The message of the day and the prompt are the first the client sees.    *)
(* What came with it, if anything, is left for ReadLine, as if by another  *)
(* read().  The handler does not care if there is no such terminal, but    *)
(* keys that were typed do.                                                *)
(***************************************************************************)
ReadFirst(c) ==
  /\ pending[c]
  /\ \E p \in findpeer(fd[c]) :
       /\ term[p] = "none"
       /\ \/ /\ term' = [term EXCEPT ![p] = "up"]
             /\ prompt' = [prompt EXCEPT ![c] = "command"]
             /\ UNCHANGED status
          \/ /\ term' = [term EXCEPT ![p] = "failed"]
             /\ status' \in {"running", "aborted"}
             /\ UNCHANGED prompt
  /\ Written(c)
  /\ UNCHANGED <<link, pending, loopVars, mode, dialogue, proved>>

(***************************************************************************)
(* read() returns a line, which cl_read() handles before it returns; it    *)
(* never returns -1 for a telnet peer, so that descriptor stays open.      *)
(* What is no whole line is only echoed.  One of the library's             *)
(* asserts may fail: that the terminal is there, or others that are the    *)
(* subject of Edit and of Peer.  The answer may come to a client that has  *)
(* left: then SIGPIPE may end the server.                                  *)
(***************************************************************************)
ReadLine(c) ==
  /\ pending[c]
  /\ pending' = [pending EXCEPT ![c] = FALSE]
  /\ \/ /\ \E p \in findpeer(fd[c]) : term[p] = "up" /\ (CommandLine(p, c) \/ Answer(p, c))
        /\ Written(c)
        /\ UNCHANGED term
     \/ Written(c) /\ UNCHANGED <<status, peerVars, userVars>>
     \/ /\ \/ findpeer(fd[c]) = {} /\ status' = "assert"
           \/ status' = "aborted"
           \/ link[c] \in {"eof", "reset"} /\ status' = "killed"
        /\ UNCHANGED <<stuck, peerVars, userVars>>
  /\ UNCHANGED <<link, loopVars>>

\* Mutant of Scan: the scan is left at the end of a client's input.
Scan_BreakAtEof ==
  /\ Serving /\ curr # {} /\ Listener \notin curr
  /\ \E c \in {d \in Open : IsLowest(fd[d], curr)} :
       /\ curr' = IF link[c] = "eof" /\ ~pending[c] THEN {} ELSE curr \ {fd[c]}
       /\ ReadFails(c) \/ ReadEof(c) \/ ReadFirst(c) \/ ReadLine(c)

\* One turn of the loop over the descriptors of curr, the lowest first.
Scan ==
  /\ Serving /\ curr # {} /\ Listener \notin curr
  /\ \E c \in {d \in Open : IsLowest(fd[d], curr)} :
       /\ curr' = curr \ {fd[c]}
       /\ ReadFails(c) \/ ReadEof(c) \/ ReadFirst(c) \/ ReadLine(c)

\* The client the server waits for breaks the connection: write() returns -1,
\* and the next one may be ended by SIGPIPE.
WriteFails ==
  /\ Running
  /\ \E c \in stuck : link[c] = "reset"
  /\ stuck' = {}
  /\ status' \in {"running", "killed"}
  /\ UNCHANGED <<link, pending, loopVars, curr, peerVars, userVars>>

-----------------------------------------------------------------------------
\* What clients do, at any time while there is a server; what one does before it
\* is accepted shows only after.  Input may still be read after a reset, or not;
\* and what the server waits to write may be read, or not.
Client(c) ==
  /\ Running
  /\ \/ /\ link[c] = "none" /\ \A d \in Conns : d < c => link[d] # "none"
        /\ link' = [link EXCEPT ![c] = "queued"]
        /\ UNCHANGED <<pending, stuck>>
     \/ /\ link[c] = "open" /\ ~pending[c]
        /\ pending' = [pending EXCEPT ![c] = TRUE]
        /\ UNCHANGED <<link, stuck>>
     \/ /\ link[c] = "open"
        /\ link' = [link EXCEPT ![c] = "eof"]
        /\ UNCHANGED <<pending, stuck>>
     \/ /\ link[c] \in {"open", "eof"}
        /\ link' = [link EXCEPT ![c] = "reset"]
        /\ pending' \in {pending, [pending EXCEPT ![c] = FALSE]}
        /\ UNCHANGED stuck
     \/ /\ c \in stuck /\ link[c] \in {"open", "eof"}
        /\ stuck' = {}
        /\ UNCHANGED <<link, pending>>
  /\ UNCHANGED <<loopVars, curr, status, peerVars, userVars>>

Server == Select \/ AcceptPeer \/ Scan \/ WriteFails

Next == Server \/ \E c \in Conns : Client(c)

\* The server is a process that runs whenever it need not wait; nothing is
\* assumed of its clients, not even that they read what they are sent.
Fairness == WF_vars(Server)

Spec == Init /\ [][Next]_vars /\ Fairness

-----------------------------------------------------------------------------
Dialogues == [cmd : {"none", "login", "enable"}, argc : {0, 1},
              left : {<<>>, <<"password">>, <<"username", "password">>},
              values : Seq([id : {"username", "password"}, value : Texts])]

\* The types; the peer of an open connection is in a mode that has a prompt.
RouterTypeOK ==
  /\ link \in [Conns -> {"none", "queued", "open", "eof", "reset", "closed"}]
  /\ pending \in [Conns -> BOOLEAN]
  /\ stuck \subseteq Open
  /\ master \subseteq Fds \cup {Listener} /\ curr \subseteq Fds \cup {Listener}
  /\ peers \in Seq(Conns)
  /\ fd \in [Conns -> Fds \cup {NoFd}]
  /\ status \in {"running", "returned", "killed", "undefined", "aborted", "assert", "no_name"}
  /\ term \in [Conns -> {"none", "up", "failed"}]
  /\ mode \in [Conns -> Modes \cup {"none"}]
  /\ \A c \in Open : mode[c] \in Modes
  /\ dialogue \in [Conns -> Dialogues]
  /\ prompt \in [Conns -> {"none", "command", "username", "password"}]
  /\ proved \in [Conns -> SUBSET {"username", "password"}]

(***************************************************************************)
(* What select() watches is what is open, and the list, from which nothing *)
(* is ever taken, yields for each of those descriptors the peer that was   *)
(* made for the connection it now belongs to, not one that had it before.  *)
(***************************************************************************)
PeersAreFound ==
  /\ master = {Listener} \cup {fd[c] : c \in Open}
  /\ \A c \in Open : findpeer(fd[c]) = {c}

(***************************************************************************)
(* The asserts of main() and of the callbacks hold, whatever clients come, *)
(* go and type: a command runs in the modes its table entry says, also     *)
(* when its fields were asked for in between.  The assert that an object   *)
(* has a name is another matter, see cmd_config, and so are the library's. *)
(***************************************************************************)
AssertsHold == status # "assert"

Level(m) == CASE m = "none"      -> -1
              [] m = "connected" -> 0
              [] m = "disabled"  -> 1
              [] m = "enabled"   -> 2
              [] m = "configure" -> 3
              [] OTHER           -> 4

\* What must be proved to leave a mode inwards.
Required(m) == CASE m = "connected" -> {"username", "password"}
                 [] m = "disabled"  -> {"password"}
                 [] OTHER           -> {}

(***************************************************************************)
(* A peer gets into a mode from the next outer one only, and past login    *)
(* and enable only by a line of the client whose peer it is, after that    *)
(* client has given the right answers to the prompts it was shown since    *)
(* it typed the command: not by another client's line, nor by answers to   *)
(* an earlier command, nor with a descriptor that was another's before.    *)
(***************************************************************************)
PrivilegeIsEarned ==
  [][\A c \in Conns :
       Level(mode'[c]) > Level(mode[c]) =>
         /\ Level(mode'[c]) = Level(mode[c]) + 1
         /\ mode[c] # "none" => pending[c] /\ ~pending'[c]
         /\ Required(mode[c]) \subseteq proved'[c]]_vars

\* Something of a connection is for the server to see to.
Waiting(c) == link[c] \in {"queued", "reset"} \/ pending[c]

(***************************************************************************)
(* Clients that are connected and have typed something are served, and one *)
(* that breaks the connection is closed, even while others type without    *)
(* end or have left descriptors that are always ready; unless the server   *)
(* ends, or waits in write() for ever for a client that does not read what *)
(* it is sent, which stops it for all the others: the sockets block.       *)
(***************************************************************************)
NobodyStarves ==
  []<>(stuck = {}) =>
    \A c \in Conns : Waiting(c) ~> (~Waiting(c) \/ ~Running)
=============================================================================

-------------------------------- MODULE Peer --------------------------------
(***************************************************************************)
(* One peer's life: cl_accept(), cl_ready(), cl_read() and cl_close() of   *)
(* src/cl.c and the chain of I/O layers in src/io that they go through.    *)
(* Contexts are created from the wire inwards, telnet, ecma48, start; with *)
(* telnet the inner ones wait for the client to name its terminal, or to   *)
(* send data before it has.  The bytes of the input are numbered in the    *)
(* order the application has them.  What getc_main() does with a key is    *)
(* Reader's concern: here it returns 0, or -1.                             *)
(***************************************************************************)
EXTENDS Integers, Sequences, FiniteSets

CONSTANTS
  IOs,       \* the protocols peers are accepted with: enum cl_io
  BufSz,     \* the size of termkey's buffer
  MaxInput,  \* bound on the bytes the application has for the peer
  Failures   \* whether allocations, terminfo, callbacks and keys may fail

ASSUME IOsAreKnown == IOs \subseteq {"plain", "ecma48", "telnet"}
ASSUME SizesAreNat == BufSz \in Nat /\ MaxInput \in Nat
ASSUME FailuresIsBoolean == Failures \in BOOLEAN

VARIABLES
  status,    \* how far the application has got with the peer
  io,        \* which chain the peer has
  chain,     \* p->ttype and p->tctx, set or NULL; the layers with an ioctx;
             \* how often tree->motd() has been called
  consumed,  \* how many bytes cl_read() has said it has consumed
  buffer,    \* the bytes in termkey's buffer
  handled,   \* history: the bytes of the keys taken out of it
  failed,    \* history: an error has been ignored
  aborted    \* an assert has failed, or something freed has been used

vars == <<status, io, chain, consumed, buffer, handled, failed, aborted>>

\* The layers of a chain that keep a context, from io_chains.
Contexts(protocol) ==
  CASE protocol = "plain"  -> {}
    [] protocol = "ecma48" -> {"ecma48"}
    [] protocol = "telnet" -> {"ecma48", "telnet"}

Init ==
  /\ status = "none"
  /\ io \in IOs
  /\ chain = [ttype |-> FALSE, tctx |-> FALSE, ioctx |-> {}, motd |-> 0]
  /\ consumed = 0 /\ buffer = <<>> /\ handled = <<>>
  /\ failed = FALSE /\ aborted = FALSE

-----------------------------------------------------------------------------
\* How a call of a layer's create() can end.
Ends(c, r) == [chain |-> c, result |-> r]
Failing(outcomes) == IF Failures THEN outcomes ELSE {}

\* start_create(): the first assert is that the terminal's type is known.
\* Terminfo may not have it, and motd() and printprompt() may fail.
StartCreate(c) ==
  LET up == [c EXCEPT !.tctx = TRUE, !.motd = @ + 1] IN
  IF ~c.ttype THEN {Ends(c, "abort")}
  ELSE {Ends(up, "ok")} \cup Failing({Ends(c, "error"), Ends(up, "error")})

\* Mutant of EcmaCreate: the next layer is created before this one.
EcmaCreate_ChainFirst(c) ==
  LET typed == [c EXCEPT !.ttype = TRUE] IN
  IF "ecma48" \in c.ioctx THEN {Ends(c, "abort")}
  ELSE {IF o.result = "ok" THEN Ends([o.chain EXCEPT !.ioctx = @ \cup {"ecma48"}], "ok")
        ELSE o : o \in StartCreate(typed)}
       \cup Failing({Ends(o.chain, "error") : o \in StartCreate(typed)})

\* ecma48_create(): the type is asked of the layers further out, of which the
\* last one always has an answer.
EcmaCreate(c) ==
  LET typed == [c EXCEPT !.ttype = TRUE] IN
  IF "ecma48" \in c.ioctx THEN {Ends(c, "abort")}
  ELSE StartCreate([typed EXCEPT !.ioctx = @ \cup {"ecma48"}])
       \cup Failing({Ends(typed, "error")})

\* cltelnet_create(): negotiation starts; the rest of the chain has to wait.
TelnetCreate(c) ==
  {Ends([c EXCEPT !.ioctx = @ \cup {"telnet"}], "ok")} \cup Failing({Ends(c, "error")})

\* io_end's create(), which is that of the layer before it.
Create(c) ==
  CASE io = "plain"  -> StartCreate(c)
    [] io = "ecma48" -> EcmaCreate(c)
    [] io = "telnet" -> TelnetCreate(c)

-----------------------------------------------------------------------------
Is(where) == status = where /\ ~aborted

\* cl_accept(); when it returns NULL there is no peer.
Accept ==
  /\ Is("none")
  /\ status' = "accepted"
  /\ UNCHANGED <<io, chain, consumed, buffer, handled, failed, aborted>>

\* cl_ready(), after which an application that is told of an error gives up.
Ready ==
  /\ Is("accepted")
  /\ \E o \in Create(chain) :
       /\ chain' = o.chain
       /\ status' = IF o.result = "error" THEN "given_up" ELSE "ready"
       /\ aborted' = (o.result = "abort")
  /\ UNCHANGED <<io, consumed, buffer, handled, failed>>

\* Mutant of Ttype: a second terminal type is taken, too.
Ttype_Again ==
  /\ Is("ready") /\ io = "telnet"
  /\ \E o \in StartCreate([chain EXCEPT !.ttype = TRUE, !.ioctx = @ \cup {"ecma48"}]) :
       /\ chain' = o.chain
       /\ failed' = (failed \/ o.result = "error")
       /\ aborted' = (o.result = "abort")
  /\ UNCHANGED <<status, io, consumed, buffer, handled>>

(***************************************************************************)
(* TELNET_EV_TTYPE with a name, the first one: later ones and empty ones   *)
(* change nothing.  What ready() meets is not handled, nor is a strdup()   *)
(* that returns NULL.                                                      *)
(***************************************************************************)
Ttype ==
  /\ Is("ready") /\ io = "telnet" /\ ~chain.ttype
  /\ \/ \E o \in EcmaCreate([chain EXCEPT !.ttype = TRUE]) :
          /\ chain' = o.chain
          /\ failed' = (failed \/ o.result = "error")
          /\ aborted' = (o.result = "abort")
     \/ /\ Failures
        /\ failed' = TRUE /\ aborted' = TRUE
        /\ UNCHANGED chain
  /\ UNCHANGED <<status, io, consumed, buffer, handled>>

\* TELNET_EV_TTYPE without a name, which is how libtelnet reports a client that
\* asks for the server's terminal type (SEND): the handler's assert fails.
TtypeSend ==
  /\ Is("ready") /\ io = "telnet"
  /\ status' = "asked"
  /\ aborted' = TRUE
  /\ UNCHANGED <<io, chain, consumed, buffer, handled, failed>>

-----------------------------------------------------------------------------
\* Mutant of Pushed: all of the input goes into termkey's buffer.
Pushed_All(n) == n

\* How many of n bytes termkey_push_bytes() takes.
Pushed(n) == IF n <= BufSz - Len(buffer) THEN n ELSE BufSz - Len(buffer)

\* Mutant of Keys: a key that fails stays in the buffer.
Keys_Retried(c, bytes) ==
  LET taken(k, kept, r) == [handled |-> handled \o SubSeq(bytes, 1, k),
                            buffer  |-> SubSeq(bytes, kept + 1, Len(bytes)), result |-> r]
  IN {taken(k, k, "ok") : k \in 0 .. Len(bytes)}
     \cup Failing({taken(k, k - 1, "error") : k \in 1 .. Len(bytes)})
     \cup (IF c.tctx THEN {} ELSE {taken(k, k, "abort") : k \in 1 .. Len(bytes)})

(***************************************************************************)
(* The loop of ecma48_recv() over the keys in "bytes": how many bytes have *)
(* been taken when it stops.  An escape sequence that has not ended stays  *)
(* behind, and there is no limit to its length; an error leaves all that   *)
(* follows for another call; and a key that prints something needs the     *)
(* terminal, by cl_printf()'s assert.                                      *)
(***************************************************************************)
Keys(c, bytes) ==
  LET taken(k, r) == [handled |-> handled \o SubSeq(bytes, 1, k),
                      buffer  |-> SubSeq(bytes, k + 1, Len(bytes)), result |-> r]
  IN {taken(k, "ok") : k \in 0 .. Len(bytes)}
     \cup Failing({taken(k, "error") : k \in 1 .. Len(bytes)})
     \cup (IF c.tctx THEN {} ELSE {taken(k, "abort") : k \in 1 .. Len(bytes)})

\* ecma48_recv() of the next n bytes; its context must be there, and room in
\* termkey's buffer: while it is full, every call is an error.
EcmaRecv(c, n) ==
  LET untouched(r) == {[handled |-> handled, buffer |-> buffer, result |-> r]} IN
  IF "ecma48" \notin c.ioctx THEN untouched("abort")
  ELSE IF Len(buffer) >= BufSz THEN untouched("error")
  ELSE Keys(c, buffer \o [k \in 1 .. Pushed(n) |-> consumed + k])

\* Mutant of EcmaRead: it returns len.
EcmaRead_ReturnsLen ==
  /\ Is("ready") /\ io = "ecma48"
  /\ \E n \in 1 .. MaxInput - consumed : \E k \in EcmaRecv(chain, n) :
       /\ handled' = k.handled /\ buffer' = k.buffer
       /\ aborted' = (k.result = "abort")
       /\ IF k.result = "error" THEN status' = "given_up" /\ UNCHANGED consumed
          ELSE consumed' = consumed + n /\ UNCHANGED status
  /\ UNCHANGED <<io, chain, failed>>

\* cl_read() with ecma48 on the wire: the application is told how much has
\* been consumed, or that there was an error.
EcmaRead ==
  /\ Is("ready") /\ io = "ecma48"
  /\ \E n \in 1 .. MaxInput - consumed : \E k \in EcmaRecv(chain, n) :
       /\ handled' = k.handled /\ buffer' = k.buffer
       /\ aborted' = (k.result = "abort")
       /\ IF k.result = "error" THEN status' = "given_up" /\ UNCHANGED consumed
          ELSE consumed' = consumed + Pushed(n) /\ UNCHANGED status
  /\ UNCHANGED <<io, chain, failed>>

\* Mutant of TelnetData: data does not make the chain ready.
TelnetData_NoReady ==
  /\ Is("ready") /\ io = "telnet"
  /\ \E n \in 1 .. MaxInput - consumed : \E k \in EcmaRecv(chain, n) :
       /\ handled' = k.handled /\ buffer' = k.buffer
       /\ aborted' = (k.result = "abort")
       /\ failed' = (failed \/ k.result = "error")
       /\ consumed' = consumed + n
  /\ UNCHANGED <<status, io, chain>>

\* Mutant of TelnetData: data is dropped until there is a terminal type.
TelnetData_WaitForTtype ==
  /\ Is("ready") /\ io = "telnet"
  /\ \E n \in 1 .. MaxInput - consumed :
       /\ IF ~chain.ttype THEN UNCHANGED <<handled, buffer, aborted, failed>>
          ELSE \E k \in EcmaRecv(chain, n) :
                 /\ handled' = k.handled /\ buffer' = k.buffer
                 /\ aborted' = (k.result = "abort")
                 /\ failed' = (failed \/ k.result = "error")
       /\ consumed' = consumed + n
  /\ UNCHANGED <<status, io, chain>>

(***************************************************************************)
(* TELNET_EV_DATA.  Data that comes before the client's terminal type is   *)
(* not held back: the type is asked of the application and the chain made  *)
(* ready first.  Errors of either call are dropped, and cltelnet_read()    *)
(* returns all of len whatever has become of it.                           *)
(***************************************************************************)
TelnetData ==
  /\ Is("ready") /\ io = "telnet"
  /\ \E n \in 1 .. MaxInput - consumed :
     \E o \in IF chain.ttype THEN {Ends(chain, "ok")}
              ELSE EcmaCreate([chain EXCEPT !.ttype = TRUE]) :
     \E k \in EcmaRecv(o.chain, n) :
       /\ chain' = o.chain
       /\ handled' = k.handled /\ buffer' = k.buffer
       /\ aborted' = ("abort" \in {o.result, k.result})
       /\ failed' = (failed \/ "error" \in {o.result, k.result})
       /\ consumed' = consumed + n
  /\ UNCHANGED <<status, io>>

(***************************************************************************)
(* cl_close(), by the application or from within a callback.  Without a    *)
(* terminal its assert fails; with one, term_destroy() is called for it a  *)
(* second time by start_destroy().                                         *)
(***************************************************************************)
Close ==
  /\ Is("accepted") \/ Is("ready") \/ Is("given_up")
  /\ status' = "closed"
  /\ aborted' = TRUE
  /\ UNCHANGED <<io, chain, consumed, buffer, handled, failed>>

Next ==
  \/ Accept \/ Ready \/ Close
  \/ Ttype \/ TtypeSend \/ TelnetData
  \/ EcmaRead

(***************************************************************************)
(* "This is required to be called after cl_accept()" (cl_ready() in        *)
(* include/cl/tree.h), and the user of a telnet client types something.    *)
(* Nothing is assumed of the client's answers.                             *)
(***************************************************************************)
Fairness == WF_vars(Ready) /\ WF_vars(TelnetData)

Spec == Init /\ [][Next]_vars /\ Fairness

-----------------------------------------------------------------------------
Delivered == handled \o buffer

\* The types; termkey's buffer never holds more than its size, however much
\* comes in at once and whatever of it stays behind.
PeerTypeOK ==
  /\ status \in {"none", "accepted", "ready", "given_up", "asked", "closed"}
  /\ io \in IOs
  /\ chain \in [ttype : BOOLEAN, tctx : BOOLEAN,
                ioctx : SUBSET {"ecma48", "telnet"}, motd : 0..2]
  /\ consumed \in 0 .. MaxInput
  /\ \A k \in DOMAIN Delivered : Delivered[k] \in 1 .. MaxInput
  /\ Len(buffer) <= BufSz
  /\ failed \in BOOLEAN /\ aborted \in BOOLEAN

(***************************************************************************)
(* cl_printf() only looks at p->tctx, and goes through every layer from    *)
(* there to the wire: once the terminal is there, so is each layer's       *)
(* context, whatever has failed on the way.                                *)
(***************************************************************************)
ChainIsConnected == chain.tctx => chain.ioctx = Contexts(io)

(***************************************************************************)
(* motd() is "called once", before the user's first key is looked at,      *)
(* whichever of the client's terminal type and its first data wins the     *)
(* race, and however often the client names its terminal.                  *)
(***************************************************************************)
MotdFirst ==
  [][chain'.motd # chain.motd => chain.motd = 0 /\ handled = <<>>]_vars

(***************************************************************************)
(* Keys reach getc_main() in the order they were typed, each at most once, *)
(* also after an error that left some of them in termkey's buffer.         *)
(***************************************************************************)
InputInOrder ==
  \A k \in 2 .. Len(Delivered) : Delivered[k - 1] < Delivered[k]

(***************************************************************************)
(* "Returns the number of bytes consumed" (cl_read() in cl/tree.h): the    *)
(* bytes it has said it has consumed have been taken as keys, or wait for  *)
(* the rest of one; those it has not, the application still has to pass.   *)
(***************************************************************************)
InputConserved ==
  status = "ready" /\ ~aborted => Delivered = [k \in 1 .. consumed |-> k]

\* The same, for peers that are not behind telnet.
InputConservedOnTty == io # "telnet" => InputConserved

(***************************************************************************)
(* No assert of the chain fails, in whatever order the client names its    *)
(* terminal and types, unless an error has been ignored before.  Two that  *)
(* do fail are left to Close and to TtypeSend: closing, and a client that  *)
(* asks for the terminal type itself.                                      *)
(***************************************************************************)
AssertsHold == aborted /\ status \notin {"asked", "closed"} => failed

(***************************************************************************)
(* A peer that is accepted is greeted in the end, even by a client that    *)
(* never names its terminal; unless there is an error, the client asks for *)
(* a terminal type, or the application closes it.                          *)
(***************************************************************************)
GreetedEventually ==
  status = "accepted" ~>
    (chain.motd > 0 \/ failed \/ status \in {"given_up", "asked", "closed"})
=============================================================================

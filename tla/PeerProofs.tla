----------------------------- MODULE PeerProofs -----------------------------
(***************************************************************************)
(* Proofs about a peer's life, for every size of termkey's buffer, every   *)
(* amount of input and every failure.                                      *)
(***************************************************************************)
EXTENDS Peer, TLAPS, SequenceTheorems

Layers == {"ecma48", "telnet"}
Chains == [ttype : BOOLEAN, tctx : BOOLEAN, ioctx : SUBSET Layers, motd : Nat]

\* A chain as creation leaves it: what has been created needs all that has been
\* created before, and motd() has been called if the terminal is there.
WellBuilt(c) ==
  /\ c \in Chains
  /\ c.ioctx \subseteq Contexts(io)
  /\ c.motd = IF c.tctx THEN 1 ELSE 0
  /\ c.tctx => c.ttype /\ c.ioctx = Contexts(io)
  /\ "ecma48" \in c.ioctx => c.ttype

NotStarted == [ttype |-> FALSE, tctx |-> FALSE, ioctx |-> {}, motd |-> 0]

\* What has been created when.
ChainInv ==
  /\ status \in {"none", "accepted", "ready", "given_up", "asked", "closed"}
  /\ io \in IOs
  /\ WellBuilt(chain)
  /\ failed \in BOOLEAN /\ aborted \in BOOLEAN
  /\ status \in {"none", "accepted"} => chain = NotStarted
  /\ status = "ready" /\ ~aborted =>
       /\ io # "plain"
       /\ io = "ecma48" => chain.tctx
       /\ io = "telnet" => "telnet" \in chain.ioctx
       /\ io = "telnet" /\ chain.ttype => chain.tctx \/ failed
  /\ aborted /\ status \notin {"asked", "closed"} => failed \/ io = "plain"

\* The bytes that have been delivered, and those that have been consumed.
InputInv ==
  /\ consumed \in 0 .. MaxInput
  /\ handled \in Seq(Nat) /\ buffer \in Seq(Nat)
  /\ Len(buffer) <= BufSz
  /\ \A k \in DOMAIN Delivered : Delivered[k] \in 1 .. MaxInput
  /\ InputInOrder
  /\ status = "ready" => \A k \in DOMAIN Delivered : Delivered[k] <= consumed
  /\ ~chain.ttype => handled = <<>> /\ buffer = <<>>
  /\ status \in {"none", "accepted"} => consumed = 0
  /\ InputConservedOnTty

PeerInv == ChainInv /\ InputInv

-----------------------------------------------------------------------------
\* A chain that waits for its terminal's type, with all layers further out.
Waiting(c) ==
  /\ c \in Chains
  /\ ~c.tctx /\ c.motd = 0
  /\ "ecma48" \notin c.ioctx /\ c.ioctx \cup {"ecma48"} = Contexts(io)

\* start_create() with all other layers there.
LEMMA StartBuilds ==
  ASSUME NEW c \in Chains, c.ttype, ~c.tctx, c.motd = 0, c.ioctx = Contexts(io),
         NEW o \in StartCreate(c)
  PROVE  /\ WellBuilt(o.chain) /\ o.chain.ttype /\ o.chain.ioctx = Contexts(io)
         /\ o.result \in {"ok", "error"}
         /\ o.result = "ok" => o.chain.tctx
<1> DEFINE up == [c EXCEPT !.tctx = TRUE, !.motd = @ + 1]
<1>1. /\ up \in Chains /\ up.ttype /\ up.tctx /\ up.motd = 1 /\ up.ioctx = c.ioctx
  <2>1. DOMAIN c = {"ttype", "tctx", "ioctx", "motd"}
    BY DEF Chains
  <2>2. /\ up.ttype = c.ttype /\ up.tctx = TRUE /\ up.ioctx = c.ioctx /\ up.motd = c.motd + 1
        /\ up = [f \in DOMAIN c |-> up[f]]
    BY <2>1, Zenon
  <2> HIDE DEF up
  <2>3. up = [ttype |-> c.ttype, tctx |-> TRUE, ioctx |-> c.ioctx, motd |-> c.motd + 1]
    BY <2>1, <2>2
  <2>4. QED
    BY <2>3 DEF Chains
<1>2. o \in {Ends(up, "ok"), Ends(c, "error"), Ends(up, "error")}
  <2>1. StartCreate(c) = {Ends(up, "ok")} \cup Failing({Ends(c, "error"), Ends(up, "error")})
    BY Zenon DEF StartCreate
  <2> HIDE DEF up
  <2>2. QED
    BY <2>1 DEF Failing
<1>3. /\ o.chain \in {up, c} /\ o.result \in {"ok", "error"}
      /\ o.result = "ok" => o.chain = up
  BY <1>2 DEF Ends
<1> HIDE DEF up
<1>4. QED
  BY <1>1, <1>3 DEF WellBuilt

\* ecma48_create() with the layers further out there.
LEMMA EcmaBuilds ==
  ASSUME NEW c, Waiting(c), NEW o \in EcmaCreate(c)
  PROVE  /\ WellBuilt(o.chain) /\ o.chain.ttype
         /\ c.ioctx \subseteq o.chain.ioctx
         /\ o.result \in {"ok", "error"}
         /\ o.result = "ok" => o.chain.tctx
<1> DEFINE typed == [c EXCEPT !.ttype = TRUE]
           own   == [typed EXCEPT !.ioctx = @ \cup {"ecma48"}]
<1>1. /\ typed \in Chains /\ typed.ttype /\ ~typed.tctx /\ typed.motd = 0
      /\ typed.ioctx = c.ioctx
  BY DEF Waiting, Chains
<1>2. /\ own \in Chains /\ own.ttype /\ ~own.tctx /\ own.motd = 0
      /\ own.ioctx = Contexts(io)
  BY <1>1 DEF Waiting, Chains, Layers
<1>3. o \in StartCreate(own) \/ o = Ends(typed, "error")
  BY DEF EcmaCreate, Waiting, Failing
<1> HIDE DEF typed, own
<1>4. CASE o \in StartCreate(own)
  BY <1>2, <1>4, StartBuilds DEF Waiting
<1>5. CASE o = Ends(typed, "error")
  <2>1. o.chain = typed /\ o.result = "error"
    BY <1>5 DEF Ends
  <2>2. QED
    BY <1>1, <2>1 DEF WellBuilt, Waiting
<1>6. QED
  BY <1>3, <1>4, <1>5

-----------------------------------------------------------------------------
\* Concatenation of sequences of bytes.
LEMMA ConcatBytes ==
  ASSUME NEW s \in Seq(Nat), NEW u \in Seq(Nat), NEW v \in Seq(Nat)
  PROVE  s \o u \in Seq(Nat) /\ (s \o u) \o v = s \o (u \o v)
  OBVIOUS

\* A sequence cut in two.
LEMMA CutInTwo ==
  ASSUME NEW s \in Seq(Nat), NEW k \in 0 .. Len(s)
  PROVE  /\ SubSeq(s, 1, k) \in Seq(Nat) /\ SubSeq(s, k + 1, Len(s)) \in Seq(Nat)
         /\ Len(SubSeq(s, k + 1, Len(s))) = Len(s) - k
         /\ SubSeq(s, 1, k) \o SubSeq(s, k + 1, Len(s)) = s
<1>1. Len(s) \in Nat /\ \A i \in 1 .. Len(s) : s[i] \in Nat
  BY LenProperties, ElementOfSeq
<1>2. SubSeq(s, 1, k) \in Seq(Nat)
  BY <1>1, SubSeqProperties
<1>3. /\ SubSeq(s, k + 1, Len(s)) \in Seq(Nat)
      /\ Len(SubSeq(s, k + 1, Len(s))) = Len(s) - k
  <2>1. /\ k + 1 \in Int /\ Len(s) \in Int /\ \A i \in k + 1 .. Len(s) : s[i] \in Nat
        /\ (IF k + 1 <= Len(s) THEN Len(s) - (k + 1) + 1 ELSE 0) = Len(s) - k
    BY <1>1
  <2>2. QED
    BY <2>1, SubSeqProperties
<1>4. SubSeq(s, 1, k) \o SubSeq(s, k + 1, Len(s)) = SubSeq(s, 1, Len(s))
  <2>1. 1 \in 1 .. Len(s) + 1 /\ k \in 1 - 1 .. Len(s) /\ Len(s) \in k .. Len(s)
    BY <1>1
  <2>2. QED
    BY <2>1, ConcatAdjacentSubSeq
<1>5. QED
  BY <1>2, <1>3, <1>4, SubSeqFull

\* ecma48_recv()'s loop moves bytes from the buffer to the keys and drops none,
\* and it aborts only without a terminal.
LEMMA KeysDeliver ==
  ASSUME NEW c, NEW bytes \in Seq(Nat), Len(bytes) <= BufSz,
         handled \in Seq(Nat), NEW r \in Keys(c, bytes)
  PROVE  /\ r.handled \in Seq(Nat) /\ r.buffer \in Seq(Nat)
         /\ r.handled \o r.buffer = handled \o bytes
         /\ Len(r.buffer) <= BufSz
         /\ r.result \in {"ok", "error", "abort"}
         /\ r.result = "abort" => ~c.tctx
<1> DEFINE taken(k, x) == [handled |-> handled \o SubSeq(bytes, 1, k),
                           buffer  |-> SubSeq(bytes, k + 1, Len(bytes)), result |-> x]
<1>1. \/ \E k \in 0 .. Len(bytes) : r = taken(k, "ok")
      \/ \E k \in 1 .. Len(bytes) : r = taken(k, "error")
      \/ ~c.tctx /\ \E k \in 1 .. Len(bytes) : r = taken(k, "abort")
  BY Zenon DEF Keys, Failing
<1> HIDE DEF taken
<1>2. PICK k \in 0 .. Len(bytes) :
        \/ r = taken(k, "ok")
        \/ r = taken(k, "error")
        \/ r = taken(k, "abort") /\ ~c.tctx
  <2>1. 1 .. Len(bytes) \subseteq 0 .. Len(bytes)
    OBVIOUS
  <2>2. QED
    BY <1>1, <2>1
<1> DEFINE front == SubSeq(bytes, 1, k)
           rest  == SubSeq(bytes, k + 1, Len(bytes))
<1>3. /\ r.handled = handled \o front /\ r.buffer = rest
      /\ r.result \in {"ok", "error", "abort"}
      /\ r.result = "abort" => ~c.tctx
  BY <1>2 DEF taken
<1>4. /\ front \in Seq(Nat) /\ rest \in Seq(Nat) /\ Len(rest) = Len(bytes) - k
      /\ front \o rest = bytes
  BY CutInTwo
<1> HIDE DEF front, rest
<1>5. handled \o front \in Seq(Nat) /\ (handled \o front) \o rest = handled \o (front \o rest)
  BY <1>4, ConcatBytes
<1>6. Len(rest) <= BufSz
  BY <1>4, SizesAreNat
<1>7. QED
  BY <1>3, <1>4, <1>5, <1>6

\* The next n bytes of the input.
Arriving(n) == [k \in 1 .. n |-> consumed + k]

LEMMA ArrivingType ==
  ASSUME consumed \in Nat, NEW n \in Nat
  PROVE  /\ Arriving(n) \in Seq(Nat) /\ Len(Arriving(n)) = n
         /\ \A k \in 1 .. n : Arriving(n)[k] = consumed + k
<1>1. Arriving(n) \in [1 .. n -> Nat]
  BY DEF Arriving
<1>2. Arriving(n) \in Seq(Nat)
  BY <1>1
<1>3. Len(Arriving(n)) = n
  BY <1>1, <1>2
<1>4. QED
  BY <1>2, <1>3 DEF Arriving

\* With room in its buffer, termkey takes some of the next bytes, and
\* ecma48_recv() adds them to what it has.
LEMMA RecvDelivers ==
  ASSUME InputInv, NEW c, "ecma48" \in c.ioctx, Len(buffer) < BufSz, NEW n \in 1 .. MaxInput - consumed,
         NEW r \in EcmaRecv(c, n)
  PROVE  /\ Pushed(n) \in 1 .. n
         /\ r.handled \in Seq(Nat) /\ r.buffer \in Seq(Nat)
         /\ r.handled \o r.buffer = Delivered \o Arriving(Pushed(n))
         /\ Len(r.buffer) <= BufSz
         /\ r.result \in {"ok", "error", "abort"}
         /\ r.result = "abort" => ~c.tctx
<1> DEFINE bytes == buffer \o Arriving(Pushed(n))
<1>1. /\ consumed \in Nat /\ handled \in Seq(Nat) /\ buffer \in Seq(Nat)
      /\ Len(buffer) \in Nat /\ n \in Nat /\ n > 0
  BY SizesAreNat DEF InputInv
<1>2. Pushed(n) \in 1 .. n /\ Len(buffer) + Pushed(n) <= BufSz
  BY <1>1, SizesAreNat DEF Pushed
<1>3. Arriving(Pushed(n)) \in Seq(Nat) /\ Len(Arriving(Pushed(n))) = Pushed(n)
  BY <1>1, <1>2, ArrivingType
<1>4. bytes \in Seq(Nat) /\ Len(bytes) <= BufSz
  BY <1>1, <1>2, <1>3, SizesAreNat
<1>5. r \in Keys(c, bytes)
  <2>1. ~(Len(buffer) >= BufSz)
    BY <1>1, SizesAreNat
  <2>2. QED
    BY <2>1, Zenon DEF EcmaRecv, Arriving
<1>6. handled \o bytes = Delivered \o Arriving(Pushed(n))
  BY <1>1, <1>3, ConcatBytes DEF Delivered
<1> HIDE DEF bytes
<1>7. QED
  BY <1>1, <1>2, <1>4, <1>5, <1>6, KeysDeliver

\* Without its context ecma48_recv() takes nothing, nor with a full buffer.
LEMMA RecvRefuses ==
  ASSUME NEW c, NEW n, NEW r \in EcmaRecv(c, n),
         "ecma48" \notin c.ioctx \/ Len(buffer) >= BufSz
  PROVE  /\ r.handled = handled /\ r.buffer = buffer
         /\ r.result = IF "ecma48" \in c.ioctx THEN "error" ELSE "abort"
<1>1. CASE "ecma48" \notin c.ioctx
  BY <1>1 DEF EcmaRecv
<1>2. CASE "ecma48" \in c.ioctx /\ Len(buffer) >= BufSz
  BY <1>2 DEF EcmaRecv
<1>3. QED
  BY <1>1, <1>2

\* A buffer that holds no more than its size is full, or has room.
LEMMA FullOrNot ==
  InputInv => Len(buffer) >= BufSz \/ Len(buffer) < BufSz
  BY SizesAreNat DEF InputInv

\* Numbers that follow those of an increasing sequence that are at most c.
Ascends(s, l, c) ==
  /\ \A k \in 1 .. l : s[k] \in 1 .. c
  /\ \A k \in 2 .. l : s[k - 1] < s[k]

Continues(d, s, l, c, n) ==
  /\ \A k \in 1 .. l : d[k] = s[k]
  /\ \A k \in 1 .. n : d[l + k] = c + k

LEMMA ExtendedInOrder ==
  ASSUME NEW c \in Nat, NEW n \in Nat, NEW l \in Nat,
         NEW s \in Seq(Nat), NEW d \in Seq(Nat),
         Ascends(s, l, c), Continues(d, s, l, c, n)
  PROVE  Ascends(d, l + n, c + n)
<1>1. /\ \A k \in 1 .. l : s[k] \in 1 .. c
      /\ \A k \in 2 .. l : s[k - 1] < s[k]
      /\ \A k \in 1 .. l : d[k] = s[k]
      /\ \A k \in 1 .. n : d[l + k] = c + k
  BY DEF Ascends, Continues
<1>2. \A k \in l + 1 .. l + n : d[k] = c + (k - l)
  <2>1. ASSUME NEW k \in l + 1 .. l + n PROVE d[k] = c + (k - l)
    <3>1. k - l \in 1 .. n /\ l + (k - l) = k
      OBVIOUS
    <3>2. d[l + (k - l)] = c + (k - l)
      BY <1>1, <3>1
    <3>3. QED
      BY <3>1, <3>2
  <2>2. QED
    BY <2>1
<1>3. ASSUME NEW k \in 1 .. l + n PROVE d[k] \in 1 .. c + n
  <2>1. CASE k \in 1 .. l
    <3>1. d[k] \in 1 .. c
      BY <1>1, <2>1
    <3>2. QED
      BY <3>1
  <2>2. CASE k \in l + 1 .. l + n
    <3>1. d[k] = c + (k - l)
      BY <1>2, <2>2
    <3>2. QED
      BY <2>2, <3>1
  <2>3. QED
    BY <2>1, <2>2
<1>4. ASSUME NEW k \in 2 .. l + n PROVE d[k - 1] < d[k]
  <2>1. CASE k \in 2 .. l
    <3>1. k - 1 \in 1 .. l /\ k \in 1 .. l
      BY <2>1
    <3>2. QED
      BY <1>1, <2>1, <3>1
  <2>2. CASE k \in l + 1 .. l + n /\ k - 1 \in 1 .. l
    <3>1. d[k] = c + (k - l) /\ d[k - 1] \in 1 .. c
      BY <1>1, <1>2, <2>2
    <3>2. QED
      BY <2>2, <3>1
  <2>3. CASE k \in l + 1 .. l + n /\ k - 1 \in l + 1 .. l + n
    <3>1. d[k] = c + (k - l) /\ d[k - 1] = c + (k - 1 - l)
      BY <1>2, <2>3
    <3>2. QED
      BY <3>1
  <2>4. QED
    BY <2>1, <2>2, <2>3
<1>5. QED
  BY <1>3, <1>4 DEF Ascends

\* The next bytes follow all that have been delivered.
LEMMA ArrivingFollows ==
  ASSUME InputInv, status = "ready", NEW n \in 1 .. MaxInput - consumed
  PROVE  LET d == Delivered \o Arriving(n) IN
         /\ d \in Seq(Nat)
         /\ \A k \in 1 .. Len(d) : d[k] \in 1 .. consumed + n
         /\ \A k \in 2 .. Len(d) : d[k - 1] < d[k]
         /\ Delivered = [k \in 1 .. consumed |-> k] => d = [k \in 1 .. consumed + n |-> k]
<1> DEFINE new == Arriving(n)
           d   == Delivered \o new
           l   == Len(Delivered)
<1>1. /\ consumed \in Nat /\ n \in Nat
      /\ Delivered \in Seq(Nat)
  BY SizesAreNat DEF InputInv, Delivered
<1>2. l \in Nat /\ DOMAIN Delivered = 1 .. l
  BY <1>1
<1>3. new \in Seq(Nat) /\ Len(new) = n /\ \A k \in 1 .. n : new[k] = consumed + k
  BY <1>1, ArrivingType
<1>4. \A k \in 1 .. l : Delivered[k] \in 1 .. consumed
  <2>1. \A k \in 1 .. l : Delivered[k] \in 1 .. MaxInput /\ Delivered[k] <= consumed
    BY <1>2, Zenon DEF InputInv
  <2>2. QED
    BY <1>1, <2>1
<1>5. \A k \in 2 .. l : Delivered[k - 1] < Delivered[k]
  BY <1>2 DEF InputInv, InputInOrder
<1>6. /\ d \in Seq(Nat) /\ Len(d) = l + n /\ DOMAIN d = 1 .. l + n
      /\ \A k \in 1 .. l : d[k] = Delivered[k]
      /\ \A k \in 1 .. n : d[l + k] = new[k]
  <2> HIDE DEF new
  <2>1. QED
    BY <1>1, <1>3
<1> HIDE DEF new, d, l
<1>7. \A k \in 1 .. n : d[l + k] = consumed + k
  BY <1>3, <1>6
<1>8. /\ \A k \in 1 .. l + n : d[k] \in 1 .. consumed + n
      /\ \A k \in 2 .. l + n : d[k - 1] < d[k]
  <2>1. Ascends(Delivered, l, consumed) /\ Continues(d, Delivered, l, consumed, n)
    BY <1>4, <1>5, <1>6, <1>7, Zenon DEF Ascends, Continues
  <2>2. Ascends(d, l + n, consumed + n)
    BY <1>1, <1>2, <1>6, <2>1, ExtendedInOrder
  <2>3. QED
    BY <2>2, Zenon DEF Ascends
<1>9. ASSUME Delivered = [k \in 1 .. consumed |-> k]
      PROVE  d = [k \in 1 .. consumed + n |-> k]
  <2>1. l = consumed
    <3>1. DOMAIN Delivered = 1 .. consumed
      BY <1>9
    <3>2. QED
      BY <1>1, <1>2, <3>1
  <2>2. \A k \in 1 .. consumed : d[k] = k
    BY <1>6, <1>9, <2>1
  <2>3. \A k \in consumed + 1 .. consumed + n : d[k] = k
    <3>1. ASSUME NEW k \in consumed + 1 .. consumed + n PROVE d[k] = k
      <4>1. k - consumed \in 1 .. n /\ consumed + (k - consumed) = k
        BY <1>1
      <4>2. d[consumed + (k - consumed)] = consumed + (k - consumed)
        BY <1>7, <2>1, <4>1
      <4>3. QED
        BY <4>1, <4>2
    <3>2. QED
      BY <3>1
  <2>4. \A k \in 1 .. consumed + n : d[k] = k
    BY <1>1, <2>2, <2>3
  <2>5. d \in [1 .. consumed + n -> Nat]
    BY <1>6, <2>1, LenProperties
  <2>6. QED
    BY <2>4, <2>5
<1>10. QED
  BY <1>6, <1>8, <1>9 DEF d, new

-----------------------------------------------------------------------------
\* What is delivered goes on with p more bytes.
Extends(p) == Delivered' = Delivered \o Arriving(p)

\* What a call of cl_read() leaves of the input, with p bytes taken of n.
LEMMA InputAdvances ==
  ASSUME InputInv, status = "ready", io' = io,
         NEW n \in 1 .. MaxInput - consumed, NEW p \in 1 .. n,
         handled' \in Seq(Nat), buffer' \in Seq(Nat), Len(buffer') <= BufSz,
         Extends(p),
         chain'.ttype,
         status' \in {"ready", "given_up"},
         consumed' \in {consumed, consumed + p, consumed + n},
         status' = "ready" => consumed' # consumed,
         io # "telnet" /\ status' = "ready" /\ ~aborted' =>
           ~aborted /\ consumed' = consumed + p
  PROVE  InputInv'
<1> DEFINE d == Delivered \o Arriving(p)
<1>1. p \in 1 .. MaxInput - consumed /\ consumed \in Nat /\ MaxInput \in Nat
      /\ consumed + n <= MaxInput /\ n \in Nat /\ p \in Nat /\ p <= n
  BY SizesAreNat DEF InputInv
<1>2. /\ d \in Seq(Nat)
      /\ \A k \in 1 .. Len(d) : d[k] \in 1 .. consumed + p
      /\ \A k \in 2 .. Len(d) : d[k - 1] < d[k]
      /\ Delivered = [k \in 1 .. consumed |-> k] => d = [k \in 1 .. consumed + p |-> k]
  BY <1>1, ArrivingFollows
<1>3. Delivered' = d
  BY DEF Extends
<1> HIDE DEF d
<1>4. consumed' \in 0 .. MaxInput
  BY <1>1
<1>5. \A k \in DOMAIN Delivered' : Delivered'[k] \in 1 .. MaxInput
  <2>1. ASSUME NEW k \in DOMAIN d PROVE d[k] \in 1 .. MaxInput
    <3>1. d[k] \in 1 .. consumed + p
      BY <1>2, LenProperties, Zenon
    <3>2. QED
      BY <1>1, <3>1
  <2>2. QED
    BY <1>3, <2>1, Zenon
<1>6. InputInOrder'
  BY <1>2, <1>3 DEF InputInOrder
<1>7. ASSUME status' = "ready"
      PROVE  \A k \in DOMAIN Delivered' : Delivered'[k] <= consumed'
  <2>1. consumed' \in Nat /\ consumed' >= consumed + p
    BY <1>1, <1>7
  <2>2. ASSUME NEW k \in DOMAIN d PROVE d[k] <= consumed'
    <3>1. d[k] \in 1 .. consumed + p
      BY <1>2, LenProperties, Zenon
    <3>2. QED
      BY <1>1, <2>1, <3>1
  <2>3. QED
    BY <1>3, <2>2, Zenon
<1>8. InputConservedOnTty'
  <2>1. ASSUME io # "telnet", status' = "ready", ~aborted'
        PROVE  Delivered' = [k \in 1 .. consumed' |-> k]
    <3>1. Delivered = [k \in 1 .. consumed |-> k]
      BY <2>1 DEF InputInv, InputConservedOnTty, InputConserved
    <3>2. QED
      BY <1>2, <1>3, <2>1, <3>1
  <2>2. QED
    BY <2>1 DEF InputConservedOnTty, InputConserved
<1>9. QED
  BY <1>4, <1>5, <1>6, <1>7, <1>8 DEF InputInv

\* The input is left alone, by an action that does not make the peer ready.
LEMMA InputKept ==
  ASSUME InputInv, UNCHANGED <<consumed, buffer, handled, io>>,
         chain.ttype => chain'.ttype,
         status' = status \/ status' \in {"given_up", "asked", "closed"},
         aborted => aborted'
  PROVE  InputInv'
<1>1. Delivered' = Delivered
  BY DEF Delivered
<1>2. InputInOrder'
  BY <1>1 DEF InputInv, InputInOrder
<1>3. InputConservedOnTty'
  BY <1>1 DEF InputInv, InputConservedOnTty, InputConserved
<1>4. QED
  BY <1>1, <1>2, <1>3 DEF InputInv

\* ecma48_recv() has taken nothing, whatever cl_read() says of it.
LEMMA InputRefused ==
  ASSUME InputInv, status = "ready", io' = io, UNCHANGED <<handled, buffer>>,
         NEW n \in 1 .. MaxInput - consumed,
         consumed' = consumed \/ consumed' = consumed + n,
         chain'.ttype,
         status' \in {"ready", "given_up"},
         io # "telnet" => status' # "ready"
  PROVE  InputInv'
<1>1. Delivered' = Delivered
  BY DEF Delivered
<1>2. /\ consumed' \in 0 .. MaxInput
      /\ \A j \in DOMAIN Delivered : Delivered[j] \in 1 .. MaxInput
      /\ status' = "ready" => \A j \in DOMAIN Delivered : Delivered[j] <= consumed'
  <2>1. /\ consumed \in Nat /\ n \in Nat /\ MaxInput \in Nat /\ consumed + n <= MaxInput
    BY SizesAreNat DEF InputInv
  <2>2. \A j \in DOMAIN Delivered : Delivered[j] \in 1 .. MaxInput /\ Delivered[j] <= consumed
    BY Zenon DEF InputInv
  <2>3. QED
    BY <2>1, <2>2
<1>3. InputInOrder'
  BY <1>1 DEF InputInv, InputInOrder
<1>4. InputConservedOnTty'
  BY DEF InputConservedOnTty, InputConserved
<1>5. QED
  BY <1>1, <1>2, <1>3, <1>4 DEF InputInv

\* A call of ecma48_recv() with room in the buffer, as an action.
LEMMA RecvExtends ==
  ASSUME InputInv, NEW c, "ecma48" \in c.ioctx, Len(buffer) < BufSz,
         NEW n \in 1 .. MaxInput - consumed,
         NEW r \in EcmaRecv(c, n), handled' = r.handled, buffer' = r.buffer
  PROVE  /\ Pushed(n) \in 1 .. n
         /\ handled' \in Seq(Nat) /\ buffer' \in Seq(Nat) /\ Len(buffer') <= BufSz
         /\ Extends(Pushed(n))
<1>1. /\ Pushed(n) \in 1 .. n
      /\ r.handled \in Seq(Nat) /\ r.buffer \in Seq(Nat) /\ Len(r.buffer) <= BufSz
      /\ r.handled \o r.buffer = Delivered \o Arriving(Pushed(n))
  BY RecvDelivers
<1>2. Delivered' = r.handled \o r.buffer
  BY DEF Delivered
<1>3. QED
  BY <1>1, <1>2 DEF Extends

-----------------------------------------------------------------------------
\* The protocols are three.
LEMMA IoCases == io \in IOs => io = "plain" \/ io = "ecma48" \/ io = "telnet"
  BY IOsAreKnown

\* cl_ready().
LEMMA ReadyKeeps ==
  ASSUME PeerInv, Ready
  PROVE  PeerInv'
<1>1. /\ chain = NotStarted /\ ~aborted /\ io' = io /\ failed' = failed
      /\ status = "accepted" /\ io \in IOs
  BY DEF PeerInv, ChainInv, Ready, Is
<1>2. PICK o \in Create(chain) :
        /\ chain' = o.chain
        /\ status' = IF o.result = "error" THEN "given_up" ELSE "ready"
        /\ aborted' = (o.result = "abort")
  BY DEF Ready
<1>3. /\ WellBuilt(o.chain)
      /\ o.result = "abort" => io = "plain"
      /\ o.result \notin {"abort", "error"} =>
           /\ io # "plain"
           /\ io = "ecma48" => o.chain.tctx
           /\ io = "telnet" => "telnet" \in o.chain.ioctx /\ ~o.chain.ttype
  <2>1. CASE io = "plain"
    <3>1. o = Ends(chain, "abort")
      BY <1>1, <2>1 DEF Create, StartCreate, NotStarted
    <3>2. QED
      BY <1>1, <2>1, <3>1 DEF Ends, PeerInv, ChainInv
  <2>2. CASE io = "ecma48"
    <3>1. Waiting(chain) /\ o \in EcmaCreate(chain)
      BY <1>1, <2>2 DEF Create, Waiting, NotStarted, Chains, Layers, Contexts
    <3>2. QED
      BY <2>2, <3>1, EcmaBuilds
  <2>3. CASE io = "telnet"
    <3> DEFINE up == [chain EXCEPT !.ioctx = @ \cup {"telnet"}]
    <3>1. up \in Chains /\ up.ioctx = {"telnet"} /\ ~up.ttype /\ ~up.tctx /\ up.motd = 0
      BY <1>1 DEF NotStarted, Chains, Layers
    <3> HIDE DEF up
    <3>2. o = Ends(up, "ok") \/ o = Ends(chain, "error")
      BY <2>3 DEF Create, TelnetCreate, Failing, up
    <3>3. WellBuilt(up)
      BY <2>3, <3>1 DEF WellBuilt, Contexts
    <3>4. QED
      BY <1>1, <2>3, <3>1, <3>2, <3>3 DEF Ends, PeerInv, ChainInv
  <2>4. QED
    BY <1>1, <2>1, <2>2, <2>3, IoCases
<1>4. ChainInv'
  <2>1. WellBuilt(chain)'
    BY <1>1, <1>2, <1>3 DEF WellBuilt
  <2>2. QED
    BY <1>1, <1>2, <1>3, <2>1 DEF ChainInv, PeerInv
<1>5. InputInv'
  <2>1. /\ consumed = 0 /\ handled = <<>> /\ buffer = <<>>
        /\ UNCHANGED <<consumed, handled, buffer>>
    BY <1>1 DEF Ready, PeerInv, InputInv, NotStarted
  <2>2. Delivered' = <<>> /\ Delivered = <<>>
    BY <2>1 DEF Delivered
  <2>3. InputInOrder'
    BY <2>2 DEF InputInOrder
  <2>4. InputConservedOnTty'
    BY <2>1, <2>2 DEF InputConservedOnTty, InputConserved
  <2>5. QED
    BY <1>2, <2>1, <2>2, <2>3, <2>4 DEF PeerInv, InputInv
<1>6. QED
  BY <1>4, <1>5 DEF PeerInv

\* A telnet peer's chain that has no terminal's type, as its handler has it
\* when it has set one.
LEMMA TelnetWaits ==
  ASSUME ChainInv, status = "ready", ~aborted, io = "telnet", ~chain.ttype
  PROVE  LET c == [chain EXCEPT !.ttype = TRUE] IN
         Waiting(c) /\ c.ioctx = chain.ioctx /\ "telnet" \in c.ioctx
<1> DEFINE c == [chain EXCEPT !.ttype = TRUE]
<1>1. /\ chain \in Chains /\ chain.ioctx \subseteq {"ecma48", "telnet"}
      /\ "telnet" \in chain.ioctx /\ "ecma48" \notin chain.ioctx
      /\ ~chain.tctx /\ chain.motd = 0
  BY DEF ChainInv, WellBuilt, Contexts
<1>2. c \in Chains /\ c.ioctx = chain.ioctx /\ c.tctx = chain.tctx /\ c.motd = chain.motd
  BY <1>1 DEF Chains
<1>3. c.ioctx \cup {"ecma48"} = Contexts(io)
  BY <1>1, <1>2 DEF Contexts
<1> HIDE DEF c
<1>4. QED
  BY <1>1, <1>2, <1>3 DEF Waiting, c

\* What the handler's events need of a chain to keep the invariant.
LEMMA TelnetKeeps ==
  ASSUME ChainInv, status = "ready", ~aborted, io = "telnet",
         UNCHANGED <<status, io>>,
         WellBuilt(chain'), "telnet" \in chain'.ioctx,
         failed' \in BOOLEAN, aborted' \in BOOLEAN,
         aborted' => failed',
         chain'.ttype => chain'.tctx \/ failed'
  PROVE  ChainInv'
<1>1. WellBuilt(chain)'
  BY DEF WellBuilt
<1>2. QED
  BY <1>1 DEF ChainInv

\* TELNET_EV_TTYPE.
LEMMA TtypeKeeps ==
  ASSUME PeerInv, Ttype
  PROVE  PeerInv'
<1>1. /\ status = "ready" /\ ~aborted /\ io = "telnet" /\ ~chain.ttype
      /\ UNCHANGED <<status, io, consumed, buffer, handled>>
      /\ ChainInv /\ InputInv
  BY DEF Ttype, Is, PeerInv
<1>2. InputInv'
  BY <1>1, InputKept
<1>3. CASE failed' = TRUE /\ aborted' = TRUE /\ UNCHANGED chain
  BY <1>1, <1>2, <1>3, TelnetKeeps DEF ChainInv, WellBuilt, PeerInv
<1>4. CASE \E o \in EcmaCreate([chain EXCEPT !.ttype = TRUE]) :
             /\ chain' = o.chain
             /\ failed' = (failed \/ o.result = "error")
             /\ aborted' = (o.result = "abort")
  <2> DEFINE c == [chain EXCEPT !.ttype = TRUE]
  <2>1. Waiting(c) /\ "telnet" \in c.ioctx
    BY <1>1, TelnetWaits
  <2>2. PICK o \in EcmaCreate(c) :
             /\ chain' = o.chain
             /\ failed' = (failed \/ o.result = "error")
             /\ aborted' = (o.result = "abort")
    BY <1>4
  <2> HIDE DEF c
  <2>3. /\ WellBuilt(o.chain) /\ "telnet" \in o.chain.ioctx
        /\ o.result \in {"ok", "error"} /\ (o.result = "ok" => o.chain.tctx)
    BY <2>1, EcmaBuilds
  <2>4. failed \in BOOLEAN
    BY <1>1 DEF ChainInv
  <2>5. ChainInv'
    BY <1>1, <2>2, <2>3, <2>4, TelnetKeeps
  <2>6. QED
    BY <1>2, <2>5 DEF PeerInv
<1>5. QED
  BY <1>3, <1>4 DEF Ttype

\* TELNET_EV_DATA.
LEMMA TelnetDataKeeps ==
  ASSUME PeerInv, TelnetData
  PROVE  PeerInv'
<1> DEFINE c == [chain EXCEPT !.ttype = TRUE]
<1>1. /\ status = "ready" /\ ~aborted /\ io = "telnet"
      /\ UNCHANGED <<status, io>>
      /\ ChainInv /\ InputInv /\ failed \in BOOLEAN
  BY DEF TelnetData, Is, PeerInv, ChainInv
<1> DEFINE Read(n, o, k) ==
        /\ chain' = o.chain
        /\ handled' = k.handled /\ buffer' = k.buffer
        /\ aborted' = ("abort" \in {o.result, k.result})
        /\ failed' = (failed \/ "error" \in {o.result, k.result})
        /\ consumed' = consumed + n
<1>a. PICK n \in 1 .. MaxInput - consumed :
        \E o \in IF chain.ttype THEN {Ends(chain, "ok")} ELSE EcmaCreate(c) :
          \E k \in EcmaRecv(o.chain, n) : Read(n, o, k)
  BY DEF TelnetData
<1>b. PICK o \in IF chain.ttype THEN {Ends(chain, "ok")} ELSE EcmaCreate(c) :
        \E k \in EcmaRecv(o.chain, n) : Read(n, o, k)
  BY <1>a
<1>2. PICK k \in EcmaRecv(o.chain, n) : Read(n, o, k)
  BY <1>b
<1>3. /\ WellBuilt(o.chain) /\ o.chain.ttype /\ "telnet" \in o.chain.ioctx
      /\ o.result # "abort"
      /\ o.chain.tctx \/ failed \/ o.result = "error"
  <2>1. CASE chain.ttype
    <3>1. o.chain = chain /\ o.result = "ok"
      BY <2>1 DEF Ends
    <3>2. QED
      BY <1>1, <2>1, <3>1 DEF ChainInv
  <2>2. CASE ~chain.ttype
    <3>1. Waiting(c) /\ "telnet" \in c.ioctx
      BY <1>1, <2>2, TelnetWaits
    <3>2. o \in EcmaCreate(c)
      BY <2>2
    <3> HIDE DEF c
    <3>3. QED
      BY <3>1, <3>2, EcmaBuilds
  <2>3. QED
    BY <2>1, <2>2
<1> HIDE DEF c
<1>4. o.chain.tctx => "ecma48" \in o.chain.ioctx
  BY <1>1, <1>3 DEF WellBuilt, Contexts
<1>5. k.result = "abort" => ~o.chain.tctx
  <2>1. CASE "ecma48" \notin o.chain.ioctx
    BY <1>4, <2>1
  <2>2. CASE "ecma48" \in o.chain.ioctx /\ Len(buffer) >= BufSz
    BY <2>2, RecvRefuses
  <2>3. CASE "ecma48" \in o.chain.ioctx /\ Len(buffer) < BufSz
    BY <1>1, <2>3, RecvDelivers
  <2>4. QED
    BY <1>1, <2>1, <2>2, <2>3, FullOrNot
<1>6. ChainInv'
  <2>1. failed' \in BOOLEAN /\ aborted' \in BOOLEAN
    BY <1>1, <1>2
  <2>2. (aborted' => failed') /\ (chain'.tctx \/ failed')
    BY <1>2, <1>3, <1>5
  <2>3. QED
    BY <1>1, <1>2, <1>3, <2>1, <2>2, TelnetKeeps
<1>7. InputInv'
  <2>1. CASE "ecma48" \in o.chain.ioctx /\ Len(buffer) < BufSz
    <3>1. /\ Pushed(n) \in 1 .. n
          /\ handled' \in Seq(Nat) /\ buffer' \in Seq(Nat) /\ Len(buffer') <= BufSz
          /\ Extends(Pushed(n))
      BY <1>1, <1>2, <2>1, RecvExtends
    <3>2. consumed \in Nat /\ n \in Nat /\ n > 0
      BY <1>1, SizesAreNat DEF InputInv
    <3>3. consumed' # consumed
      BY <1>2, <3>2
    <3>4. QED
      BY <1>1, <1>2, <1>3, <3>1, <3>3, InputAdvances
  <2>2. CASE "ecma48" \notin o.chain.ioctx \/ Len(buffer) >= BufSz
    <3>1. UNCHANGED <<handled, buffer>>
      BY <1>2, <2>2, RecvRefuses
    <3>2. QED
      BY <1>1, <1>2, <1>3, <3>1, InputRefused
  <2>3. QED
    BY <1>1, <2>1, <2>2, FullOrNot
<1>8. QED
  BY <1>6, <1>7 DEF PeerInv

\* cl_read() on a terminal.
LEMMA EcmaReadKeeps ==
  ASSUME PeerInv, EcmaRead
  PROVE  PeerInv'
<1>1. /\ status = "ready" /\ ~aborted /\ io = "ecma48"
      /\ UNCHANGED <<io, chain, failed>>
      /\ ChainInv /\ InputInv
      /\ chain.tctx /\ chain.ttype /\ "ecma48" \in chain.ioctx
  BY DEF EcmaRead, Is, PeerInv, ChainInv, WellBuilt, Contexts
<1> DEFINE Read(n, k) ==
        /\ handled' = k.handled /\ buffer' = k.buffer
        /\ aborted' = (k.result = "abort")
        /\ IF k.result = "error" THEN status' = "given_up" /\ UNCHANGED consumed
           ELSE consumed' = consumed + Pushed(n) /\ UNCHANGED status
<1>a. PICK n \in 1 .. MaxInput - consumed : \E k \in EcmaRecv(chain, n) : Read(n, k)
  BY DEF EcmaRead
<1>2. PICK k \in EcmaRecv(chain, n) : Read(n, k)
  BY <1>a
<1>3. ASSUME Len(buffer) < BufSz
      PROVE  /\ Pushed(n) \in 1 .. n
             /\ handled' \in Seq(Nat) /\ buffer' \in Seq(Nat) /\ Len(buffer') <= BufSz
             /\ Extends(Pushed(n))
             /\ k.result # "abort"
  BY <1>1, <1>2, <1>3, RecvExtends, RecvDelivers
<1>4. ASSUME Len(buffer) >= BufSz
      PROVE  UNCHANGED <<handled, buffer>> /\ k.result = "error"
  BY <1>1, <1>2, <1>4, RecvRefuses
<1>5. ChainInv'
  <2>1. WellBuilt(chain)'
    BY <1>1 DEF ChainInv, WellBuilt
  <2>2. k.result # "abort"
    BY <1>1, <1>3, <1>4, FullOrNot
  <2>3. QED
    BY <1>1, <1>2, <2>1, <2>2 DEF ChainInv
<1>6. InputInv'
  <2>1. CASE Len(buffer) < BufSz
    <3>1. consumed \in Nat /\ Pushed(n) \in Nat /\ Pushed(n) > 0
      BY <1>1, <1>3, <2>1, SizesAreNat DEF InputInv
    <3>2. status' = "ready" => consumed' = consumed + Pushed(n) /\ consumed' # consumed
      BY <1>1, <1>2, <3>1
    <3>3. status' \in {"ready", "given_up"}
      BY <1>1, <1>2
    <3>4. consumed' \in {consumed, consumed + Pushed(n), consumed + n}
      BY <1>2
    <3>5. QED
      BY <1>1, <1>3, <2>1, <3>2, <3>3, <3>4, InputAdvances
  <2>2. CASE Len(buffer) >= BufSz
    <3>1. UNCHANGED <<handled, buffer>> /\ status' = "given_up" /\ UNCHANGED consumed
      BY <1>2, <1>4, <2>2
    <3>2. QED
      BY <1>1, <3>1, InputRefused
  <2>3. QED
    BY <1>1, <2>1, <2>2, FullOrNot
<1>7. QED
  BY <1>5, <1>6 DEF PeerInv

-----------------------------------------------------------------------------
\* Every step keeps the invariant.
LEMMA PeerStep ==
  ASSUME PeerInv, [Next]_vars
  PROVE  PeerInv'
<1>1. CASE Accept
  <2>1. ChainInv'
    BY <1>1 DEF Accept, Is, PeerInv, ChainInv, WellBuilt
  <2>2. status = "none" /\ consumed = 0 /\ Delivered' = Delivered
    BY <1>1 DEF Accept, Is, PeerInv, InputInv, Delivered
  <2>3. InputInOrder'
    BY <2>2 DEF PeerInv, InputInv, InputInOrder
  <2>4. InputInv'
    BY <1>1, <2>2, <2>3
       DEF Accept, PeerInv, InputInv, InputConservedOnTty, InputConserved
  <2>5. QED
    BY <2>1, <2>4 DEF PeerInv
<1>2. CASE Ready
  BY <1>2, ReadyKeeps
<1>3. CASE Close
  <2>1. ChainInv'
    BY <1>3 DEF Close, PeerInv, ChainInv, WellBuilt
  <2>2. InputInv'
    BY <1>3, InputKept DEF Close, PeerInv
  <2>3. QED
    BY <2>1, <2>2 DEF PeerInv
<1>4. CASE Ttype
  BY <1>4, TtypeKeeps
<1>5. CASE TelnetData
  BY <1>5, TelnetDataKeeps
<1>6. CASE EcmaRead
  BY <1>6, EcmaReadKeeps
<1>7. CASE TtypeSend
  <2>1. ChainInv'
    BY <1>7 DEF TtypeSend, PeerInv, ChainInv, WellBuilt
  <2>2. InputInv'
    BY <1>7, InputKept DEF TtypeSend, PeerInv
  <2>3. QED
    BY <2>1, <2>2 DEF PeerInv
<1>8. CASE UNCHANGED vars
  <2>1. ChainInv'
    BY <1>8 DEF vars, PeerInv, ChainInv, WellBuilt
  <2>2. InputInv'
    BY <1>8, InputKept DEF vars, PeerInv
  <2>3. QED
    BY <2>1, <2>2 DEF PeerInv
<1>9. QED
  BY <1>1, <1>2, <1>3, <1>4, <1>5, <1>6, <1>7, <1>8 DEF Next

LEMMA PeerInitInv == Init => PeerInv
<1>1. ASSUME Init PROVE PeerInv
  <2>1. WellBuilt(chain)
    BY <1>1 DEF Init, WellBuilt, Chains
  <2>2. chain = NotStarted
    BY <1>1 DEF Init, NotStarted
  <2>3. ChainInv
    BY <1>1, <2>1, <2>2 DEF Init, ChainInv
  <2>4. Delivered = <<>> /\ Len(buffer) <= BufSz
    BY <1>1, SizesAreNat DEF Init, Delivered
  <2>5. InputInv
    BY <1>1, <2>4, SizesAreNat
       DEF Init, InputInv, InputInOrder, InputConservedOnTty, InputConserved
  <2>6. QED
    BY <2>3, <2>5 DEF PeerInv
<1>2. QED
  BY <1>1

(***************************************************************************)
(* Whatever fails, the peer's state is well typed, with no more in         *)
(* termkey's buffer than its size, and the terminal is only there when all *)
(* layers are.                                                             *)
(***************************************************************************)
THEOREM PeerIsConnected == Spec => [](PeerTypeOK /\ ChainIsConnected)
<1>1. PeerInv => PeerTypeOK /\ ChainIsConnected
  <2>1. ASSUME PeerInv PROVE PeerTypeOK
    <3>1. chain \in [ttype : BOOLEAN, tctx : BOOLEAN, ioctx : SUBSET {"ecma48", "telnet"},
                     motd : 0..2]
      BY <2>1 DEF PeerInv, ChainInv, WellBuilt, Chains, Layers
    <3>2. QED
      BY <2>1, <3>1 DEF PeerInv, ChainInv, InputInv, PeerTypeOK
  <2>2. QED
    BY <2>1 DEF PeerInv, ChainInv, WellBuilt, ChainIsConnected
<1>2. QED
  BY <1>1, PeerInitInv, PeerStep, PTL DEF Spec

(***************************************************************************)
(* Keys are delivered in the order they were typed and at most once; and   *)
(* on a terminal, none that cl_read() has said was consumed is lost.       *)
(***************************************************************************)
THEOREM PeerInput == Spec => [](InputInOrder /\ InputConservedOnTty)
<1>1. PeerInv => InputInOrder /\ InputConservedOnTty
  BY DEF PeerInv, InputInv
<1>2. QED
  BY <1>1, PeerInitInv, PeerStep, PTL DEF Spec

(***************************************************************************)
(* With terminals and telnet clients no assert of the chain fails but      *)
(* after an error that has been ignored, on closing, or when the client    *)
(* asks for the terminal type.                                             *)
(***************************************************************************)
THEOREM PeerAsserts ==
  ASSUME "plain" \notin IOs
  PROVE  Spec => []AssertsHold
<1>1. PeerInv => AssertsHold
  BY DEF PeerInv, ChainInv, AssertsHold
<1>2. QED
  BY <1>1, PeerInitInv, PeerStep, PTL DEF Spec

(***************************************************************************)
(* The message of the day is asked for at most once, before any key has    *)
(* been handled.                                                           *)
(***************************************************************************)
THEOREM PeerGreeting == Spec => MotdFirst
<1>1. PeerInv /\ [Next]_vars =>
        [chain'.motd # chain.motd => chain.motd = 0 /\ handled = <<>>]_vars
  <2>1. ASSUME PeerInv, Next, chain'.motd # chain.motd
        PROVE  chain.motd = 0 /\ handled = <<>>
    <3>1. ~chain.ttype => chain.motd = 0 /\ handled = <<>>
      BY <2>1 DEF PeerInv, ChainInv, WellBuilt, InputInv
    <3>2. ~chain.ttype
      <4>1. CASE Ready
        BY <4>1, <2>1 DEF Ready, Is, PeerInv, ChainInv, NotStarted
      <4>2. CASE Ttype
        BY <4>2 DEF Ttype
      <4>3. CASE TelnetData
        BY <4>3, <2>1 DEF TelnetData, Ends
      <4>4. QED
        BY <2>1, <4>1, <4>2, <4>3 DEF Next, Accept, Close, TtypeSend, EcmaRead
    <3>3. QED
      BY <3>1, <3>2
  <2>2. QED
    BY <2>1
<1>2. QED
  BY <1>1, PeerInitInv, PeerStep, PTL DEF Spec, MotdFirst

(***************************************************************************)
(* cl_read()'s result is true for peers that are not behind telnet: what   *)
(* it has said is consumed has been taken as keys, or waits for the rest   *)
(* of one, also when a key could not be handled or the buffer was full.    *)
(***************************************************************************)
COROLLARY PeerInputConserved == Spec => []InputConservedOnTty
  BY PeerInput, PTL

(***************************************************************************)
(* The types: in particular termkey's buffer never holds more than it has  *)
(* room for, whatever fails.                                               *)
(***************************************************************************)
COROLLARY PeerTypes == Spec => []PeerTypeOK
  BY PeerIsConnected, PTL
=============================================================================

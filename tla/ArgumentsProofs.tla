--------------------------- MODULE ArgumentsProofs ---------------------------
(***************************************************************************)
(* Proofs about the argument loop of parsecommand(), for every line over   *)
(* every set of bytes.                                                     *)
(***************************************************************************)
EXTENDS Arguments, LexerProofs, FiniteSetTheorems

\* The tokens lie on the part of the line before n, in order and apart, and
\* what is not of a token is whitespace.
Extent(t) == t.start .. t.end - 1
Tiles(ts, s, n) ==
  /\ ts \in Seq(Token)
  /\ \A k \in 1 .. Len(ts) :
       1 <= ts[k].start /\ ts[k].start < ts[k].end /\ ts[k].end <= n
  /\ \A k \in 1 .. Len(ts) : \A j \in 1 .. k - 1 : ts[j].end <= ts[k].start
  /\ \A i \in 1 .. n - 1 : IsSpace(At(s, i)) \/ \E k \in 1 .. Len(ts) : i \in Extent(ts[k])

ArgumentsInv ==
  /\ TypeOK
  /\ dst <= Len(mem) + 1
  /\ Tiles(toks, line, src)
  /\ Needed(toks) \in Nat /\ Needed(toks) <= 2 * (src - 1)

-----------------------------------------------------------------------------
\* The sums that Needed adds up.
Sums(sum, ts) ==
  sum = [n \in 0 .. Len(ts) |-> IF n = 0 THEN 0 ELSE sum[n - 1] + Len(ts[n].text) + 1]

LEMMA TextLength ==
  ASSUME NEW ts \in Seq(Token), NEW n \in 1 .. Len(ts)
  PROVE  Len(ts[n].text) \in Nat
<1>1. ts[n] \in Token
  OBVIOUS
<1>2. ts[n].text \in Text
  BY <1>1 DEF Token
<1>3. QED
  BY <1>2 DEF Text

LEMMA NeededIs ==
  ASSUME NEW ts \in Seq(Token)
  PROVE  \E sum : Sums(sum, ts) /\ Needed(ts) = sum[Len(ts)]
<1>1. PICK L \in Nat : L = Len(ts)
  OBVIOUS
<1> DEFINE step == [n \in Nat |-> [v \in Nat |->
                      IF n < L THEN v + Len(ts[n + 1].text) + 1 ELSE v]]
<1>2. step \in Steps(Nat)
  <2>1. ASSUME NEW n \in Nat, n < L PROVE Len(ts[n + 1].text) \in Nat
    BY <1>1, <2>1, TextLength
  <2>2. QED
    BY <2>1 DEF Steps
<1>3. PICK f : Follows(f, Nat, 0, step)
  <2> HIDE DEF step
  <2>1. QED
    BY <1>2, PrimitiveRecursion
<1>4. f \in [Nat -> Nat] /\ f[0] = 0 /\ \A n \in Nat : f[n + 1] = step[n][f[n]]
  BY <1>3 DEF Follows
<1> DEFINE g == [n \in 0 .. L |-> f[n]]
<1>5. ASSUME NEW n \in 1 .. L PROVE f[n] = f[n - 1] + Len(ts[n].text) + 1
  <2>1. PICK m \in Nat : m = n - 1 /\ n = m + 1 /\ m < L
    BY <1>1
  <2>2. f[m + 1] = f[m] + Len(ts[m + 1].text) + 1
    BY <1>4, <2>1
  <2>3. QED
    BY <2>1, <2>2
<1>6. Sums(g, ts)
  <2>1. ASSUME NEW n \in 0 .. L
        PROVE  g[n] = IF n = 0 THEN 0 ELSE g[n - 1] + Len(ts[n].text) + 1
    <3>1. CASE n = 0
      BY <1>4, <3>1
    <3>2. CASE n # 0
      <4>1. n \in 1 .. L /\ n - 1 \in 0 .. L
        BY <3>2
      <4>2. g[n] = f[n] /\ g[n - 1] = f[n - 1]
        BY <4>1
      <4>3. QED
        BY <1>5, <3>2, <4>1, <4>2
    <3>3. QED
      BY <3>1, <3>2
  <2>2. QED
    BY <1>1, <2>1 DEF Sums
<1> HIDE DEF g
<1>7. QED
  BY <1>6, Zenon DEF Sums, Needed

\* Lists that begin alike have the same sums there.
LEMMA SumsAgree ==
  ASSUME NEW ts \in Seq(Token), NEW us \in Seq(Token), NEW a, NEW b,
         Sums(a, ts), Sums(b, us), NEW n \in 0 .. Len(ts), n <= Len(us),
         \A k \in 1 .. n : ts[k] = us[k]
  PROVE  a[n] = b[n] /\ a[n] \in Nat
<1> DEFINE Same == {k \in Nat : k <= n => a[k] = b[k] /\ a[k] \in Nat}
<1>1. 0 \in Same
  BY DEF Sums
<1>2. ASSUME NEW k \in Nat, k \in Same PROVE k + 1 \in Same
  <2>1. SUFFICES ASSUME k + 1 <= n PROVE a[k + 1] = b[k + 1] /\ a[k + 1] \in Nat
    OBVIOUS
  <2>2. PICK m \in 1 .. n : m = k + 1 /\ m - 1 = k
    BY <2>1
  <2>3. Len(ts[m].text) \in Nat /\ ts[m] = us[m]
    BY TextLength
  <2>4. a[m] = a[m - 1] + Len(ts[m].text) + 1 /\ b[m] = b[m - 1] + Len(us[m].text) + 1
    <3>1. m \in 0 .. Len(ts) /\ m \in 0 .. Len(us) /\ m # 0
      OBVIOUS
    <3>2. QED
      BY <3>1 DEF Sums
  <2>5. a[k] = b[k] /\ a[k] \in Nat
    BY <1>2, <2>1
  <2>6. QED
    BY <2>2, <2>3, <2>4, <2>5
<1> HIDE DEF Same
<1>3. \A k \in Nat : k \in Same
  BY <1>1, <1>2, Induction
<1>4. QED
  BY <1>3 DEF Same

\* One more token needs its text and a terminator more.
LEMMA NeededAppend ==
  ASSUME NEW ts \in Seq(Token), NEW t \in Token
  PROVE  /\ Needed(ts) \in Nat
         /\ Needed(Append(ts, t)) = Needed(ts) + Len(t.text) + 1
<1> DEFINE us == Append(ts, t)
<1>1. PICK L \in Nat : L = Len(ts)
  OBVIOUS
<1>2. us \in Seq(Token) /\ Len(us) = L + 1 /\ us[L + 1] = t /\ \A k \in 1 .. L : us[k] = ts[k]
  BY <1>1
<1> HIDE DEF us
<1>3. PICK a : Sums(a, ts) /\ Needed(ts) = a[L]
  BY <1>1, NeededIs
<1>4. PICK b : Sums(b, us) /\ Needed(us) = b[L + 1]
  BY <1>2, NeededIs
<1>5. a[L] = b[L] /\ a[L] \in Nat
  <2>1. L \in 0 .. Len(ts) /\ L <= Len(us) /\ \A k \in 1 .. L : ts[k] = us[k]
    BY <1>1, <1>2
  <2>2. QED
    BY <1>2, <1>3, <1>4, <2>1, SumsAgree
<1>6. b[L + 1] = b[L] + Len(us[L + 1].text) + 1
  <2>1. L + 1 \in 0 .. Len(us) /\ L + 1 # 0 /\ (L + 1) - 1 = L
    BY <1>2
  <2>2. QED
    BY <1>4, <2>1 DEF Sums
<1>7. QED
  BY <1>2, <1>3, <1>4, <1>5, <1>6 DEF us

LEMMA NeededOfNone == Needed(<<>>) = 0
<1>1. PICK a : Sums(a, <<>>) /\ Needed(<<>>) = a[Len(<<>>)]
  <2>1. <<>> \in Seq(Token)
    OBVIOUS
  <2>2. QED
    BY <2>1, NeededIs
<1>2. QED
  BY <1>1 DEF Sums

-----------------------------------------------------------------------------
\* What is written stays a string of bytes, and what was written is not cut.
LEMMA OverwriteType ==
  ASSUME NEW m \in Seq(Byte), NEW t \in Seq(Byte), NEW i \in 1 .. Len(m) + 1
  PROVE  /\ Overwrite(m, i, t) \in Seq(Byte)
         /\ Len(m) <= Len(Overwrite(m, i, t))
<1> DEFINE last == i + Len(t) - 1
           top == Max({Len(m), last})
<1>1. Len(m) \in Nat /\ Len(t) \in Nat /\ last \in Nat
  OBVIOUS
<1>2. top \in Nat /\ Len(m) <= top /\ last <= top /\ (top = Len(m) \/ top = last)
  <2>1. \E x \in {Len(m), last} : \A y \in {Len(m), last} : x >= y
    BY <1>1
  <2>2. top \in {Len(m), last} /\ \A y \in {Len(m), last} : top >= y
    BY <2>1 DEF Max
  <2>3. QED
    BY <1>1, <2>2
<1> HIDE DEF top
<1>3. ASSUME NEW k \in 1 .. top
      PROVE  (IF k \in i .. last THEN t[k - i + 1] ELSE m[k]) \in Byte
  <2>1. CASE k \in i .. last
    <3>1. k - i + 1 \in 1 .. Len(t)
      BY <1>1, <2>1
    <3>2. QED
      BY <2>1, <3>1
  <2>2. CASE k \notin i .. last
    <3>1. k \in 1 .. Len(m)
      BY <1>1, <1>2, <2>2
    <3>2. QED
      BY <2>2, <3>1
  <2>3. QED
    BY <2>1, <2>2
<1>4. Overwrite(m, i, t) = [k \in 1 .. top |-> IF k \in i .. last THEN t[k - i + 1] ELSE m[k]]
  BY DEF Overwrite, top
<1> HIDE DEF last
<1>5. Overwrite(m, i, t) \in Seq(Byte) /\ Len(Overwrite(m, i, t)) = top
  BY <1>2, <1>3, <1>4
<1>6. QED
  BY <1>2, <1>5

\* A token that is found behind the others, after whitespace only.
LEMMA TilesAppend ==
  ASSUME NEW s \in Text, NEW ts, NEW n \in 1 .. Len(s) + 1, NEW t \in Token,
         Tiles(ts, s, n),
         t.start \in n .. Len(s), t.end \in t.start + 1 .. Len(s) + 1,
         \A k \in n .. t.start - 1 : IsSpace(s[k])
  PROVE  Tiles(Append(ts, t), s, t.end)
<1> DEFINE us == Append(ts, t)
<1>1. PICK L \in Nat : L = Len(ts)
  BY DEF Tiles
<1>2. PICK a \in n .. Len(s) : a = t.start
  OBVIOUS
<1>3. PICK e \in a + 1 .. Len(s) + 1 : e = t.end
  BY <1>2
<1>4. /\ us \in Seq(Token) /\ Len(us) = L + 1 /\ us[L + 1] = t
      /\ \A k \in 1 .. L : us[k] = ts[k] /\ ts[k] \in Token
  BY <1>1 DEF Tiles
<1>5. Len(s) \in Nat
  BY DEF Text
<1> HIDE DEF us
<1>6. ASSUME NEW k \in 1 .. L
      PROVE  /\ us[k].start \in Nat /\ us[k].end \in Nat
             /\ 1 <= us[k].start /\ us[k].start < us[k].end /\ us[k].end <= n
  <2>1. us[k] = ts[k] /\ ts[k] \in Token
    BY <1>4
  <2>2. ts[k].start \in Nat /\ ts[k].end \in Nat
    BY <2>1 DEF Token
  <2>3. 1 <= ts[k].start /\ ts[k].start < ts[k].end /\ ts[k].end <= n
    BY <1>1 DEF Tiles
  <2>4. QED
    BY <2>1, <2>2, <2>3
<1>7. us[L + 1].start = a /\ us[L + 1].end = e
  BY <1>2, <1>3, <1>4
<1>8. ASSUME NEW k \in 1 .. L + 1
      PROVE  1 <= us[k].start /\ us[k].start < us[k].end /\ us[k].end <= e
  <2>1. CASE k = L + 1
    BY <1>5, <1>7, <2>1
  <2>2. CASE k # L + 1
    <3>1. k \in 1 .. L
      BY <2>2
    <3>2. QED
      BY <1>5, <1>6, <3>1
  <2>3. QED
    BY <2>1, <2>2
<1>9. ASSUME NEW k \in 1 .. L + 1, NEW j \in 1 .. k - 1
      PROVE  us[j].end <= us[k].start
  <2>1. j \in 1 .. L
    OBVIOUS
  <2>2. CASE k = L + 1
    BY <1>6, <1>7, <2>1, <2>2
  <2>3. CASE k # L + 1
    <3>1. k \in 1 .. L
      BY <2>3
    <3>2. ts[j].end <= ts[k].start
      BY <1>1, <3>1 DEF Tiles
    <3>3. us[j] = ts[j] /\ us[k] = ts[k]
      BY <1>4, <2>1, <3>1
    <3>4. QED
      BY <3>2, <3>3
  <2>4. QED
    BY <2>2, <2>3
<1>10. ASSUME NEW i \in 1 .. e - 1
       PROVE  IsSpace(At(s, i)) \/ \E k \in 1 .. L + 1 : i \in Extent(us[k])
  <2>1. CASE i < n
    <3>1. i \in 1 .. n - 1
      BY <2>1
    <3>2. IsSpace(At(s, i)) \/ \E k \in 1 .. L : i \in Extent(ts[k])
      BY <1>1, <3>1 DEF Tiles
    <3>3. \A k \in 1 .. L : k \in 1 .. L + 1 /\ us[k] = ts[k]
      BY <1>4
    <3>4. QED
      BY <3>2, <3>3, Zenon
  <2>2. CASE n <= i /\ i < a
    <3>1. i \in n .. a - 1 /\ i <= Len(s)
      BY <1>5, <2>2
    <3>2. IsSpace(s[i])
      BY <1>2, <3>1
    <3>3. QED
      BY <3>1, <3>2 DEF At
  <2>3. CASE a <= i
    <3>1. i \in Extent(us[L + 1]) /\ L + 1 \in 1 .. L + 1
      BY <1>5, <1>7, <2>3 DEF Extent
    <3>2. QED
      BY <3>1
  <2>4. QED
    BY <1>5, <2>1, <2>2, <2>3
<1>11. Tiles(us, s, e)
  BY <1>4, <1>8, <1>9, <1>10 DEF Tiles
<1>12. QED
  BY <1>3, <1>11 DEF us

-----------------------------------------------------------------------------
LEMMA ArgumentsInit == Init => ArgumentsInv
<1>1. SUFFICES ASSUME Init PROVE ArgumentsInv
  OBVIOUS
<1>2. line \in Seq(Alphabet) /\ Len(line) <= MaxLen
  <2>1. PICK m \in 0 .. MaxLen : line \in [1 .. m -> Alphabet]
    BY <1>1 DEF Init, BoundedSeq, SeqOf
  <2>2. QED
    BY <2>1, MaxLenIsNat
<1>3. line \in Text
  BY <1>2, AlphabetIsBytes DEF Text, NUL
<1>4. /\ src = 1 /\ dst = 1 /\ mem = <<>> /\ argv = <<>> /\ toks = <<>>
      /\ done = FALSE
  BY <1>1 DEF Init
<1>5. TypeOK
  <2>1. src \in 1 .. Len(line) + 1
    BY <1>2, <1>4
  <2>2. ToSet(toks) = {}
    BY <1>4 DEF ToSet
  <2>3. mem \in Seq(Byte) /\ Len(argv) = Len(toks) /\ dst \in Nat \ {0}
    BY <1>4
  <2>4. QED
    BY <1>2, <1>4, <2>1, <2>2, <2>3 DEF TypeOK
<1>6. Tiles(toks, line, src)
  BY <1>4 DEF Tiles
<1>7. Needed(toks) = 0
  BY <1>4, NeededOfNone
<1>8. dst <= Len(mem) + 1
  BY <1>4
<1>9. QED
  BY <1>4, <1>5, <1>6, <1>7, <1>8 DEF ArgumentsInv

\* What the invariant says of the line.
LEMMA LineFacts ==
  ASSUME ArgumentsInv
  PROVE  /\ line \in Text /\ Len(line) \in Nat /\ src \in 1 .. Len(line) + 1
         /\ toks \in Seq(Token)
<1>1. line \in Text
  BY AlphabetIsBytes DEF ArgumentsInv, TypeOK, Text, NUL
<1>2. src \in 1 .. Len(line) + 1
  BY DEF ArgumentsInv, TypeOK
<1>3. toks \in Seq(Token)
  BY DEF ArgumentsInv, Tiles
<1>4. Len(line) \in Nat
  BY <1>1 DEF Text
<1>5. QED
  BY <1>1, <1>2, <1>3, <1>4

LEMMA ArgumentsStep == ArgumentsInv /\ [Next]_vars => ArgumentsInv'
<1>1. SUFFICES ASSUME ArgumentsInv, [Next]_vars PROVE ArgumentsInv'
  OBVIOUS
<1>2. /\ line \in Text /\ Len(line) \in Nat /\ src \in 1 .. Len(line) + 1
      /\ toks \in Seq(Token)
  BY <1>1, LineFacts
<1>3. CASE NextToken
  <2> DEFINE tok == Lex(line, src)
  <2>1. /\ ~done /\ tok # NoTok
        /\ src' = tok.end
        /\ mem' = Overwrite(mem, dst, tok.text \o <<NUL>>)
        /\ argv' = Append(argv, dst)
        /\ toks' = Append(toks, tok)
        /\ line' = line /\ dst' = dst /\ done' = done
    BY <1>3 DEF NextToken
  <2>2. /\ tok \in Token
        /\ tok.start \in src .. Len(line)
        /\ \A k \in src .. tok.start - 1 : IsSpace(line[k])
        /\ tok.end \in tok.start + 1 .. Len(line) + 1
        /\ Len(tok.text) <= tok.end - tok.start
    BY <1>2, <2>1, LexPromises
  <2> HIDE DEF tok
  <2>4. tok.text \in Text /\ Len(tok.text) \in Nat
    BY <2>2 DEF Token, Text
  <2>5. PICK a \in src .. Len(line) : a = tok.start
    BY <2>2
  <2>6. PICK e \in a + 1 .. Len(line) + 1 : e = tok.end
    BY <2>2, <2>5
  <2>7. src' = e /\ e \in 1 .. Len(line) + 1 /\ src < e
    BY <1>2, <2>1, <2>6
  <2>8. Tiles(toks', line', src')
    <3>1. Tiles(toks, line, src)
      BY <1>1 DEF ArgumentsInv
    <3>2. Tiles(Append(toks, tok), line, tok.end)
      BY <1>2, <2>2, <3>1, TilesAppend
    <3>3. QED
      BY <2>1, <3>2
  <2>9. TypeOK' /\ dst' <= Len(mem') + 1
    <3>1. tok.text \o <<NUL>> \in Seq(Byte)
      BY <2>4 DEF Text, NUL, Byte
    <3>2. mem \in Seq(Byte) /\ dst \in 1 .. Len(mem) + 1
      BY <1>1 DEF ArgumentsInv, TypeOK
    <3>3. mem' \in Seq(Byte) /\ Len(mem) <= Len(mem')
      BY <2>1, <3>1, <3>2, OverwriteType
    <3>4. dst' \in 1 .. Len(mem') + 1
      BY <2>1, <3>2, <3>3
    <3>5. Len(argv') = Len(toks')
      BY <1>1, <1>2, <2>1 DEF ArgumentsInv, TypeOK
    <3>6. \A t \in ToSet(toks') : t.text \in Text
      <4>1. toks' \in Seq(Token)
        BY <2>8 DEF Tiles
      <4>2. SUFFICES ASSUME NEW t \in ToSet(toks') PROVE t.text \in Text
        OBVIOUS
      <4>3. PICK k \in 1 .. Len(toks') : t = (toks')[k]
        BY <4>1, <4>2 DEF ToSet
      <4>4. t \in Token
        BY <4>1, <4>3
      <4>5. QED
        BY <4>4 DEF Token
    <3>7. line' \in Seq(Alphabet) /\ Len(line') <= MaxLen /\ done' \in BOOLEAN
      BY <1>1, <2>1 DEF ArgumentsInv, TypeOK
    <3>8. QED
      BY <2>1, <2>7, <3>3, <3>4, <3>5, <3>6, <3>7 DEF TypeOK
  <2>10. Needed(toks') \in Nat /\ Needed(toks') <= 2 * (src' - 1)
    <3>1. Needed(toks) \in Nat /\ Needed(toks') = Needed(toks) + Len(tok.text) + 1
      BY <1>2, <2>1, <2>2, NeededAppend
    <3>2. Needed(toks) <= 2 * (src - 1)
      BY <1>1 DEF ArgumentsInv
    <3>3. Len(tok.text) <= e - a
      BY <2>2, <2>5, <2>6
    <3> DEFINE more == Len(tok.text) + 1
               was == Needed(toks)
    <3> HIDE DEF more, was
    <3>4. more \in Nat /\ more <= 2 * (e - src)
      BY <1>2, <2>4, <3>3 DEF more
    <3>5. was \in Nat /\ was <= 2 * (src - 1) /\ Needed(toks') = was + more
      BY <2>4, <3>1, <3>2 DEF more, was
    <3>6. was + more \in Nat /\ was + more <= 2 * (e - 1)
      BY <1>2, <3>4, <3>5
    <3>7. QED
      BY <2>7, <3>5, <3>6
  <2>11. QED
    BY <2>1, <2>8, <2>9, <2>10 DEF ArgumentsInv
<1>4. CASE EndOfLine
  <2>1. /\ Lex(line, src) = NoTok /\ done' = TRUE
        /\ UNCHANGED <<line, src, dst, mem, argv, toks>>
    BY <1>4 DEF EndOfLine
  <2>2. QED
    BY <1>1, <2>1 DEF ArgumentsInv, TypeOK
<1>5. CASE UNCHANGED vars
  BY <1>1, <1>5 DEF vars, ArgumentsInv, TypeOK
<1>6. QED
  BY <1>1, <1>3, <1>4, <1>5 DEF Next

THEOREM ArgumentsInvariant == Spec => []ArgumentsInv
BY ArgumentsInit, ArgumentsStep, PTL DEF Spec

\* The types: in particular src never passes the terminator of the line.
THEOREM ArgumentsTypes == Spec => []TypeOK
<1>1. ArgumentsInv => TypeOK
  BY DEF ArgumentsInv
<1>2. QED
  BY <1>1, ArgumentsInvariant, PTL

(***************************************************************************)
(* However the line is quoted or broken, every byte that parsecommand()    *)
(* has passed is of exactly one token or is whitespace between them.       *)
(***************************************************************************)
THEOREM LineIsTiled == Spec => []TokensTileLine
<1>1. ASSUME ArgumentsInv PROVE TokensTileLine
  <2>1. /\ toks \in Seq(Token)
        /\ \A k \in 1 .. Len(toks) : \A j \in 1 .. k - 1 : toks[j].end <= toks[k].start
        /\ \A i \in 1 .. src - 1 :
             IsSpace(At(line, i)) \/ \E k \in 1 .. Len(toks) : i \in Extent(toks[k])
        /\ src \in Nat
    BY <1>1, LineFacts DEF ArgumentsInv, Tiles
  <2>2. SUFFICES ASSUME NEW i \in 1 .. src - 1
                 PROVE  LET in == {k \in DOMAIN toks : i \in toks[k].start .. toks[k].end - 1}
                        IN IF in = {} THEN IsSpace(At(line, i)) ELSE Cardinality(in) = 1
    BY DEF TokensTileLine
  <2> DEFINE in == {k \in DOMAIN toks : i \in toks[k].start .. toks[k].end - 1}
  <2>3. in = {k \in 1 .. Len(toks) : i \in Extent(toks[k])}
    BY <2>1 DEF Extent
  <2>4. CASE in = {}
    BY <2>1, <2>3, <2>4
  <2>5. CASE in # {}
    <3>1. PICK k \in in : TRUE
      BY <2>5
    <3>2. ASSUME NEW a \in in, NEW b \in in, a < b PROVE FALSE
      <4>1. /\ a \in 1 .. Len(toks) /\ b \in 1 .. Len(toks) /\ a \in 1 .. b - 1
            /\ i \in Extent(toks[a]) /\ i \in Extent(toks[b])
        BY <2>1, <2>3, <3>2
      <4>2. toks[a].end <= toks[b].start
        BY <2>1, <4>1
      <4>3. toks[a] \in Token /\ toks[b] \in Token
        BY <2>1, <4>1
      <4>4. toks[a].end \in Nat /\ toks[b].start \in Nat
        BY <4>3 DEF Token
      <4>5. i <= toks[a].end - 1 /\ toks[b].start <= i /\ i \in Nat
        BY <4>1, <2>1 DEF Extent
      <4>6. QED
        BY <4>2, <4>4, <4>5
    <3>3. \A a \in in : a = k
      <4>1. in \subseteq Nat
        BY <2>1, <2>3
      <4>2. QED
        BY <3>1, <3>2, <4>1
    <3>4. in = {k}
      BY <3>1, <3>3
    <3>5. Cardinality(in) = 1
      BY <3>4, FS_Singleton
    <3>6. QED
      BY <2>5, <3>5
  <2>6. QED
    BY <2>4, <2>5
<1>2. QED
  BY <1>1, ArgumentsInvariant, PTL

(***************************************************************************)
(* What getc_main() reserves for a line holds its tokens' texts, however   *)
(* the line is written: no lex_next() writes past the storage.             *)
(***************************************************************************)
THEOREM ScratchIsEnough == Spec => []ScratchSuffices
<1>1. ASSUME ArgumentsInv PROVE ScratchSuffices
  <2> DEFINE n == Needed(toks)
             len == Len(line)
  <2>1. n \in Nat /\ n <= 2 * (src - 1)
    BY <1>1 DEF ArgumentsInv
  <2>2. len \in Nat /\ src \in 1 .. len + 1
    BY <1>1, LineFacts
  <2> HIDE DEF n, len
  <2>3. len + 1 + n <= len * 3 + 1
    BY <2>1, <2>2
  <2>4. QED
    BY <2>3 DEF n, len, ScratchSuffices, Reserved
<1>2. QED
  BY <1>1, ArgumentsInvariant, PTL

(***************************************************************************)
(* Every lex_next() that returns a token consumes some of the line: the    *)
(* loop of parsecommand() ends on every line.                              *)
(***************************************************************************)
THEOREM TokensAdvance == Spec => EachTokenAdvances
<1>1. ASSUME ArgumentsInv, [Next]_vars PROVE [done' \/ src' > src]_vars
  <2>1. SUFFICES ASSUME NextToken PROVE src' > src
    BY <1>1 DEF Next, EndOfLine
  <2>2. /\ line \in Text /\ Len(line) \in Nat /\ src \in 1 .. Len(line) + 1
    BY <1>1, LineFacts
  <2>3. Lex(line, src) # NoTok /\ src' = Lex(line, src).end
    BY <2>1 DEF NextToken
  <2>4. /\ Lex(line, src).start \in src .. Len(line)
        /\ Lex(line, src).end \in Lex(line, src).start + 1 .. Len(line) + 1
    BY <2>2, <2>3, LexPromises
  <2>5. PICK a \in src .. Len(line) : a = Lex(line, src).start
    BY <2>4
  <2>6. PICK e \in a + 1 .. Len(line) + 1 : e = src'
    BY <2>3, <2>4, <2>5
  <2>7. e > src
    BY <2>2
  <2>8. QED
    BY <2>6, <2>7
<1>2. QED
  BY <1>1, ArgumentsInvariant, PTL DEF Spec, EachTokenAdvances

-----------------------------------------------------------------------------
\* The strings that FlattenSeq puts together, the first n of them for each n.
Joined(f, seqs, S) ==
  /\ f \in [0 .. Len(seqs) -> Seq(S)]
  /\ f[0] = <<>>
  /\ \A n \in 1 .. Len(seqs) : f[n] = f[n - 1] \o seqs[n]

LEMMA FlattenIs ==
  ASSUME NEW S, NEW seqs \in Seq(Seq(S))
  PROVE  \E f : Joined(f, seqs, S) /\ FlattenSeq(seqs) = f[Len(seqs)]
<1>1. PICK L \in Nat : L = Len(seqs)
  OBVIOUS
<1>2. CASE L = 0
  <2> DEFINE p == [n \in 0 .. 0 |-> <<>>]
  <2>1. seqs = <<>> /\ Len(seqs) = 0
    BY <1>1, <1>2, EmptySeq
  <2>2. p \in [0 .. Len(seqs) -> Seq(S)] /\ p[0] = <<>>
    BY <2>1
  <2>3. FlattenSeq(seqs) = <<>>
    BY <2>1 DEF FlattenSeq
  <2> HIDE DEF p
  <2>4. Joined(p, seqs, S)
    BY <2>1, <2>2 DEF Joined
  <2>5. QED
    BY <2>1, <2>2, <2>3, <2>4
<1>3. CASE L # 0
  <2> DEFINE T == Seq(S)
             step == [n \in Nat |-> [v \in T |-> IF n < L THEN v \o seqs[n + 1] ELSE v]]
             Eq(g) == g = [i \in 1 .. L |-> IF i = 1 THEN seqs[i] ELSE g[i - 1] \o seqs[i]]
  <2>1. step \in Steps(T)
    <3>1. ASSUME NEW n \in Nat, n < L, NEW v \in T PROVE v \o seqs[n + 1] \in T
      <4>1. seqs[n + 1] \in Seq(S)
        BY <1>1, <3>1
      <4>2. QED
        BY <4>1
    <3>2. QED
      BY <3>1 DEF Steps
  <2>2. PICK f : Follows(f, T, <<>>, step)
    <3> DEFINE base == <<>>
    <3>1. base \in T
      OBVIOUS
    <3> HIDE DEF step, T, base
    <3>2. \E f : Follows(f, T, base, step)
      BY <2>1, <3>1, PrimitiveRecursion
    <3>3. QED
      BY <3>2 DEF base
  <2>3. /\ f \in [Nat -> T] /\ f[0] = <<>>
        /\ \A n \in 1 .. L : f[n] = f[n - 1] \o seqs[n]
    <3>1. f \in [Nat -> T] /\ f[0] = <<>> /\ \A n \in Nat : f[n + 1] = step[n][f[n]]
      BY <2>2 DEF Follows
    <3>2. ASSUME NEW n \in 1 .. L PROVE f[n] = f[n - 1] \o seqs[n]
      <4>1. PICK m \in Nat : m = n - 1 /\ n = m + 1 /\ m < L
        OBVIOUS
      <4>2. f[m + 1] = f[m] \o seqs[m + 1]
        BY <3>1, <4>1
      <4>3. QED
        BY <4>1, <4>2
    <3>3. QED
      BY <3>1, <3>2
  <2>11. f[1] = seqs[1]
    <3>1. 1 \in 1 .. L /\ 1 - 1 = 0
      BY <1>3
    <3>2. f[1] = f[1 - 1] \o seqs[1]
      BY <2>3, <3>1
    <3>3. seqs[1] \in Seq(S)
      BY <1>1, <3>1
    <3>4. f[1 - 1] = <<>>
      BY <2>3, <3>1, Zenon
    <3>5. <<>> \o seqs[1] = seqs[1]
      BY <3>3, ConcatEmptySeq
    <3>6. QED
      BY <3>2, <3>4, <3>5, Zenon
  <2> DEFINE g == [i \in 1 .. L |-> f[i]]
  <2>4. Eq(g)
    <3>1. ASSUME NEW i \in 1 .. L
          PROVE  g[i] = IF i = 1 THEN seqs[i] ELSE g[i - 1] \o seqs[i]
      <4>1. CASE i = 1
        <5>1. f[1] = seqs[1]
          BY <1>3, <2>11
        <5>2. QED
          BY <4>1, <5>1
      <4>2. CASE i # 1
        <5>1. i - 1 \in 1 .. L
          BY <4>2
        <5>2. QED
          BY <2>3, <4>2, <5>1
      <4>3. QED
        BY <4>1, <4>2
    <3>2. QED
      BY <3>1
  <2> HIDE DEF g
  <2>5. \E h : Eq(h) /\ FlattenSeq(seqs) = h[L]
    <3>1. Len(seqs) # 0
      BY <1>1, <1>3
    <3>2. QED
      BY <1>1, <2>4, <3>1, Zenon DEF FlattenSeq
  <2>6. PICK h : Eq(h) /\ FlattenSeq(seqs) = h[L]
    BY <2>5
  <2>7. \A n \in 1 .. L : h[n] = f[n]
    <3> DEFINE Same == {n \in Nat : n + 1 <= L => h[n + 1] = f[n + 1]}
    <3>1. 0 \in Same
      <4>1. 1 \in 1 .. L
        BY <1>3
      <4>2. seqs[1] \in Seq(S)
        BY <1>1, <4>1
      <4>3. h[1] = seqs[1]
        BY <2>6, <4>1
      <4>4. f[1] = seqs[1]
        BY <1>3, <2>11
      <4>5. QED
        BY <4>3, <4>4
    <3>2. ASSUME NEW n \in Nat, n \in Same PROVE n + 1 \in Same
      <4>1. SUFFICES ASSUME n + 2 <= L PROVE h[n + 2] = f[n + 2]
        OBVIOUS
      <4>2. n + 2 \in 1 .. L /\ n + 2 # 1 /\ (n + 2) - 1 = n + 1 /\ h[n + 1] = f[n + 1]
        BY <3>2, <4>1
      <4>3. h[n + 2] = h[n + 1] \o seqs[n + 2] /\ f[n + 2] = f[n + 1] \o seqs[n + 2]
        BY <2>3, <2>6, <4>2
      <4>4. QED
        BY <4>2, <4>3
    <3> HIDE DEF Same
    <3>3. \A n \in Nat : n \in Same
      BY <3>1, <3>2, Induction
    <3>4. ASSUME NEW n \in 1 .. L PROVE h[n] = f[n]
      <4>1. PICK m \in Nat : n = m + 1 /\ m + 1 <= L
        <5>1. n - 1 \in Nat /\ n = (n - 1) + 1
          OBVIOUS
        <5>2. QED
          BY <5>1
      <4>2. h[m + 1] = f[m + 1]
        BY <3>3, <4>1 DEF Same
      <4>3. QED
        BY <4>1, <4>2, Zenon
    <3>5. QED
      BY <3>4
  <2> DEFINE p == [n \in 0 .. L |-> f[n]]
  <2>8. Joined(p, seqs, S)
    <3>1. p \in [0 .. L -> Seq(S)] /\ p[0] = <<>>
      BY <2>3
    <3>2. ASSUME NEW n \in 1 .. L PROVE p[n] = p[n - 1] \o seqs[n]
      <4>1. n \in 0 .. L /\ n - 1 \in 0 .. L
        OBVIOUS
      <4>2. p[n] = f[n] /\ p[n - 1] = f[n - 1]
        BY <4>1
      <4>3. QED
        BY <2>3, <4>2
    <3> HIDE DEF p
    <3>3. QED
      BY <1>1, <3>1, <3>2 DEF Joined
  <2>9. FlattenSeq(seqs) = p[L]
    BY <1>3, <2>6, <2>7
  <2> HIDE DEF p
  <2>10. QED
    BY <1>1, <2>8, <2>9
<1>4. QED
  BY <1>2, <1>3

\* Where the n-th of them lies in the whole.
Placed(f, seqs, n) ==
  /\ Len(f[n]) = Len(f[n - 1]) + Len(seqs[n])
  /\ Len(f[n]) <= Len(f[Len(seqs)])
  /\ \A k \in 1 .. Len(seqs[n]) :
       f[Len(seqs)][Len(f[n - 1]) + k] = seqs[n][k]

\* What has been put together stays where it is.
LEMMA JoinedGrow ==
  ASSUME NEW S, NEW seqs \in Seq(Seq(S)), NEW f, Joined(f, seqs, S),
         NEW n \in 1 .. Len(seqs)
  PROVE  Placed(f, seqs, n)
<1>1. PICK L \in Nat : L = Len(seqs)
  OBVIOUS
<1>2. /\ f \in [0 .. L -> Seq(S)]
      /\ \A m \in 1 .. L : f[m] = f[m - 1] \o seqs[m]
  BY <1>1 DEF Joined
<1>3. ASSUME NEW m \in 1 .. L
      PROVE  /\ f[m - 1] \in Seq(S) /\ f[m] \in Seq(S) /\ seqs[m] \in Seq(S)
             /\ f[m] = f[m - 1] \o seqs[m]
             /\ Len(f[m]) = Len(f[m - 1]) + Len(seqs[m])
  <2>1. m - 1 \in 0 .. L /\ m \in 0 .. L
    OBVIOUS
  <2>2. f[m - 1] \in Seq(S) /\ f[m] \in Seq(S)
    BY <1>2, <2>1
  <2>3. seqs[m] \in Seq(S)
    BY <1>1
  <2>4. f[m] = f[m - 1] \o seqs[m]
    BY <1>2
  <2>5. Len(f[m - 1] \o seqs[m]) = Len(f[m - 1]) + Len(seqs[m])
    BY <2>2, <2>3
  <2>6. QED
    BY <2>2, <2>3, <2>4, <2>5
<1> DEFINE Kept(m) == /\ Len(f[n]) <= Len(f[m])
                      /\ \A k \in 1 .. Len(f[n]) : f[m][k] = f[n][k]
           Good == {d \in Nat : n + d <= L => Kept(n + d)}
<1>4. 0 \in Good
  <2>1. f[n] \in Seq(S)
    BY <1>1, <1>3
  <2>2. QED
    BY <2>1
<1>5. ASSUME NEW d \in Nat, d \in Good PROVE d + 1 \in Good
  <2>1. SUFFICES ASSUME n + (d + 1) <= L PROVE Kept(n + (d + 1))
    OBVIOUS
  <2>2. PICK m \in 1 .. L : m = n + (d + 1) /\ m - 1 = n + d
    BY <1>1, <2>1
  <2>3. Kept(m - 1)
    BY <1>1, <1>5, <2>2
  <2>4. /\ f[m - 1] \in Seq(S) /\ seqs[m] \in Seq(S)
        /\ f[m] = f[m - 1] \o seqs[m]
    BY <1>3
  <2>5. Len(f[n]) \in Nat
    BY <1>1, <1>3
  <2>6. Kept(m)
    <3> DEFINE u == f[m - 1]
               v == seqs[m]
    <3> HIDE DEF u, v
    <3>1. u \in Seq(S) /\ v \in Seq(S) /\ f[m] = u \o v
      BY <2>4 DEF u, v
    <3>2. Len(f[n]) <= Len(u) /\ \A k \in 1 .. Len(f[n]) : u[k] = f[n][k]
      BY <2>3 DEF u
    <3>3. Len(u \o v) = Len(u) + Len(v) /\ \A k \in 1 .. Len(u) : (u \o v)[k] = u[k]
      BY <3>1
    <3>4. Len(u) \in Nat /\ Len(v) \in Nat
      BY <3>1
    <3>5. QED
      BY <2>5, <3>1, <3>2, <3>3, <3>4
  <2>7. QED
    BY <2>2, <2>6
<1> HIDE DEF Good, Kept
<1>6. \A d \in Nat : d \in Good
  BY <1>4, <1>5, Induction
<1>7. Kept(L)
  <2>1. PICK d \in Nat : n + d = L
    <3>1. L - n \in Nat /\ n + (L - n) = L
      BY <1>1
    <3>2. QED
      BY <3>1
  <2>2. n + d <= L
    BY <2>1
  <2>3. Kept(n + d)
    BY <1>6, <2>2 DEF Good
  <2>4. QED
    BY <2>1, <2>3, Zenon
<1>8. \A k \in 1 .. Len(seqs[n]) : f[L][Len(f[n - 1]) + k] = seqs[n][k]
  <2>1. SUFFICES ASSUME NEW k \in 1 .. Len(seqs[n])
                 PROVE  f[L][Len(f[n - 1]) + k] = seqs[n][k]
    OBVIOUS
  <2>2. /\ f[n - 1] \in Seq(S) /\ seqs[n] \in Seq(S)
        /\ f[n] = f[n - 1] \o seqs[n]
        /\ Len(f[n]) = Len(f[n - 1]) + Len(seqs[n])
    BY <1>1, <1>3
  <2> DEFINE u == f[n - 1]
             v == seqs[n]
  <2> HIDE DEF u, v
  <2>3. u \in Seq(S) /\ v \in Seq(S) /\ f[n] = u \o v /\ k \in 1 .. Len(v)
    BY <2>2 DEF u, v
  <2>4. Len(u) + k \in 1 .. Len(u \o v) /\ (u \o v)[Len(u) + k] = v[k]
    BY <2>3
  <2>5. QED
    BY <1>7, <2>3, <2>4 DEF Kept, u, v
<1>9. QED
  BY <1>1, <1>3, <1>7, <1>8 DEF Kept, Placed

\* A byte is quoted as itself, or as a backslash and what stands for it.
LEMMA EscapeFacts ==
  ASSUME NEW b \in Byte \ {0}
  PROVE  \/ /\ Escape(b) = <<b>>
            /\ Step("str2", b) = "str2" /\ Emit("str2", b) = <<b>>
         \/ \E x \in Byte \ {0} :
              /\ Escape(b) = <<BSL, x>>
              /\ Step("str2", BSL) = "esc" /\ Emit("str2", BSL) = <<>>
              /\ Step("esc", x) = "str2" /\ Emit("esc", x) = <<b>>
<1> DEFINE By(x) == /\ Escape(b) = <<BSL, x>>
                    /\ Step("str2", BSL) = "esc" /\ Emit("str2", BSL) = <<>>
                    /\ Step("esc", x) = "str2" /\ Emit("esc", x) = <<b>>
<1>1. Step("str2", BSL) = "esc" /\ Emit("str2", BSL) = <<>>
  BY DEF Step, Emit, BSL, NUL, DQ
<1>2. ASSUME NEW x \in Byte \ {0}, Escaped(x) = b
      PROVE  Step("esc", x) = "str2" /\ Emit("esc", x) = <<b>>
  BY <1>2 DEF Step, Emit, NUL
<1>3. CASE b \in {BSL, DQ}
  <2>1. Escape(b) = <<BSL, b>> /\ Escaped(b) = b
    BY <1>3 DEF Escape, Escaped, BSL, DQ, LF, CR, HT, VT, FF, ESC
  <2>2. By(b)
    BY <1>1, <1>2, <2>1
  <2>3. QED
    BY <2>2
<1>4. CASE b \in {LF, CR, HT, VT, FF, ESC}
  <2>1. \E x \in Byte \ {0} : Escape(b) = <<BSL, x>> /\ Escaped(x) = b
    <3>1. Escape(LF) = <<BSL, 110>> /\ Escaped(110) = LF
      BY DEF Escape, Escaped, BSL, DQ, LF, CR, HT, VT, FF, ESC
    <3>2. Escape(CR) = <<BSL, 114>> /\ Escaped(114) = CR
      BY DEF Escape, Escaped, BSL, DQ, LF, CR, HT, VT, FF, ESC
    <3>3. Escape(HT) = <<BSL, 116>> /\ Escaped(116) = HT
      BY DEF Escape, Escaped, BSL, DQ, LF, CR, HT, VT, FF, ESC
    <3>4. Escape(VT) = <<BSL, 118>> /\ Escaped(118) = VT
      BY DEF Escape, Escaped, BSL, DQ, LF, CR, HT, VT, FF, ESC
    <3>5. Escape(FF) = <<BSL, 102>> /\ Escaped(102) = FF
      BY DEF Escape, Escaped, BSL, DQ, LF, CR, HT, VT, FF, ESC
    <3>6. Escape(ESC) = <<BSL, 101>> /\ Escaped(101) = ESC
      BY DEF Escape, Escaped, BSL, DQ, LF, CR, HT, VT, FF, ESC
    <3>7. {101, 102, 110, 114, 116, 118} \subseteq Byte \ {0}
      BY DEF Byte
    <3>8. QED
      BY <1>4, <3>1, <3>2, <3>3, <3>4, <3>5, <3>6, <3>7
  <2>2. PICK x \in Byte \ {0} : Escape(b) = <<BSL, x>> /\ Escaped(x) = b
    BY <2>1
  <2>3. By(x)
    BY <1>1, <1>2, <2>2
  <2>4. QED
    BY <2>3
<1>5. CASE b \notin {BSL, DQ, LF, CR, HT, VT, FF, ESC}
  <2>1. Escape(b) = <<b>>
    BY <1>5 DEF Escape
  <2>2. Step("str2", b) = "str2" /\ Emit("str2", b) = <<b>>
    BY <1>5 DEF Step, Emit, NUL
  <2>3. QED
    BY <2>1, <2>2
<1>6. QED
  BY <1>3, <1>4, <1>5

\* One turn of the loop that goes on, and the last one of a string.
Goes(s, k, q, c, r) == Run(s)[k][q] = Before(Emit(q, c), Run(s)[k + 1][r])

LEMMA RunGoes ==
  ASSUME NEW s \in Text, NEW k \in 1 .. Len(s) + 1, NEW q \in States, NEW c, NEW r \in States,
         At(s, k) = c, Step(q, c) = r
  PROVE  Goes(s, k, q, c, r)
<1>1. Turned(Run(s)[k][q], k, q, c, Run(s)[k + 1])
  BY RunTurns
<1>2. QED
  BY <1>1, Zenon DEF Turned, Goes

LEMMA RunCloses ==
  ASSUME NEW s \in Text, NEW k \in 1 .. Len(s) + 1, At(s, k) = DQ
  PROVE  Run(s)[k]["str2"] = [type |-> "string", end |-> k + 1, text |-> <<>>]
<1>1. Step("str2", DQ) = "close" /\ TokType("str2") = "string" /\ "str2" \in States
  BY DEF Step, TokType, States, DQ, NUL
<1>2. Turned(Run(s)[k]["str2"], k, "str2", At(s, k), Run(s)[k + 1])
  BY <1>1, RunTurns
<1>3. QED
  BY <1>1, <1>2, Zenon DEF Turned

\* Any text, quoted, is read back as one string token of that text.
LEMMA QuoteIsRead ==
  ASSUME NEW t \in Text
  PROVE  /\ Lex(Quote(t), 1).type = "string"
         /\ Lex(Quote(t), 1).text = t
         /\ Lex(Quote(t), 1).end = Len(Quote(t)) + 1
<1> DEFINE B == Byte \ {0}
           e == [i \in 1 .. Len(t) |-> Escape(t[i])]
           q == Quote(t)
<1>1. PICK n \in Nat : n = Len(t)
  BY DEF Text
<1>2. \A i \in 1 .. n : t[i] \in B
  BY <1>1 DEF Text
<1>3. DQ \in B /\ BSL \in B
  BY DEF DQ, BSL, Byte
<1>4. e \in Seq(Seq(B)) /\ Len(e) = n /\ \A i \in 1 .. n : e[i] = Escape(t[i])
  <2>1. ASSUME NEW i \in 1 .. n PROVE Escape(t[i]) \in Seq(B)
    <3>1. t[i] \in B
      BY <1>2
    <3>2. Escape(t[i]) = <<t[i]>> \/ \E x \in B : Escape(t[i]) = <<BSL, x>>
      BY <3>1, EscapeFacts
    <3>3. <<t[i]>> \in Seq(B)
      BY <3>1
    <3>4. \A x \in B : <<BSL, x>> \in Seq(B)
      BY <1>3
    <3>5. QED
      BY <3>2, <3>3, <3>4, Zenon
  <2>2. e \in [1 .. n -> Seq(B)]
    BY <1>1, <2>1
  <2>3. QED
    BY <1>1, <2>2
<1> HIDE DEF e
<1>5. PICK f : Joined(f, e, B) /\ FlattenSeq(e) = f[n]
  BY <1>4, FlattenIs
<1>6. /\ f \in [0 .. n -> Seq(B)] /\ f[0] = <<>>
      /\ q = <<DQ>> \o f[n] \o <<DQ>>
  BY <1>4, <1>5 DEF Joined, Quote, e
<1>7. /\ q \in Seq(B) /\ Len(q) = Len(f[n]) + 2
      /\ q[1] = DQ /\ q[Len(q)] = DQ
      /\ \A k \in 1 .. Len(f[n]) : q[k + 1] = f[n][k]
  <2> DEFINE u == f[n]
  <2>1. u \in Seq(B)
    BY <1>6
  <2> HIDE DEF u
  <2>2. q = <<DQ>> \o u \o <<DQ>>
    BY <1>6 DEF u
  <2>3. <<DQ>> \o u \in Seq(B) /\ Len(<<DQ>> \o u) = Len(u) + 1
    BY <1>3, <2>1
  <2> HIDE DEF q
  <2>4. q \in Seq(B) /\ Len(q) = Len(u) + 2
    BY <1>3, <2>1, <2>2
  <2>5. q[1] = DQ /\ q[Len(u) + 2] = DQ
    BY <1>3, <2>1, <2>2
  <2>6. \A k \in 1 .. Len(u) : q[k + 1] = u[k]
    BY <1>3, <2>1, <2>2
  <2>7. QED
    BY <2>4, <2>5, <2>6 DEF u
<1> HIDE DEF q
<1>8. q \in Text
  BY <1>7 DEF Text
<1>9. PICK L \in Nat, len \in Nat : L = Len(q) /\ len = Len(f[n]) /\ L = len + 2
  <2>1. Len(f[n]) \in Nat
    BY <1>6
  <2>2. Len(q) = Len(f[n]) + 2
    BY <1>7
  <2>3. QED
    BY <2>1, <2>2
\* Where the quoted form of byte i + 1 begins.
<1> DEFINE at(i) == 2 + Len(f[i])
           suffix(i) == [type |-> "string", end |-> L + 1, text |-> SubSeq(t, i + 1, n)]
           Good == {d \in Nat : d <= n => Run(q)[at(n - d)]["str2"] = suffix(n - d)}
<1>10. 0 \in Good
  <2>1. at(n) = L /\ L \in 1 .. L + 1 /\ At(q, L) = DQ
    BY <1>6, <1>7, <1>9 DEF At
  <2>2. Run(q)[L]["str2"] = [type |-> "string", end |-> L + 1, text |-> <<>>]
    BY <1>8, <1>9, <2>1, RunCloses
  <2>3. SubSeq(t, n + 1, n) = <<>>
    <3>1. n + 1 \in Int /\ n \in Int /\ n < n + 1
      OBVIOUS
    <3>2. QED
      BY <3>1, SubSeqEmpty
  <2>4. n - 0 = n
    OBVIOUS
  <2> DEFINE where == at(n)
             what == suffix(n)
  <2>5. Run(q)[where]["str2"] = what
    BY <2>1, <2>2, <2>3
  <2> HIDE DEF at, suffix
  <2>6. Run(q)[at(n - 0)]["str2"] = suffix(n - 0)
    BY <2>4, <2>5, Zenon
  <2>7. QED
    BY <2>6
<1>11. ASSUME NEW i \in 1 .. n PROVE Before(<<t[i]>>, suffix(i)) = suffix(i - 1)
  <2>1. t \in Seq(B) /\ t[i] \in B /\ i \in 1 .. Len(t)
    BY <1>1, <1>2 DEF Text
  <2>2. SubSeq(t, i, i) = <<t[i]>>
    <3> DEFINE z == SubSeq(t, i, i)
    <3>1. z \in Seq(B) /\ Len(z) = 1 /\ z[1] = t[i]
      BY <2>1
    <3> HIDE DEF z
    <3>2. z = <<t[i]>>
      BY <2>1, <3>1
    <3>3. QED
      BY <3>2 DEF z
  <2>3. SubSeq(t, i, i) \o SubSeq(t, i + 1, n) = SubSeq(t, i, n)
    <3>1. i \in 1 .. Len(t) + 1 /\ i \in i - 1 .. Len(t) /\ n \in i .. Len(t)
      BY <1>1
    <3>2. QED
      BY <2>1, <3>1, ConcatAdjacentSubSeq
  <2>4. (i - 1) + 1 = i
    OBVIOUS
  <2>5. suffix(i - 1) = [type |-> "string", end |-> L + 1, text |-> SubSeq(t, i, n)]
    BY <2>4, Zenon
  <2>6. QED
    BY <2>2, <2>3, <2>5 DEF Before
<1>12. ASSUME NEW i \in 1 .. n, Run(q)[at(i)]["str2"] = suffix(i)
       PROVE  Run(q)[at(i - 1)]["str2"] = suffix(i - 1)
  <2>1. PICK m \in Nat : m = Len(f[i - 1]) /\ f[i - 1] \in Seq(B)
    <3>1. i - 1 \in 0 .. n
      OBVIOUS
    <3>2. f[i - 1] \in Seq(B)
      BY <1>6, <3>1
    <3>3. QED
      BY <3>2
  <2>2. Placed(f, e, i)
    <3>1. e \in Seq(Seq(B)) /\ Joined(f, e, B) /\ i \in 1 .. Len(e)
      BY <1>4, <1>5
    <3> HIDE DEF B
    <3>2. QED
      BY <3>1, JoinedGrow
  <2>3. e[i] = Escape(t[i]) /\ t[i] \in B
    BY <1>2, <1>4
  <2>4. Len(f[i]) = m + Len(e[i]) /\ Len(f[i]) <= len
    BY <1>4, <1>9, <2>1, <2>2, Zenon DEF Placed
  <2>5. \A k \in 1 .. Len(e[i]) : f[n][m + k] = e[i][k]
    BY <1>4, <2>1, <2>2, Zenon DEF Placed
  <2>6. /\ "str2" \in States /\ "esc" \in States
    BY DEF States
  <2>7. CASE /\ Escape(t[i]) = <<t[i]>>
             /\ Step("str2", t[i]) = "str2" /\ Emit("str2", t[i]) = <<t[i]>>
    <3>1. Len(e[i]) = 1 /\ e[i][1] = t[i]
      BY <2>3, <2>7
    <3>2. PICK p \in 1 .. L + 1 : p = m + 2 /\ p \in 1 .. L
      <4>1. m + 1 <= len /\ L = len + 2
        BY <1>9, <2>1, <2>4, <3>1
      <4>2. m + 2 \in 1 .. L + 1 /\ m + 2 \in 1 .. L
        BY <4>1
      <4>3. QED
        BY <4>2
    <3>3. At(q, p) = t[i]
      <4>1. m + 1 \in 1 .. Len(f[n]) /\ (m + 1) + 1 = p
        BY <1>9, <2>1, <2>4, <3>1, <3>2
      <4>2. q[(m + 1) + 1] = f[n][m + 1]
        BY <1>7, <4>1
      <4>3. f[n][m + 1] = e[i][1]
        BY <2>5, <3>1
      <4>4. QED
        BY <1>9, <3>1, <3>2, <4>1, <4>2, <4>3 DEF At
    <3>4. at(i) = p + 1 /\ at(i - 1) = p
      BY <2>1, <2>4, <3>1, <3>2
    <3>5. Run(q)[p]["str2"] = Before(<<t[i]>>, Run(q)[p + 1]["str2"])
      <4>1. p \in 1 .. Len(q) + 1
        BY <1>9
      <4>2. Goes(q, p, "str2", t[i], "str2")
        BY <1>8, <2>6, <2>7, <3>3, <4>1, RunGoes
      <4>3. QED
        BY <2>7, <4>2, Zenon DEF Goes
    <3>6. QED
      BY <1>11, <1>12, <3>4, <3>5
  <2>8. ASSUME NEW x \in B,
               Escape(t[i]) = <<BSL, x>>,
               Step("str2", BSL) = "esc", Emit("str2", BSL) = <<>>,
               Step("esc", x) = "str2", Emit("esc", x) = <<t[i]>>
        PROVE  Run(q)[at(i - 1)]["str2"] = suffix(i - 1)
    <3>1. Len(e[i]) = 2 /\ e[i][1] = BSL /\ e[i][2] = x
      BY <2>3, <2>8
    <3>2. PICK p \in 1 .. L + 1 : p = m + 2 /\ p \in 1 .. L /\ p + 1 \in 1 .. L
      <4>1. m + 2 <= len /\ L = len + 2
        BY <1>9, <2>1, <2>4, <3>1
      <4>2. m + 2 \in 1 .. L + 1 /\ m + 2 \in 1 .. L /\ m + 3 \in 1 .. L
        BY <4>1
      <4>3. QED
        BY <4>2
    <3>3. At(q, p) = BSL /\ At(q, p + 1) = x
      <4>1. /\ m + 1 \in 1 .. Len(f[n]) /\ (m + 1) + 1 = p
            /\ m + 2 \in 1 .. Len(f[n]) /\ (m + 2) + 1 = p + 1
        BY <1>9, <2>1, <2>4, <3>1, <3>2
      <4>2. q[(m + 1) + 1] = f[n][m + 1] /\ q[(m + 2) + 1] = f[n][m + 2]
        BY <1>7, <4>1
      <4>3. f[n][m + 1] = e[i][1] /\ f[n][m + 2] = e[i][2]
        BY <2>5, <3>1
      <4>4. QED
        BY <1>9, <3>1, <3>2, <4>1, <4>2, <4>3 DEF At
    <3>4. at(i) = (p + 1) + 1 /\ at(i - 1) = p
      BY <2>1, <2>4, <3>1, <3>2
    <3>5. Run(q)[p + 1]["esc"] = Before(<<t[i]>>, Run(q)[(p + 1) + 1]["str2"])
      <4>1. p + 1 \in 1 .. Len(q) + 1
        BY <1>9, <3>2
      <4>2. QED
        <5>1. Goes(q, p + 1, "esc", x, "str2")
          BY <1>8, <2>6, <2>8, <3>3, <4>1, RunGoes
        <5>2. QED
          BY <2>8, <5>1, Zenon DEF Goes
    <3>6. Run(q)[p]["str2"] = Before(<<>>, Run(q)[p + 1]["esc"])
      <4>1. p \in 1 .. Len(q) + 1
        BY <1>9
      <4>2. Goes(q, p, "str2", BSL, "esc")
        BY <1>8, <2>6, <2>8, <3>3, <4>1, RunGoes
      <4>3. QED
        BY <2>8, <4>2, Zenon DEF Goes
    <3>7. Run(q)[p + 1]["esc"] = suffix(i - 1)
      BY <1>11, <1>12, <3>4, <3>5
    <3>8. Before(<<>>, suffix(i - 1)) = suffix(i - 1)
      <4>1. SubSeq(t, (i - 1) + 1, n) \in Seq(B)
        <5>1. t \in Seq(B) /\ (i - 1) + 1 = i /\ i \in 1 .. Len(t)
          BY <1>1 DEF Text
        <5>2. QED
          BY <1>1, <5>1
      <4>2. <<>> \o SubSeq(t, (i - 1) + 1, n) = SubSeq(t, (i - 1) + 1, n)
        BY <4>1, ConcatEmptySeq
      <4>3. QED
        BY <4>2 DEF Before
    <3>9. QED
      BY <3>4, <3>6, <3>7, <3>8
  <2>9. QED
    BY <2>3, <2>7, <2>8, EscapeFacts
<1>13. ASSUME NEW d \in Nat, d \in Good PROVE d + 1 \in Good
  <2> HIDE DEF at, suffix
  <2>1. SUFFICES ASSUME d + 1 <= n
                 PROVE  Run(q)[at(n - (d + 1))]["str2"] = suffix(n - (d + 1))
    OBVIOUS
  <2>2. PICK i \in 1 .. n : i = n - d /\ i - 1 = n - (d + 1)
    BY <2>1
  <2>3. Run(q)[at(i)]["str2"] = suffix(i)
    BY <1>13, <2>1, <2>2
  <2>4. QED
    BY <1>12, <2>2, <2>3
<1>14. Run(q)[2]["str2"] = [type |-> "string", end |-> L + 1, text |-> t]
  <2>1. n \in Good
    <3> HIDE DEF Good
    <3>1. QED
      BY <1>10, <1>13, Induction
  <2>2. n - n = 0 /\ at(0) = 2
    BY <1>6
  <2>3. suffix(0) = [type |-> "string", end |-> L + 1, text |-> t]
    <3>1. t \in Seq(B) /\ SubSeq(t, 1, Len(t)) = t
      BY DEF Text
    <3>2. QED
      BY <1>1, <3>1
  <2> HIDE DEF at, suffix
  <2>4. QED
    BY <2>1, <2>2, <2>3
<1>15. Lex(q, 1) = TokenAt(q, 1)
  <2>1. 1 \in 1 .. Len(q) + 1 /\ 1 \in 1 .. Len(q)
    BY <1>6, <1>7
  <2>2. ~IsSpace(q[1])
    BY <1>7 DEF IsSpace, DQ, HT, LF, VT, FF, CR, SP
  <2>3. PICK start \in 1 .. Len(q) : /\ \A k \in 1 .. start - 1 : IsSpace(q[k])
                                     /\ Lex(q, 1) = TokenAt(q, start)
    BY <1>8, <2>1, <2>2, LexFinds
  <2>4. start = 1
    <3>1. SUFFICES ASSUME start # 1 PROVE FALSE
      OBVIOUS
    <3>2. 1 \in 1 .. start - 1
      BY <2>1, <3>1
    <3>3. QED
      BY <2>2, <2>3, <3>2
  <2>5. QED
    BY <2>3, <2>4
<1>16. TokenAt(q, 1) = [type |-> "string", start |-> 1, end |-> L + 1, text |-> t]
  <2>1. Enter(q[1]) = "str2" /\ q[1] \in {SQ, DQ} /\ 1 + 1 = 2
    BY <1>7 DEF Enter, DQ, SQ, PIPE
  <2>2. Run(q)[1 + 1][Enter(q[1])] = [type |-> "string", end |-> L + 1, text |-> t]
    BY <1>14, <2>1
  <2>3. <<>> \o t = t
    BY DEF Text
  <2>4. QED
    BY <2>1, <2>2, <2>3 DEF TokenAt
<1>17. QED
  BY <1>9, <1>15, <1>16 DEF q

(***************************************************************************)
(* Whatever text a token has, however it was written, quoting it gives a   *)
(* line that the lexer reads as one string token of that text.             *)
(***************************************************************************)
THEOREM EveryTextCanBeQuoted == Spec => []QuotingRoundTrips
<1>1. ASSUME ArgumentsInv PROVE QuotingRoundTrips
  <2>1. SUFFICES ASSUME NEW k \in DOMAIN toks
                 PROVE  LET q == Quote(toks[k].text)
                            t == Lex(q, 1)
                        IN t.type = "string" /\ t.text = toks[k].text /\ t.end = Len(q) + 1
    BY DEF QuotingRoundTrips
  <2>2. toks \in Seq(Token)
    BY <1>1, LineFacts
  <2>3. toks[k] \in Token
    BY <2>2
  <2>4. toks[k].text \in Text
    BY <2>3 DEF Token
  <2>5. QED
    BY <2>4, QuoteIsRead
<1>2. QED
  BY <1>1, ArgumentsInvariant, PTL
=============================================================================

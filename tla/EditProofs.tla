----------------------------- MODULE EditProofs -----------------------------
(***************************************************************************)
(* Proofs about the line editor, for every block size, every set of keys   *)
(* shorter than a block, and whatever isspace() returns.                   *)
(***************************************************************************)
EXTENDS Edit, LexerProofs

(***************************************************************************)
(* Why no append() adds to the overrun: the storage ends less than a key   *)
(* short of a block boundary, and no text gets past that boundary without  *)
(* append() seeing it.                                                     *)
(***************************************************************************)
Boundary(n, M) ==
  M % BlockSz = 0 /\ cap <= M /\ M < cap + n /\ Len(buf) <= M

NearBoundary ==
  cap > 0 => \E cp \in Codepoints, M \in Nat : Boundary(Len(cp), M)

EditInv == EditTypeOK /\ TextHasStorage /\ NearBoundary

\* A text that fits below a block boundary still does after an append that
\* does not reach the boundary.
LEMMA NoBoundaryCrossed ==
  ASSUME NEW B \in Nat \ {0}, NEW l \in Nat, NEW n \in 1 .. B - 1,
         NEW c \in Nat, c % B = 0, l <= c, ~((l + n - 1) % B < n)
  PROVE  l + n <= c
  BY SMT

\* The boundary after one at or below x, if the one is within n bytes of x.
LEMMA NextBoundary ==
  ASSUME NEW B \in Nat \ {0}, NEW x \in Nat
  PROVE  /\ x % B \in 0 .. B - 1 /\ x - (x % B) >= 0
         /\ (x - (x % B) + B) % B = 0
<1>1. x % B \in 0 .. B - 1
  BY SMT
<1>2. PICK q \in Int : x - (x % B) = B * q
  BY SMT
<1>3. x - (x % B) >= 0
  <2>1. CASE x < B
    <3>1. x % B = x
      BY <2>1, SMT
    <3>2. QED
      BY <3>1
  <2>2. CASE x >= B
    BY <1>1, <2>2
  <2>3. QED
    BY <2>1, <2>2
<1>4. q >= 0
  BY <1>2, <1>3, SMT
<1>5. PICK p \in Nat : p = q + 1
  BY <1>4
<1>6. x - (x % B) + B = B * p
  <2>1. B * p = B * q + B
    BY <1>5, SMT
  <2>2. QED
    BY <1>2, <2>1
<1>7. (B * p) % B = 0
  BY SMT
<1>8. QED
  BY <1>1, <1>3, <1>6, <1>7

\* An append that reaches a boundary has it among the n bytes it writes, and
\* the next one is beyond the block it extends the storage by.
LEMMA BoundaryReached ==
  ASSUME NEW B \in Nat \ {0}, NEW l \in Nat, NEW n \in 1 .. B - 1,
         (l + n - 1) % B < n
  PROVE  \E M \in Nat : M % B = 0 /\ l + B <= M /\ M < l + B + n
<1>1. PICK x \in Nat : x = l + n - 1
  OBVIOUS
<1>2. /\ x % B \in 0 .. B - 1 /\ x - (x % B) >= 0
      /\ (x - (x % B) + B) % B = 0
  BY NextBoundary, Zenon
<1>3. x % B < n
  BY <1>1
<1>4. PICK r \in 0 .. B - 1 : r = x % B
  BY <1>2
<1>5. r < n /\ x - r >= 0 /\ (x - r + B) % B = 0
  BY <1>2, <1>3, <1>4
<1>6. PICK M \in Nat : M = x - r + B
  BY <1>5
<1>7. QED
  BY <1>1, <1>5, <1>6

\* The first append() to an empty line always allocates.
LEMMA EmptyGrows ==
  ASSUME NEW B \in Nat \ {0}, NEW n \in 1 .. B - 1
  PROVE  (0 + n - 1) % B < n
  BY SMT

\* What a key delivers.
LEMMA CodepointType ==
  ASSUME NEW cp \in Codepoints
  PROVE  cp \in Seq(Byte \ {NUL}) /\ Len(cp) \in 1 .. BlockSz - 1
  BY CodepointsFit, BlockSzIsNat DEF Text, NUL

\* append(): the boundary stays ahead of the text, or moves on by a block.
LEMMA AppendKeeps ==
  ASSUME EditInv, NEW cp \in Codepoints, Append_(cp)
  PROVE  EditInv'
<1>1. /\ cp \in Seq(Byte \ {NUL}) /\ Len(cp) \in 1 .. BlockSz - 1
      /\ buf \in Seq(Byte \ {NUL}) /\ cap \in Nat /\ Len(buf) \in Nat
  BY CodepointType DEF EditInv, EditTypeOK
<1>2. CASE UNCHANGED <<buf, cap, aborted>> /\ ret' = -1
  BY <1>2 DEF EditInv, EditTypeOK, NearBoundary, Boundary, TextHasStorage, Append_
<1>3. CASE /\ cap' = IF Grows(Len(cp)) THEN Len(buf) + BlockSz ELSE cap
           /\ buf' = buf \o cp /\ ret' = 0
           /\ UNCHANGED aborted \/ (Len(buf') + 1 > cap' /\ aborted' = TRUE)
  <2>1. buf' \in Seq(Byte \ {NUL}) /\ Len(buf') = Len(buf) + Len(cp)
    BY <1>1, <1>3
  <2>2. cap' \in Nat /\ cap' > 0 /\ NearBoundary'
    <3>1. CASE Grows(Len(cp))
      <4>1. PICK M \in Nat : /\ M % BlockSz = 0 /\ Len(buf) + BlockSz <= M
                             /\ M < Len(buf) + BlockSz + Len(cp)
        BY <1>1, <3>1, BoundaryReached, BlockSzIsNat DEF Grows
      <4>2. cap' = Len(buf) + BlockSz /\ cap' \in Nat /\ cap' > 0
        BY <1>1, <1>3, <3>1, BlockSzIsNat
      <4>3. Boundary(Len(cp), M)'
        BY <1>1, <2>1, <4>1, <4>2, BlockSzIsNat DEF Boundary
      <4>4. QED
        BY <4>2, <4>3 DEF NearBoundary
    <3>2. CASE ~Grows(Len(cp))
      <4>1. cap' = cap
        BY <1>3, <3>2
      <4>2. buf # <<>>
        BY <1>1, <3>2, EmptyGrows, BlockSzIsNat DEF Grows
      <4>3. cap > 0
        BY <4>2 DEF EditInv, TextHasStorage
      <4>4. PICK c \in Codepoints, M \in Nat : Boundary(Len(c), M)
        BY <4>3 DEF EditInv, NearBoundary
      <4>5. Len(buf) + Len(cp) <= M
        BY <1>1, <3>2, <4>4, NoBoundaryCrossed, BlockSzIsNat DEF Boundary, Grows
      <4>6. Boundary(Len(c), M)'
        BY <2>1, <4>1, <4>4, <4>5 DEF Boundary
      <4>7. QED
        BY <1>1, <4>1, <4>3, <4>6 DEF NearBoundary
    <3>3. QED
      BY <3>1, <3>2
  <2>3. EditTypeOK'
    <3>1. Len(buf') <= MaxLine
      BY <1>1, <1>3, <2>1 DEF Append_
    <3>2. aborted' \in BOOLEAN
      BY <1>3 DEF EditInv, EditTypeOK
    <3>3. QED
      BY <1>3, <2>1, <2>2, <3>1, <3>2 DEF EditTypeOK
  <2>4. QED
    BY <2>2, <2>3 DEF EditInv, TextHasStorage
<1>4. QED
  BY <1>2, <1>3 DEF Append_

\* Erasing shortens the text and leaves the storage alone.
LEMMA BackspaceKeeps ==
  ASSUME EditInv, NEW n \in Nat, Backspace(n)
  PROVE  EditInv'
<1>1. buf \in Seq(Byte \ {NUL}) /\ Len(buf) \in Nat
  BY DEF EditInv, EditTypeOK
<1>2. CASE n = 0 \/ (buf # <<>> /\ n > Len(buf))
  BY <1>2 DEF EditInv, EditTypeOK, NearBoundary, Boundary, TextHasStorage, Backspace, Abort
<1>3. CASE ~(n = 0 \/ (buf # <<>> /\ n > Len(buf)))
  <2>1. /\ buf' = SubSeq(buf, 1, Len(buf) - n)
        /\ ret' \in {0, -1} /\ UNCHANGED <<cap, aborted>>
    BY <1>3 DEF Backspace
  <2>2. /\ buf' \in Seq(Byte \ {NUL}) /\ Len(buf') <= Len(buf)
        /\ buf' # <<>> => buf # <<>>
    BY <1>1, <1>3, <2>1
  <2>3. NearBoundary'
    <3>1. ASSUME cap > 0 PROVE NearBoundary'
      <4>1. PICK c \in Codepoints, M \in Nat : Boundary(Len(c), M)
        BY <3>1 DEF EditInv, NearBoundary
      <4>2. Len(buf') \in Nat
        BY <2>2
      <4>3. Boundary(Len(c), M)'
        BY <1>1, <2>1, <2>2, <4>1, <4>2 DEF Boundary
      <4>4. QED
        BY <4>3 DEF NearBoundary
    <3>2. QED
      BY <2>1, <3>1 DEF NearBoundary
  <2>4. QED
    BY <1>1, <2>1, <2>2, <2>3, MaxLineIsNat DEF EditInv, EditTypeOK, TextHasStorage
<1>4. QED
  BY <1>2, <1>3

\* Every key but a newline.
LEMMA EditPushKeeps ==
  ASSUME EditInv, NEW trie \in BOOLEAN, EditPush(trie)
  PROVE  EditInv'
<1>1. buf \in Seq(Byte \ {NUL}) /\ Len(buf) \in Nat
  BY DEF EditInv, EditTypeOK
<1>2. ASSUME UNCHANGED <<buf, cap, aborted>>, ret' = 0 PROVE EditInv'
  BY <1>2 DEF EditInv, EditTypeOK, NearBoundary, Boundary, TextHasStorage
<1>3. ASSUME NEW cp \in Codepoints, Codepoint(trie, cp) PROVE EditInv'
  BY <1>2, <1>3, AppendKeeps DEF Codepoint
<1>4. CASE Backspace(1)
  BY <1>4, BackspaceKeeps
<1>5. CASE DeleteLine
  BY <1>1, <1>5, BackspaceKeeps DEF DeleteLine
<1>6. CASE DeleteWord
  <2>1. CASE buf = <<>>
    BY <1>2, <1>6, <2>1 DEF DeleteWord
  <2>2. CASE buf # <<>>
    <3>1. PICK n \in LengthFrom(WordStart(Tokens(buf))) : Backspace(n)
      BY <1>6, <2>2 DEF DeleteWord
    <3>2. n \in Nat
      BY <1>1 DEF LengthFrom
    <3>3. QED
      BY <3>1, <3>2, BackspaceKeeps
  <2>3. QED
    BY <2>1, <2>2
<1>7. QED
  BY <1>3, <1>4, <1>5, <1>6 DEF EditPush

\* Handing the line over leaves an empty line, with or without storage.
LEMMA ReleasedKeeps ==
  ASSUME EditInv, Released, ret' \in {-1, 0, 1}, aborted' \in BOOLEAN
  PROVE  EditInv'
  BY MaxLineIsNat, BlockSzIsNat
     DEF EditInv, EditTypeOK, NearBoundary, Boundary, TextHasStorage, Released

\* The editor as ectx_create() leaves it.
LEMMA EditInitInv == EditInit => EditInv
<1>1. EditInit => EditTypeOK
  <2>1. /\ <<>> \in Seq(Byte \ {NUL}) /\ Len(<<>>) <= MaxLine
        /\ 0 \in Nat /\ 0 \in {-1, 0, 1}
    BY MaxLineIsNat
  <2>2. QED
    BY <2>1 DEF EditInit, EditTypeOK
<1>2. EditInit => NearBoundary /\ TextHasStorage
  BY DEF EditInit, NearBoundary, TextHasStorage
<1>3. QED
  BY <1>1, <1>2 DEF EditInv

\* What the boundary ahead of the text says of the storage.
LEMMA OverrunOf == EditInv => OverrunIsBounded
<1>1. SUFFICES ASSUME EditInv, buf # <<>>
               PROVE  \E cp \in Codepoints : Len(buf) + 1 <= cap + Len(cp)
  BY DEF OverrunIsBounded
<1>2. PICK cp \in Codepoints, M \in Nat : Boundary(Len(cp), M)
  BY <1>1 DEF EditInv, NearBoundary, TextHasStorage
<1>3. Len(buf) \in Nat /\ cap \in Nat /\ Len(cp) \in Nat
  BY <1>1, CodepointType DEF EditInv, EditTypeOK
<1>4. QED
  BY <1>2, <1>3 DEF Boundary

(***************************************************************************)
(* A line with text always has storage, and append() never writes more     *)
(* than one key's bytes past it, the terminator counted: whatever is typed *)
(* and erased, the text can run past its storage no further.               *)
(***************************************************************************)
THEOREM EditInvariant == EditSpec => [](EditTypeOK /\ OverrunIsBounded /\ TextHasStorage)
<1>1. EditInit => EditInv
  BY EditInitInv
<1>2. EditInv /\ [EditNext]_editVars => EditInv'
  <2>1. ASSUME EditInv, EditNext PROVE EditInv'
    <3>1. CASE \E trie \in BOOLEAN : EditPush(trie)
      BY <2>1, <3>1, EditPushKeeps
    <3>2. CASE Newline
      BY <2>1, <3>2, ReleasedKeeps DEF Newline, EditInv, EditTypeOK
    <3>3. QED
      BY <2>1, <3>1, <3>2 DEF EditNext
  <2>2. ASSUME EditInv, UNCHANGED editVars PROVE EditInv'
    BY <2>2 DEF EditInv, EditTypeOK, NearBoundary, Boundary, TextHasStorage, editVars
  <2>3. QED
    BY <2>1, <2>2
<1>3. EditInv => EditTypeOK /\ OverrunIsBounded /\ TextHasStorage
  BY OverrunOf DEF EditInv
<1>4. QED
  BY <1>1, <1>2, <1>3, PTL DEF EditSpec

(***************************************************************************)
(* A line with text never outlives its storage: no release or failed       *)
(* allocation leaves text behind that ectx's buffer no longer holds.       *)
(***************************************************************************)
COROLLARY EditStorage == EditSpec => []TextHasStorage
  BY EditInvariant, PTL

(***************************************************************************)
(* The types: whatever keys come, the line is a string of bytes without a  *)
(* terminator in it, and every call returns -1, 0 or 1.                    *)
(***************************************************************************)
COROLLARY EditTypes == EditSpec => []EditTypeOK
  BY EditInvariant, PTL

-----------------------------------------------------------------------------
\* What DeleteWord has to find in a line without errors: where the last token
\* but one ends, and what the line is up to there.
Erased(s, m) ==
  /\ m \in 0 .. Len(s) - 1
  /\ Tokens(SubSeq(s, 1, m)) = SubSeq(Tokens(s), 1, Len(Tokens(s)) - 1)

\* The line up to the end of token k, and one space if that is next.
KeptTo(s, k) ==
  LET e == Tokens(s)[k].end IN IF At(s, e) = SP THEN e ELSE e - 1

LEMMA CutOf ==
  ASSUME NEW s \in Text, NEW m \in 0 .. Len(s)
  PROVE  Cut(SubSeq(s, 1, m), s, m)
<1>1. s \in Seq(Byte \ {0}) /\ Len(s) \in Nat
  BY DEF Text
<1>2. /\ SubSeq(s, 1, m) \in Seq(Byte \ {0}) /\ Len(SubSeq(s, 1, m)) = m
      /\ \A j \in 1 .. m : SubSeq(s, 1, m)[j] = s[j]
  BY <1>1
<1>3. QED
  BY <1>2 DEF Cut, Text

LEMMA NoTokens ==
  ASSUME NEW s \in Text, Len(Tokens(s)) < 2, s # <<>>
  PROVE  Erased(s, 0)
<1>1. s \in Seq(Byte \ {0}) /\ Len(s) \in Nat /\ Len(s) >= 1
  BY DEF Text
<1>2. SubSeq(s, 1, 0) = <<>>
  BY <1>1
<1>3. Tokens(<<>>) = <<>>
  <2>1. PICK z \in Text : z = <<>> /\ Len(z) = 0
    <3>1. <<>> \in Seq(Byte \ {0}) /\ Len(<<>>) = 0
      OBVIOUS
    <3>2. QED
      BY <3>1 DEF Text
  <2>2. 1 \in 1 .. Len(z) + 1 /\ \A k \in 1 .. Len(z) : IsSpace(z[k])
    BY <2>1
  <2>3. Lex(z, 1) = NoTok
    <3>1. ~\E start \in 1 .. Len(z) : ~IsSpace(z[start])
      BY <2>2
    <3>2. QED
      BY <2>2, <3>1, LexFinds
  <2>4. TokensFrom(z)[1] = <<>>
    BY <2>2, <2>3, TokensFromIs
  <2>5. QED
    BY <2>1, <2>4 DEF Tokens
<1>4. SubSeq(Tokens(s), 1, Len(Tokens(s)) - 1) = <<>>
  <2>1. 1 \in 1 .. Len(s) + 1
    BY <1>1
  <2>2. PICK toks \in Seq(Token) : toks = Tokens(s)
    BY <2>1, TokensFromIs DEF Tokens
  <2>3. Len(toks) < 2
    BY <2>2, Zenon
  <2>4. SubSeq(toks, 1, Len(toks) - 1) = <<>>
    <3>1. PICK n \in Int : n = Len(toks) - 1 /\ n < 1
      BY <2>3
    <3>2. SubSeq(toks, 1, n) \in Seq(Token) /\ Len(SubSeq(toks, 1, n)) = 0
      BY <2>2, <2>3, <3>1
    <3>3. QED
      BY <3>1, <3>2
  <2>5. QED
    BY <2>2, <2>4
<1>5. 0 \in 0 .. Len(s) - 1
  BY <1>1
<1>6. Tokens(SubSeq(s, 1, 0)) = SubSeq(Tokens(s), 1, Len(Tokens(s)) - 1)
  BY <1>2, <1>3, <1>4, Zenon
<1>7. QED
  BY <1>5, <1>6, Zenon DEF Erased

LEMMA LastTokenGoes ==
  ASSUME NEW s \in Text, Len(Tokens(s)) >= 2, ErrorsIn(Tokens(s)) = {}
  PROVE  Erased(s, KeptTo(s, Len(Tokens(s)) - 1))
<1>1. Len(s) \in Nat /\ 1 \in 1 .. Len(s) + 1
  BY DEF Text
<1>2. PICK toks \in Seq(Token) : toks = Tokens(s) /\ toks = TokensFrom(s)[1]
  BY <1>1, TokensFromIs DEF Tokens
<1>3. PICK k \in Nat : k = Len(toks) - 1 /\ k \in 1 .. Len(toks) /\ k < Len(toks)
  <2>1. Len(toks) \in Nat
    OBVIOUS
  <2>2. Len(toks) >= 2
    BY <1>2, Zenon
  <2>3. Len(toks) - 1 \in Nat /\ Len(toks) - 1 \in 1 .. Len(toks) /\ Len(toks) - 1 < Len(toks)
    BY <2>1, <2>2
  <2>4. QED
    BY <2>3
<1>4. Linked(s, 1, toks, k)
  BY <1>1, <1>2, <1>3, TokensAreLinked
<1>5. PICK e \in 1 .. Len(s) + 1 : e = toks[k].end /\ e >= 1 + 1
  BY <1>1, <1>4 DEF Linked
<1>6. Lex(s, e) # NoTok
  BY <1>3, <1>4, <1>5 DEF Linked
<1>7. PICK start \in e .. Len(s) : ~IsSpace(s[start])
  BY <1>6, LexFinds
<1>8. PICK m : m = KeptTo(s, k)
  OBVIOUS
<1>9. m = IF s[e] = SP THEN e ELSE e - 1
  <2>1. m = IF At(s, e) = SP THEN e ELSE e - 1
    <3>1. Tokens(s)[k].end = e
      BY <1>2, <1>5, Zenon
    <3>2. QED
      BY <1>8, <3>1, Zenon DEF KeptTo
  <2>2. At(s, e) = s[e]
    BY <1>1, <1>5, <1>7 DEF At
  <2>3. QED
    BY <2>1, <2>2
<1>10. m \in 0 .. Len(s) - 1 /\ CutAfter(s, m, e)
  <2>1. e \in Nat /\ e >= 2 /\ e <= Len(s)
    BY <1>1, <1>5, <1>7
  <2>2. CASE s[e] = SP
    <3>1. start # e
      BY <1>7, <2>2 DEF IsSpace
    <3>2. e < Len(s)
      BY <1>1, <1>7, <3>1
    <3>3. m = e
      BY <1>9, <2>2
    <3>4. m \in 0 .. Len(s) - 1
      BY <1>1, <2>1, <3>2, <3>3
    <3>5. QED
      BY <2>2, <3>3, <3>4 DEF CutAfter
  <2>3. CASE s[e] # SP
    <3>1. m = e - 1
      BY <1>9, <2>3
    <3>2. m \in 0 .. Len(s) - 1 /\ e = m + 1
      BY <1>1, <2>1, <3>1
    <3>3. QED
      BY <3>2 DEF CutAfter
  <2>4. QED
    BY <2>2, <2>3
<1>11. \A j \in 1 .. k : toks[j].type # "error"
  BY <1>2, <1>3 DEF ErrorsIn
<1>12. m \in 0 .. Len(s)
  BY <1>1, <1>10
<1> DEFINE z == SubSeq(s, 1, m)
<1>13. Cut(z, s, m)
  BY <1>12, CutOf
<1> HIDE DEF z
<1>14. PrefixLexed(z, s, m, 1, k)
  BY <1>1, <1>13, TokensAreKept
<1>15. TokensFrom(z)[1] = SubSeq(toks, 1, k)
  BY <1>2, <1>3, <1>5, <1>10, <1>11, <1>14 DEF PrefixLexed
<1>16. Erased(s, m)
  BY <1>2, <1>3, <1>10, <1>15 DEF Erased, Tokens, z
<1>17. QED
  BY <1>2, <1>3, <1>8, <1>16

\* What a step that deletes a word does, as WordErased has it.
OneWordLess ==
  DeleteWord /\ buf # <<>> /\ ErrorsIn(Tokens(buf)) = {} =>
    /\ buf' = WithoutLast(Tokens(buf))
    /\ Tokens(buf') = SubSeq(Tokens(buf), 1, Len(Tokens(buf)) - 1)

\* One space is kept of those before the last word, and isspace() returns 1.
SpaceIsOne == SpaceKept(Tokens(buf)) => IsSpaceTrue = 1

LEMMA WordIsErased ==
  ASSUME EditTypeOK, SpaceIsOne
  PROVE  OneWordLess
<1>1. SUFFICES ASSUME DeleteWord, buf # <<>>, ErrorsIn(Tokens(buf)) = {}
               PROVE  /\ buf' = WithoutLast(Tokens(buf))
                      /\ Tokens(buf') = SubSeq(Tokens(buf), 1, Len(Tokens(buf)) - 1)
  BY DEF OneWordLess
<1>2. PICK s \in Text : s = buf /\ Len(s) \in Nat /\ Len(s) >= 1 /\ s \in Seq(Byte \ {0})
  BY <1>1 DEF EditTypeOK, Text, NUL
<1>3. PICK toks \in Seq(Token) : toks = Tokens(s) /\ Len(toks) \in Nat
  <2>1. 1 \in 1 .. Len(s) + 1
    BY <1>2
  <2>2. QED
    BY <2>1, TokensFromIs DEF Tokens
<1>4. PICK start : start = WordStart(toks)
  OBVIOUS
<1>5. PICK n \in LengthFrom(start) : Backspace(n)
  BY <1>1, <1>2, <1>3, <1>4 DEF DeleteWord
<1>6. start = StartAfter(toks, Len(toks) - 1)
  BY <1>1, <1>2, <1>3, <1>4 DEF WordStart
<1>7. ASSUME NEW m, Erased(s, m), start = m + 1 PROVE buf' = SubSeq(s, 1, m)
  <2>1. m \in Nat /\ m < Len(s) /\ start \in 1 .. Len(buf) + 1
    BY <1>2, <1>7 DEF Erased
  <2>2. n = Len(s) - m
    BY <1>2, <1>5, <1>7, <2>1 DEF LengthFrom
  <2>3. ~(n = 0 \/ (buf # <<>> /\ n > Len(buf))) /\ Len(buf) - n = m
    BY <1>2, <2>1, <2>2
  <2>4. QED
    BY <1>2, <1>5, <2>3 DEF Backspace
<1>8. CASE Len(toks) < 2
  <2>1. Erased(s, 0)
    BY <1>1, <1>2, <1>3, <1>8, NoTokens
  <2>2. start = 0 + 1
    BY <1>3, <1>6, <1>8 DEF StartAfter
  <2>3. buf' = SubSeq(s, 1, 0) /\ SubSeq(s, 1, 0) = <<>>
    BY <1>2, <1>7, <2>1, <2>2
  <2>4. QED
    BY <1>2, <1>3, <1>8, <2>1, <2>3 DEF Erased, WithoutLast
<1>9. CASE Len(toks) >= 2
  <2>1. PICK m : m = KeptTo(s, Len(toks) - 1)
    OBVIOUS
  <2>2. Erased(s, m)
    BY <1>1, <1>2, <1>3, <1>9, <2>1, LastTokenGoes
  <2>3. PICK e \in Nat : e = toks[Len(toks) - 1].end
    <3>1. Len(toks) - 1 \in 1 .. Len(toks)
      BY <1>3, <1>9
    <3>2. toks[Len(toks) - 1] \in Token
      BY <3>1
    <3>3. QED
      BY <3>2 DEF Token
  <2>4. m = IF At(buf, e) = SP THEN e ELSE e - 1
    BY <1>2, <1>3, <2>1, <2>3 DEF KeptTo
  <2>5. start = m + 1
    <3>1. start = e + IF At(buf, e) = SP THEN 1 ELSE 0
      <4>1. start = e + IF At(buf, e) = SP THEN IsSpaceTrue ELSE 0
        BY <1>3, <1>6, <1>9, <2>3 DEF StartAfter
      <4>2. At(buf, e) = SP => IsSpaceTrue = 1
        BY <1>2, <1>3, <1>9, <2>3 DEF SpaceIsOne, SpaceKept
      <4>3. QED
        BY <4>1, <4>2
    <3>2. QED
      BY <2>4, <3>1
  <2>6. buf' = SubSeq(s, 1, m)
    BY <1>7, <2>2, <2>5
  <2>7. WithoutLast(toks) = SubSeq(buf, 1, m)
    BY <1>3, <1>9, <2>3, <2>4 DEF WithoutLast
  <2>8. QED
    BY <1>2, <1>3, <2>2, <2>6, <2>7 DEF Erased
<1>10. QED
  BY <1>3, <1>8, <1>9

(***************************************************************************)
(* Whatever isspace() returns: deleting a word takes the last token from a *)
(* line without errors, whatever it is made of, and leaves the tokens      *)
(* before it as they are read, as long as the 1 that edit_backword() takes *)
(* isspace() to return for a space to be kept is what it returns.  That is *)
(* more than C says, and glibc returns 8192.                               *)
(***************************************************************************)
THEOREM OneWordIsErased ==
  EditSpec /\ [][DeleteWord => SpaceIsOne]_editVars => WordErased
<1>1. EditTypeOK /\ (DeleteWord => SpaceIsOne) => OneWordLess
  BY WordIsErased DEF OneWordLess
<1>2. EditTypeOK /\ [EditNext]_editVars /\ [DeleteWord => SpaceIsOne]_editVars
        => [OneWordLess]_editVars
  BY <1>1
<1>3. QED
  BY <1>2, EditTypes, PTL DEF EditSpec, WordErased, OneWordLess
=============================================================================

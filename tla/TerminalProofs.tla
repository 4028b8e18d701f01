----------------------------- MODULE TerminalProofs ----------------------------
(***************************************************************************)
(* Proofs about the editor behind a terminal, for every block size, set of *)
(* keys, and whatever isspace() returns or fails.                          *)
(***************************************************************************)
EXTENDS Terminal, EditProofs

ScreenInv == screen \in {buf, Lost}

TerminalInv == EditInv /\ ScreenInv

\* Help, and events without effect, leave the line alone.
LEMMA LineKept ==
  ASSUME EditInv, UNCHANGED <<buf, cap, aborted>>, ret' = 0
  PROVE  EditInv'
BY DEF EditInv, EditTypeOK, NearBoundary, Boundary, TextHasStorage

\* Cells are erased as bytes are.
LEMMA EraseKeepsStep ==
  ASSUME EditInv, ScreenInv, NEW n \in Nat, Backspace(n), Erase
  PROVE  ScreenInv'
<1>1. buf \in Seq(Byte \ {NUL}) /\ Len(buf) \in Nat
  BY DEF EditInv, EditTypeOK
<1>2. CASE buf' = buf
  <2>1. screen' = screen
    BY <1>1, <1>2 DEF Erase
  <2>2. QED
    BY <1>2, <2>1 DEF ScreenInv, Lost
<1>3. CASE buf' # buf
  <2>1. n > 0 /\ n <= Len(buf) /\ buf' = SubSeq(buf, 1, Len(buf) - n)
    <3>1. /\ ~(n = 0 \/ (buf # <<>> /\ n > Len(buf)))
          /\ buf' = SubSeq(buf, 1, Len(buf) - n)
      BY <1>3 DEF Backspace, Abort
    <3>2. CASE buf = <<>>
      BY <1>3, <3>1, <3>2
    <3>3. QED
      BY <1>1, <3>1, <3>2
  <2>2. Len(buf) - Len(buf') = n
    BY <1>1, <2>1
  <2>3. \/ screen' = Lost
        \/ screen # Lost /\ screen' = SubSeq(screen, 1, Len(screen) - n)
    BY <2>1, <2>2 DEF Erase, Shown, WithoutCells
  <2>4. QED
    BY <2>1, <2>3 DEF ScreenInv, Lost
<1>4. QED
  BY <1>2, <1>3

LEMMA BackspaceStep ==
  ASSUME TerminalInv, NEW n \in Nat, Backspace(n), Erase
  PROVE  TerminalInv'
BY BackspaceKeeps, EraseKeepsStep DEF TerminalInv

LEMMA HelpStep ==
  ASSUME TerminalInv, NEW trie \in BOOLEAN, Help(trie)
  PROVE  TerminalInv'
<1>1. EditInv' /\ buf' = buf
  BY LineKept DEF TerminalInv, Help
<1>2. screen' \in {buf, Lost}
  BY DEF TerminalInv, ScreenInv, Help, Redisplay, Shown
<1>3. QED
  BY <1>1, <1>2 DEF TerminalInv, ScreenInv, Lost

\* A character is echoed as it is stored.
LEMMA TypedStep ==
  ASSUME TerminalInv, NEW trie \in BOOLEAN, NEW cp \in Codepoints, Typed(trie, cp)
  PROVE  TerminalInv'
<1>1. CASE trie /\ cp[1] = QM
  BY <1>1, HelpStep DEF Typed
<1>2. CASE ~(trie /\ cp[1] = QM)
  <2>1. Codepoint(trie, cp)
    BY <1>2 DEF Typed
  <2>2. EditInv'
    BY <2>1, EditPushKeeps DEF TerminalInv, EditPush
  <2>3. CASE cp[1] \in {CR, ESC, HT}
    <3>1. buf' = buf /\ screen' = screen
      BY <1>2, <2>1, <2>3 DEF Typed, Codepoint
    <3>2. QED
      BY <2>2, <3>1 DEF TerminalInv, ScreenInv, Lost
  <2>4. CASE ~(cp[1] \in {CR, ESC, HT})
    <3>1. Append_(cp)
      BY <1>2, <2>1, <2>4 DEF Codepoint
    <3>2. ret' # -1 => buf' = buf \o cp
      BY <3>1 DEF Append_
    <3>3. \/ screen' = Lost
          \/ screen # Lost /\ ret' # -1 /\ screen' = screen \o cp
      BY <1>2, <2>4 DEF Typed, Shown
    <3>4. screen' \in {buf', Lost}
      BY <3>2, <3>3 DEF TerminalInv, ScreenInv
    <3>5. QED
      BY <2>2, <3>4 DEF TerminalInv, ScreenInv, Lost
  <2>5. QED
    BY <2>3, <2>4
<1>3. QED
  BY <1>1, <1>2

LEMMA EnteredStep ==
  ASSUME TerminalInv, Entered
  PROVE  TerminalInv'
<1>1. EditInv'
  BY ReleasedKeeps DEF TerminalInv, Entered, Newline, EditInv, EditTypeOK
<1>2. buf' = <<>> /\ screen' \in {<<>>, Lost}
  BY DEF Entered, Newline, Released, Shown
<1>3. QED
  BY <1>1, <1>2 DEF TerminalInv, ScreenInv, Lost

LEMMA PushStep ==
  ASSUME TerminalInv, NEW trie \in BOOLEAN, NEW e, Push(trie, e)
  PROVE  TerminalInv'
<1>1. buf \in Seq(Byte \ {NUL}) /\ Len(buf) \in Nat
  BY DEF TerminalInv, EditInv, EditTypeOK
<1>2. CASE Backspace(1) /\ Erase
  BY <1>2, BackspaceStep
<1>3. CASE DeleteLine /\ Erase
  BY <1>1, <1>3, BackspaceStep DEF DeleteLine
<1>4. CASE DeleteWord /\ Erase
  <2>1. CASE buf = <<>>
    <3>1. UNCHANGED <<buf, cap, aborted>> /\ ret' = 0
      BY <1>4, <2>1 DEF DeleteWord
    <3>2. screen' = screen
      BY <1>1, <1>4, <3>1 DEF Erase
    <3>3. QED
      BY <3>1, <3>2, LineKept DEF TerminalInv, ScreenInv, Lost
  <2>2. CASE buf # <<>>
    <3>1. PICK n \in LengthFrom(WordStart(Tokens(buf))) : Backspace(n)
      BY <1>4, <2>2 DEF DeleteWord
    <3>2. n \in Nat
      BY <1>1 DEF LengthFrom
    <3>3. QED
      BY <1>4, <3>1, <3>2, BackspaceStep
  <2>3. QED
    BY <2>1, <2>2
<1>5. CASE Help(trie)
  BY <1>5, HelpStep
<1>6. CASE ret' = 0 /\ UNCHANGED <<buf, cap, aborted, screen>>
  BY <1>6, LineKept DEF TerminalInv, ScreenInv, Lost
<1>7. QED
  BY <1>2, <1>3, <1>4, <1>5, <1>6 DEF Push

LEMMA KeyStep ==
  ASSUME TerminalInv, NEW trie \in BOOLEAN, Key(trie)
  PROVE  TerminalInv'
<1>1. \/ \E cp \in Codepoints : Typed(trie, cp)
      \/ Entered
      \/ \E e : Push(trie, e)
  <2>1. ASSUME NEW sym, Keysym(trie, sym) PROVE \E e : Push(trie, e)
    BY <2>1 DEF Keysym
  <2>2. ASSUME NEW c, Ctrl(trie, c) PROVE \E e : Push(trie, e)
    BY <2>2 DEF Ctrl
  <2>3. CASE UnknownKey(trie)
    BY <2>3 DEF UnknownKey
  <2>4. QED
    BY <2>1, <2>2, <2>3 DEF Key, TextKey, EnterKey, FunctionKey
<1>2. QED
  BY <1>1, TypedStep, EnteredStep, PushStep

LEMMA TerminalKeeps == TerminalSpec => []TerminalInv
<1>1. TerminalInit => TerminalInv
  BY EditInitInv DEF TerminalInit, TerminalInv, ScreenInv, EditInit
<1>2. TerminalInv /\ [TerminalNext]_termVars => TerminalInv'
  <2>1. ASSUME TerminalInv, TerminalNext PROVE TerminalInv'
    BY <2>1, KeyStep DEF TerminalNext
  <2>2. ASSUME TerminalInv, UNCHANGED termVars PROVE TerminalInv'
    BY <2>2 DEF termVars, editVars, TerminalInv, ScreenInv, Lost,
                EditInv, EditTypeOK, NearBoundary, Boundary, TextHasStorage
  <2>3. QED
    BY <2>1, <2>2
<1>3. QED
  BY <1>1, <1>2, PTL DEF TerminalSpec

(***************************************************************************)
(* The screen shows the line, and the line has storage and never runs past *)
(* it by more than a key, whatever keys come, with and without an event of *)
(* their own, and whichever allocations and outputs fail: echo, erasing    *)
(* and help agree on what the line is.                                     *)
(***************************************************************************)
THEOREM ScreenInvariant ==
  TerminalSpec => [](ScreenShowsLine /\ EditTypeOK /\ OverrunIsBounded /\ TextHasStorage)
<1>1. TerminalInv => ScreenShowsLine /\ EditTypeOK /\ OverrunIsBounded /\ TextHasStorage
  BY OverrunOf DEF TerminalInv, ScreenInv, ScreenShowsLine, EditInv
<1>2. QED
  BY <1>1, TerminalKeeps, PTL

(***************************************************************************)
(* Ctrl-W, as the editor behind a terminal handles it, whatever isspace()  *)
(* returns: the last token goes from any line without errors that can be   *)
(* typed there, and nothing else does, as long as the number that is added *)
(* for a space to be kept is 1.                                            *)
(***************************************************************************)
THEOREM CtrlWErasesOneWord ==
  TerminalSpec /\ [][DeleteWord => SpaceIsOne]_editVars => WordErased
<1>1. TerminalInv /\ (DeleteWord => SpaceIsOne) => OneWordLess
  BY WordIsErased DEF TerminalInv, EditInv, OneWordLess
<1>2. TerminalInv /\ [TerminalNext]_termVars /\ [DeleteWord => SpaceIsOne]_editVars
        => [OneWordLess]_editVars
  BY <1>1
<1>3. QED
  BY <1>2, TerminalKeeps, PTL DEF TerminalSpec, WordErased, OneWordLess
=============================================================================

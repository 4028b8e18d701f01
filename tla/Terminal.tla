-------------------------------- MODULE Terminal -------------------------------
(***************************************************************************)
(* A terminal in front of the line editor: which key becomes which event   *)
(* (io/ecma48.c), and what is left on the screen of what they print        *)
(* (edit.c and the layer's output).  Output that a layer passes on as it   *)
(* is, and lines too long for the screen, are left out.                    *)
(***************************************************************************)
EXTENDS Edit

VARIABLE screen   \* what is shown after the prompt, as bytes; or Lost

termVars == <<editVars, screen>>

(***************************************************************************)
(* The screen is given up for lost when output has failed, when a key was  *)
(* echoed that could then not be stored, and when a character of several   *)
(* bytes is erased: a cell is erased for each of them.                     *)
(***************************************************************************)
Lost == <<NUL>>

TerminalInit == EditInit /\ screen = <<>>

\* Output that leaves cells after the prompt, if it does not fail.
Shown(cells) == screen' \in {cells} \cup (IF SendFails THEN {Lost} ELSE {})

-----------------------------------------------------------------------------
\* Mutant of Redisplay: help ends with the prompt.
Redisplay_PromptOnly == Shown(<<>>)

\* After the help, the prompt and the line again.
Redisplay == Shown(buf)

\* UI_HELP.
Help(trie) ==
  /\ ret' = 0 /\ UNCHANGED <<buf, cap, aborted>>
  /\ IF trie THEN Redisplay ELSE UNCHANGED screen

\* OUT_BACKSPACE_AND_DELETE, n times: with dch1 or without, a cell goes with
\* each.  term_create() refuses a terminal that has no cub1.
WithoutCells(n) == SubSeq(screen, 1, Len(screen) - n)

\* What is sent when bytes have been taken from the line: one for each.  The
\* telnet layer does not tell when that fails.
Erase ==
  LET n == Len(buf) - Len(buf') IN
  IF n = 0 THEN UNCHANGED screen
  ELSE IF \/ screen = Lost \/ ret' = -1
          \/ \E i \in Len(buf') + 1 .. Len(buf) : buf[i] > 127
  THEN screen' = Lost
  ELSE Shown(WithoutCells(n))

\* UI_CODEPOINT, but for a newline: the key is echoed, then stored.
Typed(trie, cp) ==
  IF trie /\ cp[1] = QM THEN Help(trie)
  ELSE /\ Codepoint(trie, cp)
       /\ IF cp[1] \in {CR, ESC, HT} THEN UNCHANGED screen
          ELSE IF screen = Lost \/ ret' = -1 THEN screen' = Lost
          ELSE Shown(screen \o cp)

\* A newline, which getc_main() answers with another, and in the end a prompt.
Entered == Newline /\ Shown(<<>>)

\* edit_push() of the other events; UI_DELETE and those for the history, the
\* cursor and ^C are not implemented.
Events == {"UI_BACKSPACE", "UI_DELETE_LINE", "UI_DELETE_WORD", "UI_HELP", "not implemented"}

Push(trie, e) ==
  \/ e = "UI_BACKSPACE" /\ Backspace(1) /\ Erase
  \/ e = "UI_DELETE_LINE" /\ DeleteLine /\ Erase
  \/ e = "UI_DELETE_WORD" /\ DeleteWord /\ Erase
  \/ e = "UI_HELP" /\ Help(trie)
  \/ e = "not implemented" /\ ret' = 0 /\ UNCHANGED <<buf, cap, aborted, screen>>

-----------------------------------------------------------------------------
\* The keys termkey has names for, TAB, ENTER and SPACE aside.
Keysym(trie, sym) ==
  \/ sym = "BACKSPACE" /\ Push(trie, "UI_BACKSPACE")
  \/ sym = "HELP" /\ Push(trie, "UI_HELP")
  \/ sym = "another" /\ Push(trie, "not implemented")

\* Letters that are an event together with Ctrl.
Ctrl(trie, c) ==
  \/ c = "c" /\ Push(trie, "not implemented")
  \/ c = "h" /\ Push(trie, "UI_BACKSPACE")
  \/ c = "u" /\ Push(trie, "UI_DELETE_LINE")
  \/ c = "w" /\ Push(trie, "UI_DELETE_WORD")

\* F1 is given the event for help, but its case falls through to the one for
\* keys with a name, in which its number is taken for the name: 1 is BACKSPACE.
FunctionKey(trie) == Keysym(trie, "BACKSPACE")

(***************************************************************************)
(* A key of a type that has no case, such as an unknown CSI sequence: the  *)
(* event is not initialised.                                               *)
(***************************************************************************)
UnknownKey(trie) ==
  \/ \E e \in Events : Push(trie, e)
  \/ \E cp \in Codepoints : Typed(trie, cp)
  \/ Entered

\* Keys without modifiers that stand for text, TAB and SPACE among them.
TextKey(trie) == \E cp \in Codepoints : Typed(trie, cp)

\* ENTER without modifiers.
EnterKey == Entered

\* One key.  The mouse, other function keys, names that are not listed, other
\* letters with Ctrl, and text and ENTER with a modifier change nothing.
Key(trie) ==
  \/ TextKey(trie) \/ EnterKey
  \/ \E sym \in {"BACKSPACE", "HELP", "another"} : Keysym(trie, sym)
  \/ \E c \in {"c", "h", "u", "w"} : Ctrl(trie, c)
  \/ FunctionKey(trie) \/ UnknownKey(trie)

TerminalNext == ~aborted /\ \E trie \in BOOLEAN : Key(trie)

TerminalSpec == TerminalInit /\ [][TerminalNext]_termVars

-----------------------------------------------------------------------------
(***************************************************************************)
(* What is shown after the prompt is the line that return would hand over, *)
(* whatever was typed, erased by the character, the word or the line, or   *)
(* asked for in between, unless the screen is lost: and then it is right   *)
(* again after help or a new prompt that could be printed.                 *)
(***************************************************************************)
ScreenShowsLine == screen # Lost => screen = buf
=============================================================================

-------------------------------- MODULE Edit --------------------------------
(***************************************************************************)
(* The line editor of src/edit.c: the line typed so far, the storage it is *)
(* kept in, and the keys that change it.  An assert that fails stops the   *)
(* program ("aborted"); the library is built with its asserts active.      *)
(* Bytes stored past the end of the storage may stop it too, or go         *)
(* unnoticed in what malloc() has to spare.                                *)
(***************************************************************************)
EXTENDS Lexer, SequencesExt

CONSTANTS
  BlockSz,      \* blocksz, 64 in the code
  Codepoints,   \* what a key delivers in event->u.utf8
  IsSpaceTrue,  \* what isspace() returns for a space: C says only "nonzero"
  AllocFails,   \* whether realloc() and malloc() may return NULL
  SendFails,    \* whether the application's vprintf callback may return -1
  MaxLine       \* bound on the length of a line

ASSUME BlockSzIsNat == BlockSz \in Nat \ {0}
ASSUME CodepointsFit ==
  \A cp \in Codepoints : cp \in Text /\ 0 < Len(cp) /\ Len(cp) < BlockSz
ASSUME IsSpaceTrueIsNat == IsSpaceTrue \in Nat \ {0}
ASSUME MaxLineIsNat == MaxLine \in Nat
ASSUME FailuresAreBooleans == AllocFails \in BOOLEAN /\ SendFails \in BOOLEAN

VARIABLES
  buf,      \* ectx->buf up to ectx->count
  cap,      \* how many bytes have been allocated for it, 0 for NULL
  ret,      \* what the last edit_push() or edit_release() returned
  aborted   \* an assert has failed, or the heap is corrupt

editVars == <<buf, cap, ret, aborted>>

EditInit ==
  /\ buf = <<>> /\ cap = 0
  /\ ret = 0 /\ aborted = FALSE

\* Mutant of Grows: the boundary is looked for one byte too early.
Grows_OffByOne(n) == (Len(buf) + n) % BlockSz < n

\* When append() reallocates.
Grows(n) == (Len(buf) + n - 1) % BlockSz < n

(***************************************************************************)
(* append(), after the key's echo: the text and its terminator are stored  *)
(* at the end of the line, whether or not the storage has room for them.   *)
(***************************************************************************)
Append_(cp) ==
  /\ Len(buf) + Len(cp) <= MaxLine
  /\ \/ /\ cap' = IF Grows(Len(cp)) THEN Len(buf) + BlockSz ELSE cap
        /\ buf' = buf \o cp
        /\ ret' = 0
        /\ UNCHANGED aborted \/ (Len(buf') + 1 > cap' /\ aborted' = TRUE)
     \/ /\ Grows(Len(cp)) /\ AllocFails
        /\ ret' = -1
        /\ UNCHANGED <<buf, cap, aborted>>

Abort ==
  /\ aborted' = TRUE
  /\ UNCHANGED <<buf, cap, ret>>

\* Mutant of Backspace: the number of bytes erased is returned.
Backspace_ReturnsCount(n) ==
  IF n = 0 \/ (buf # <<>> /\ n > Len(buf)) THEN Abort
  ELSE /\ buf' = SubSeq(buf, 1, Len(buf) - n)
       /\ ret' = n
       /\ UNCHANGED <<cap, aborted>>

(***************************************************************************)
(* edit_backspace(p, n).  The line is shortened before the erased bytes    *)
(* are sent to the terminal one by one, which may fail.                    *)
(***************************************************************************)
Backspace(n) ==
  IF n = 0 \/ (buf # <<>> /\ n > Len(buf)) THEN Abort
  ELSE /\ buf' = SubSeq(buf, 1, Len(buf) - n)
       /\ IF buf # <<>> /\ SendFails THEN ret' \in {0, -1} ELSE ret' = 0
       /\ UNCHANGED <<cap, aborted>>

\* The end of token n, where the deletion starts, or the start of the line if
\* there is none.  What isspace() returns for the byte there is added to it.
StartAfter(toks, n) ==
  IF n < 1 THEN 1
  ELSE toks[n].end + IF At(buf, toks[n].end) = SP THEN IsSpaceTrue ELSE 0

\* The tokens the lexer finds an error in.
ErrorsIn(toks) == {k \in DOMAIN toks : toks[k].type = "error"}

\* Mutant of WordStart: the slots of the last two tokens are mixed up.
WordStart_LastToken(toks) ==
  StartAfter(toks, IF ErrorsIn(toks) = {} THEN Len(toks) ELSE Min(ErrorsIn(toks)) - 1)

(***************************************************************************)
(* tok[i].src.end in edit_backword(): the end of the last token but one.   *)
(* The scan stops at a token with an error, and then it is that token's    *)
(* end.                                                                    *)
(***************************************************************************)
WordStart(toks) ==
  StartAfter(toks, IF ErrorsIn(toks) = {} THEN Len(toks) - 1 ELSE Min(ErrorsIn(toks)))

\* strlen() of what starts there.  A start past the terminator is read from
\* beyond the line: the length is anything.
LengthFrom(start) ==
  IF start \in 1 .. Len(buf) + 1 THEN {Len(buf) + 1 - start} ELSE 0 .. Len(buf) + 1

\* UI_DELETE_WORD.
DeleteWord ==
  IF buf = <<>> THEN ret' = 0 /\ UNCHANGED <<buf, cap, aborted>>
  ELSE \E n \in LengthFrom(WordStart(Tokens(buf))) : Backspace(n)

\* UI_DELETE_LINE.
DeleteLine == Backspace(Len(buf))

\* UI_CODEPOINT for anything but a newline, with EDIT_TRIE or without: '?'
\* asks for help instead, which prints and changes nothing; NUL, CR, ESC and
\* tab are ignored, as are all other events.
Codepoint(trie, cp) ==
  IF cp[1] \in {CR, ESC, HT} \/ (trie /\ cp[1] = QM)
  THEN ret' = 0 /\ UNCHANGED <<buf, cap, aborted>>
  ELSE Append_(cp)

\* edit_push() of every event but a newline.
EditPush(trie) ==
  \/ \E cp \in Codepoints : Codepoint(trie, cp)
  \/ Backspace(1)
  \/ DeleteLine
  \/ DeleteWord

\* edit_release(): the text is handed over, unless there is none.
Released ==
  /\ buf' = <<>>
  /\ cap' = IF buf = <<>> THEN cap ELSE 0

Newline == Released /\ ret' = 1 /\ UNCHANGED aborted

EditNext ==
  \/ ~aborted /\ \E trie \in BOOLEAN : EditPush(trie)
  \/ ~aborted /\ Newline

EditSpec == EditInit /\ [][EditNext]_editVars

-----------------------------------------------------------------------------
\* The types, and edit_push() returns one of the three values it is documented
\* to return.
EditTypeOK ==
  /\ buf \in Seq(Byte \ {NUL}) /\ Len(buf) <= MaxLine
  /\ cap \in Nat
  /\ ret \in {-1, 0, 1}
  /\ aborted \in BOOLEAN

(***************************************************************************)
(* The text and its terminator lie within their storage, as append() takes *)
(* for granted when it copies them there.                                  *)
(***************************************************************************)
TextIsStored == buf # <<>> => Len(buf) + 1 <= cap

(***************************************************************************)
(* What append() stores past the storage is never more than the bytes of   *)
(* one key: a terminator on a block boundary, and what a key of several    *)
(* bytes leaves behind that straddled one.  Nothing typed or erased        *)
(* afterwards makes it grow from there.                                    *)
(***************************************************************************)
OverrunIsBounded ==
  buf # <<>> => \E cp \in Codepoints : Len(buf) + 1 <= cap + Len(cp)

(***************************************************************************)
(* A NULL buffer is never written to or read from as a line: text implies  *)
(* storage, also after a failed allocation, a release or a line deleted    *)
(* and typed again.                                                        *)
(***************************************************************************)
TextHasStorage == buf # <<>> => cap > 0

\* The line has a space where its last token but one ends.
SpaceKept(toks) == Len(toks) > 1 /\ At(buf, toks[Len(toks) - 1].end) = SP

\* What is left of the line when its last token goes.
WithoutLast(toks) ==
  IF Len(toks) < 2 THEN <<>>
  ELSE LET kept(n) == SubSeq(buf, 1, IF At(buf, n) = SP THEN n ELSE n - 1)
       IN kept(toks[Len(toks) - 1].end)

(***************************************************************************)
(* Deleting a word takes away the last token and nothing else, and leaves  *)
(* one space of those that separated it from the one before: "leave a      *)
(* single trailing space if we're just deleting one token, as long as it's *)
(* not SOL".  Lines the lexer finds an error in are exempt: behind an      *)
(* unterminated quote nothing is left to delete, and an assert fails.      *)
(***************************************************************************)
WordErased ==
  [][DeleteWord /\ buf # <<>> /\ ErrorsIn(Tokens(buf)) = {} =>
       /\ buf' = WithoutLast(Tokens(buf))
       /\ Tokens(buf') = SubSeq(Tokens(buf), 1, Len(Tokens(buf)) - 1)]_editVars
=============================================================================

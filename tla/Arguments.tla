----------------------------- MODULE Arguments -----------------------------
(***************************************************************************)
(* The loop of parsecommand() (src/read.c) that collects a command's       *)
(* arguments: it lexes what is left of the line token by token, lets       *)
(* lex_next() write each token's text at *dst, and keeps a pointer to it   *)
(* in argv.  The storage behind dst is modelled byte by byte because the   *)
(* comment above parsecommand() promises a layout for it.                  *)
(***************************************************************************)
EXTENDS Lexer, SequencesExt

CONSTANTS
  Alphabet,   \* the bytes a line is made of
  MaxLen      \* bound on the length of a line

ASSUME AlphabetIsBytes == Alphabet \subseteq Byte \ {NUL}
ASSUME MaxLenIsNat == MaxLen \in Nat

VARIABLES
  line,   \* src as it was handed to parsecommand()
  src,    \* the position src has advanced to
  dst,    \* the offset *dst has, in the storage behind the line
  mem,    \* that storage, as far as it has been written
  argv,   \* rctx->argv: offsets into mem
  toks,   \* history: the tokens lexed so far
  done    \* lex_next() has returned NULL

vars == <<line, src, dst, mem, argv, toks, done>>

\* Writing the bytes t at offset i over what is there.
Overwrite(m, i, t) ==
  [k \in 1 .. Max({Len(m), i + Len(t) - 1}) |->
     IF k \in i .. i + Len(t) - 1 THEN t[k - i + 1] ELSE m[k]]

\* The C string at offset i.
CString(m, i) ==
  SubSeq(m, i, Min({k \in i .. Len(m) : m[k] = NUL}) - 1)

\* Mutant of Reserved: a byte for each byte of the line, none for terminators.
Reserved_NoTerminators(count) == count * 2 + 1

\* What getc_main() reallocates a line of count bytes to.
Reserved(count) == count * 3 + 1

Init ==
  /\ line \in BoundedSeq(Alphabet, MaxLen)
  /\ src = 1 /\ dst = 1
  /\ mem = <<>> /\ argv = <<>> /\ toks = <<>>
  /\ done = FALSE

\* Mutant of NextToken: a separator is skipped after the token, blank or not.
NextToken_SkipSeparator ==
  /\ ~done
  /\ LET tok == Lex(line, src) IN
     /\ tok # NoTok
     /\ src' = tok.end + 1
     /\ mem' = Overwrite(mem, dst, tok.text \o <<NUL>>)
     /\ argv' = Append(argv, dst)
     /\ toks' = Append(toks, tok)
  /\ UNCHANGED <<line, dst, done>>

\* Mutant of NextToken: src is left where the loop found a byte it cannot take.
NextToken_StopAtError ==
  /\ ~done
  /\ LET tok == Lex(line, src) IN
     /\ tok # NoTok
     /\ src' = IF tok.type = "error" THEN tok.start ELSE tok.end
     /\ mem' = Overwrite(mem, dst, tok.text \o <<NUL>>)
     /\ argv' = Append(argv, dst)
     /\ toks' = Append(toks, tok)
  /\ UNCHANGED <<line, dst, done>>

(***************************************************************************)
(* One iteration.  Every token type ends up in argv: the case of           *)
(* TOK_ERROR and TOK_PIPE prints a message and falls through.  lex_next()  *)
(* advances a copy of *dst, so dst stays where it was.                     *)
(***************************************************************************)
NextToken ==
  /\ ~done
  /\ LET tok == Lex(line, src) IN
     /\ tok # NoTok
     /\ src' = tok.end
     /\ mem' = Overwrite(mem, dst, tok.text \o <<NUL>>)
     /\ argv' = Append(argv, dst)
     /\ toks' = Append(toks, tok)
  /\ UNCHANGED <<line, dst, done>>

\* lex_next() returns NULL.
EndOfLine ==
  /\ ~done
  /\ Lex(line, src) = NoTok
  /\ done' = TRUE
  /\ UNCHANGED <<line, src, dst, mem, argv, toks>>

Next == NextToken \/ EndOfLine

Spec == Init /\ [][Next]_vars

----------------------------------------------------------------------------
\* The types; src stays on the line or at its terminator.
TypeOK ==
  /\ line \in Seq(Alphabet) /\ Len(line) <= MaxLen
  /\ src \in 1 .. Len(line) + 1
  /\ dst \in Nat \ {0}
  /\ mem \in Seq(Byte)
  /\ Len(argv) = Len(toks)
  /\ \A t \in ToSet(toks) : t.text \in Text
  /\ done \in BOOLEAN

(***************************************************************************)
(* The tokens cut the line up without loss or overlap: a byte before src   *)
(* is in exactly one token, or is whitespace outside all of them (which    *)
(* whitespace inside a quoted string is not).                              *)
(***************************************************************************)
TokensTileLine ==
  \A i \in 1 .. src - 1 :
    LET in == {k \in DOMAIN toks : i \in toks[k].start .. toks[k].end - 1}
    IN IF in = {} THEN IsSpace(At(line, i)) ELSE Cardinality(in) = 1

\* The storage that the texts of the tokens ts take, with a terminator each.
Needed(ts) ==
  LET sum[n \in 0 .. Len(ts)] ==
        IF n = 0 THEN 0 ELSE sum[n - 1] + Len(ts[n].text) + 1
  IN sum[Len(ts)]

(***************************************************************************)
(* What getc_main() reserves is enough for the line and, behind it, every  *)
(* token's text with a terminator each: the worst case that the comment    *)
(* above parsecommand() computes.                                          *)
(***************************************************************************)
ScratchSuffices == Len(line) + 1 + Needed(toks) <= Reserved(Len(line))

\* The text of a string token, quoted so that it denotes itself.
Escape(b) ==
  CASE b \in {BSL, DQ} -> <<BSL, b>>
    [] b = LF -> <<BSL, 110>> [] b = CR -> <<BSL, 114>> [] b = HT  -> <<BSL, 116>>
    [] b = VT -> <<BSL, 118>> [] b = FF -> <<BSL, 102>> [] b = ESC -> <<BSL, 101>>
    [] OTHER -> <<b>>
Quote(t) == <<DQ>> \o FlattenSeq([i \in 1..Len(t) |-> Escape(t[i])]) \o <<DQ>>

(***************************************************************************)
(* Quoting is reversible: whatever text a token has, however it was        *)
(* written, lex_next() reads Quote(text) back as one string of that text.  *)
(* This is about the lexer alone: on a command line the editor takes every *)
(* '?' for help, within quotes too, so one never gets as far as the lexer. *)
(***************************************************************************)
QuotingRoundTrips ==
  \A k \in DOMAIN toks :
    LET q == Quote(toks[k].text)
        t == Lex(q, 1)
    IN t.type = "string" /\ t.text = toks[k].text /\ t.end = Len(q) + 1

(***************************************************************************)
(* Every lex_next() that returns a token consumes some of the line, so the *)
(* loop ends on every line, malformed ones included.                       *)
(***************************************************************************)
EachTokenAdvances == [][done' \/ src' > src]_vars

(***************************************************************************)
(* What the comment above parsecommand() says of dst: each token's content *)
(* follows the one before, null terminated, so that argv[k] is the k-th    *)
(* argument.                                                               *)
(***************************************************************************)
EveryTokenKept ==
  \A k \in DOMAIN argv : CString(mem, argv[k]) = toks[k].text

=============================================================================

------------------------------- MODULE Lexer -------------------------------
(***************************************************************************)
(* lex_next() of src/lexer.c: one token of a command line, without         *)
(* changing the line.  The switch over "state" is the transition function  *)
(* Step; a token's extent is the run of that automaton from the token's    *)
(* first byte to the byte on which it leaves the loop.                     *)
(***************************************************************************)
EXTENDS Bytes, FiniteSetsExt

\* The result of a lex_next() that found only whitespace (it returns NULL).
NoTok == [type |-> "none", start |-> 0, end |-> 0, text |-> <<>>]

\* STATE_SPACE on the first byte that is not whitespace.
Enter(c) ==
  CASE c = SQ   -> "str1"
    [] c = DQ   -> "str2"
    [] c = PIPE -> "pipe"
    [] OTHER    -> "word"

\* Mutant of Escaped: an escaped quote is not recognised.
Escaped_NoQuote(c) ==
  CASE c = BSL -> BSL [] c = 110 -> LF [] OTHER -> NUL

\* The byte an escape sequence stands for, NUL if there is no such escape:
\* backslash, quote, n, r, t, v, f, e.
Escaped(c) ==
  CASE c \in {BSL, DQ} -> c
    [] c = 110 -> LF
    [] c = 114 -> CR
    [] c = 116 -> HT
    [] c = 118 -> VT
    [] c = 102 -> FF
    [] c = 101 -> ESC
    [] OTHER -> NUL

\* One turn of the loop in state q on byte c: the next state, or how the loop
\* is left: "stop" before c, "close" after it, "error" at it.
Step(q, c) ==
  CASE q = "pipe" -> "stop"
    [] q = "word" -> IF IsSpace(c) \/ c \in {NUL, SQ, DQ, PIPE} THEN "stop" ELSE "word"
    [] q = "str1" -> IF c = NUL THEN "error" ELSE IF c = SQ THEN "close" ELSE "str1"
    [] q = "str2" -> IF c = NUL THEN "error" ELSE IF c = DQ THEN "close"
                     ELSE IF c = BSL THEN "esc" ELSE "str2"
    [] q = "esc"  -> IF Escaped(c) = NUL THEN "error" ELSE "str2"
    [] OTHER      -> q

States == {"pipe", "word", "str1", "str2", "esc"}
Exits == {"stop", "close", "error"}

\* What the loop in state q appends to *dst on byte c.
Emit(q, c) ==
  CASE q = "esc"             -> <<Escaped(c)>>
    [] q = "str2" /\ c = BSL -> <<>>
    [] OTHER                 -> <<c>>

TokType(q) ==
  CASE q = "pipe" -> "pipe" [] q = "word" -> "word"
    [] q \in {"str1", "str2"} -> "string" [] OTHER -> "error"

\* What is returned when the text t comes before the rest.
Before(t, rest) == [type |-> rest.type, end |-> rest.end, text |-> t \o rest.text]

\* The loop from byte k of s on, in each state: how and where it is left, and
\* what it writes until then.  The rest is what the turns after this one come to.
Turn(s, k, rest) ==
  [q \in States |->
     LET next == Step(q, At(s, k)) IN
     IF next \in Exits
     THEN [type |-> IF next = "error" THEN "error" ELSE TokType(q),
           end  |-> IF next = "close" THEN k + 1 ELSE k,
           text |-> <<>>]
     ELSE Before(Emit(q, At(s, k)), rest[next])]

Run(s) ==
  LET run[k \in 1 .. Len(s)+1] == Turn(s, k, run[k+1])
  IN run

(***************************************************************************)
(* lex_next(new, &src, &dst) with src at position i of s: the token's type,*)
(* new->src.start, new->src.end (where src is left) and the text written   *)
(* at dst.  The entry byte of a word or a pipe is part of the text, the    *)
(* opening quote of a string is not.                                       *)
(***************************************************************************)
Lex(s, i) ==
  LET token(start, rest) ==
        [type  |-> rest.type,
         start |-> start,
         end   |-> rest.end,
         text  |-> (IF s[start] \in {SQ, DQ} THEN <<>> ELSE <<s[start]>>) \o rest.text]
      from(start) == token(start, Run(s)[start+1][Enter(s[start])])
      more == {k \in i..Len(s) : ~IsSpace(s[k])}
  IN IF more = {} THEN NoTok ELSE from(Min(more))

\* What the loops of edit_backword(), edit_walk() and parsecommand() read one by
\* one,  while (lex_next(...) != NULL),  until they break off: the tokens from
\* each position on.
TokensFrom(s) ==
  LET from[i \in 1 .. Len(s)+1] ==
        LET tokens(tok) == IF tok = NoTok THEN <<>> ELSE <<tok>> \o from[tok.end]
        IN tokens(Lex(s, i))
  IN from

\* Each of them begins at the start of the line.
Tokens(s) == TokensFrom(s)[1]
=============================================================================

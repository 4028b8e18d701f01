------------------------------ MODULE Command ------------------------------
(***************************************************************************)
(* What a command line means: the first loop of parsecommand() (read.c),   *)
(* which finds the command, and edit_walk() (edit.c), which finds the part *)
(* of the trie that help is given for.  Both walk the same trie over the   *)
(* same tokens, in ways of their own.                                      *)
(***************************************************************************)
EXTENDS Trie, Lexer

(***************************************************************************)
(* The loop's state: p->rctx->t, the tokens consumed, whether the loop has *)
(* been left.  t is NULL after a word the trie has no path for, and after  *)
(* a token that is not a word, for which the function returns 0 at once.   *)
(***************************************************************************)
ParseStart == [t |-> <<>>, used |-> 0, left |-> FALSE]

ParseToken(trie, mode, at, tok) ==
  LET run(walked) == IF walked = NoNode THEN NoNode ELSE TrieRun(trie, walked, mode)
      reach(t) == [t    |-> t,
                   used |-> at.used + 1,
                   left |-> IF t = NoNode THEN TRUE ELSE trie[t] # NoCommand]
  IN IF at.left THEN at
     ELSE reach(IF tok.type = "word" THEN run(TrieWalk(trie, at.t, tok.text)) ELSE NoNode)

ParseLoop(trie, mode, toks) ==
  LET at[n \in 0 .. Len(toks)] ==
        IF n = 0 THEN ParseStart ELSE ParseToken(trie, mode, at[n - 1], toks[n])
  IN at[Len(toks)]

\* The tests after the loop: t is neither NULL nor the root, and it has a
\* command that is visible.
Runnable(trie, mode, t) ==
  t \in DOMAIN trie /\ t # <<>> /\ VisibleCommand(trie, t, mode)

\* parsecommand() up to its second loop: whether it gets there (otherwise it
\* returns 0), with which node, and how many tokens are left as arguments.
ParseCommand(trie, mode, line) ==
  LET parsed(toks, at) == [ok   |-> Runnable(trie, mode, at.t),
                           t    |-> at.t,
                           args |-> Len(toks) - at.used]
  IN parsed(Tokens(line), ParseLoop(trie, mode, Tokens(line)))

-----------------------------------------------------------------------------
\* Mutant of WalkToken: no break when no space can follow the word.
WalkToken_NoBreak(trie, at, tok) ==
  LET walked == TrieWalk(trie, at.t, tok.text)
      spaced == TrieWalk(trie, walked, <<SP>>)
  IN IF at.left THEN at
     ELSE IF tok.type # "word" \/ walked = NoNode THEN [at EXCEPT !.left = TRUE]
     ELSE IF spaced = NoNode THEN [t |-> walked, left |-> FALSE]
     ELSE [t |-> spaced, left |-> FALSE]

\* One turn of edit_walk()'s loop: a word, then the space after it.
WalkToken(trie, at, tok) ==
  LET walked == TrieWalk(trie, at.t, tok.text)
      spaced == TrieWalk(trie, walked, <<SP>>)
  IN IF at.left THEN at
     ELSE IF tok.type # "word" \/ walked = NoNode THEN [at EXCEPT !.left = TRUE]
     ELSE IF spaced = NoNode THEN [t |-> walked, left |-> TRUE]
     ELSE [t |-> spaced, left |-> FALSE]

WalkLoop(trie, toks) ==
  LET at[n \in 0 .. Len(toks)] ==
        IF n = 0 THEN [t |-> <<>>, left |-> FALSE] ELSE WalkToken(trie, at[n - 1], toks[n])
  IN at[Len(toks)]

EditWalk(trie, line) == WalkLoop(trie, Tokens(line)).t
=============================================================================

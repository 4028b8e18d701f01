---------------------------- MODULE MCArguments ----------------------------
(***************************************************************************)
(* Lines over one letter, the escape letter n, blank, both quotes, the     *)
(* backslash and the pipe: every transition of the lexer is taken.         *)
(***************************************************************************)
EXTENDS Arguments

MCAlphabet == {97, 110, SP, DQ, SQ, BSL, PIPE}
=============================================================================

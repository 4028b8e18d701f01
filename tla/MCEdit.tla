------------------------------- MODULE MCEdit -------------------------------
(***************************************************************************)
(* Lines of words and spaces, and of one letter up to the end of a block.  *)
(***************************************************************************)
EXTENDS Edit

MCWords == {<<97>>, <<SP>>}
MCLetter == {<<97>>}
=============================================================================

------------------------------- MODULE Bytes -------------------------------
(***************************************************************************)
(* The bytes of a C string.  A string is a sequence of non-NUL bytes; the  *)
(* terminator is read at the position after the last one.  Bytes are       *)
(* numbers because the trie's edges are visited in byte order.             *)
(***************************************************************************)
EXTENDS Integers, Sequences

Byte == 0..255
Text == Seq(Byte \ {0})

NUL  == 0      \* '\0'
HT   == 9      \* '\t'
LF   == 10     \* '\n'
VT   == 11     \* '\v'
FF   == 12     \* '\f'
CR   == 13     \* '\r'
ESC  == 27     \* '\033'
SP   == 32     \* ' '
DQ   == 34     \* '"'
SQ   == 39     \* '\''
QM   == 63     \* '?'
BSL  == 92     \* '\\'
PIPE == 124    \* '|'

\* isspace(3) in the C locale, as a truth value.
IsSpace(c) == c \in {HT, LF, VT, FF, CR, SP}

\* *(s + i): the byte at position i, the terminator after the last byte.
At(s, i) == IF i <= Len(s) THEN s[i] ELSE NUL

\* The value of a char pointer that is not a string: NULL, or storage whose
\* contents mean nothing.  No string holds a NUL byte, so it equals none.
NoText == <<NUL>>
=============================================================================

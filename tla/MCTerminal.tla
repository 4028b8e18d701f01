------------------------------ MODULE MCTerminal -----------------------------
(***************************************************************************)
(* Keys of one byte and of two, '?' and TAB among them, blocks of three    *)
(* bytes, lines of up to two blocks: storage is extended on a block        *)
(* boundary and across one.                                                *)
(***************************************************************************)
EXTENDS Terminal

MCCodepoints == {<<QM>>, <<SP>>, <<DQ>>, <<HT>>, <<195, 169>>}
=============================================================================

------------------------------ MODULE Dialogue ------------------------------
(***************************************************************************)
(* One peer's dialogue, without its buffers, lists, tokens and trie: what  *)
(* libcl keeps of what include/cl/tree.h says of commands and fields.  A   *)
(* line may start a command that is visible in the peer's mode; the user   *)
(* is then asked for each of its fields, once, lowest first; when the last *)
(* one has been answered its callback is called, once, and can look up     *)
(* what was typed for each field.                                          *)
(*                                                                         *)
(* The header says more.  A field whose validate() does not like a value   *)
(* is to be asked for again, but nothing calls validate().  And the mode   *)
(* that a callback is told is to be one of those of its command; here it   *)
(* is the one the peer is in by then, whichever that is.                   *)
(***************************************************************************)
EXTENDS Integers, FiniteSetsExt

CONSTANTS
  CommandSet,      \* records with a name, the modes and the fields
  ModeSet,         \* the values the mode may take
  LineSet,         \* what can be on the line
  EmptyLine,
  isVisible(_, _)  \* isVisible(mode, modes)

VARIABLES
  line,      \* what the user has typed since the last newline
  mode,      \* the peer's mode, which the application may change
  current,   \* the command whose fields are asked for, a set of at most one
  answers,   \* what was typed for the fields answered so far
  ran        \* the call just made, a set of at most one

dialogueVars == <<line, mode, current, answers, ran>>

Nothing == [f \in {} |-> EmptyLine]

Init ==
  /\ line = EmptyLine
  /\ mode \in ModeSet
  /\ current = {} /\ answers = Nothing
  /\ ran = {}

\* Keys are pressed, a line is given up or not understood.
Type ==
  /\ line' \in LineSet
  /\ ran' = {}
  /\ UNCHANGED <<mode, current, answers>>

SetMode ==
  /\ mode' \in ModeSet
  /\ ran' = {}
  /\ UNCHANGED <<line, current, answers>>

\* The callback of c is called with the answers given and the mode of the moment,
\* and may set another.
Call(c, given) ==
  /\ ran' = {[command |-> c.name, mode |-> mode, answers |-> given]}
  /\ mode' \in ModeSet
  /\ current' = {} /\ answers' = Nothing

Start(c) ==
  /\ current = {}
  /\ isVisible(mode, c.modes)
  /\ line' = EmptyLine
  /\ IF c.fields = {} THEN Call(c, Nothing)
     ELSE /\ current' = {c} /\ answers' = Nothing
          /\ ran' = {}
          /\ UNCHANGED mode

Answer(c) ==
  /\ c \in current
  /\ LET asked == Min(c.fields \ DOMAIN answers)
         given == [f \in DOMAIN answers \cup {asked} |->
                     IF f = asked THEN line ELSE answers[f]]
     IN IF DOMAIN given = c.fields THEN Call(c, given)
        ELSE /\ answers' = given
             /\ ran' = {}
             /\ UNCHANGED <<mode, current>>
  /\ line' = EmptyLine

Next ==
  \/ Type \/ SetMode
  \/ \E c \in CommandSet : Start(c) \/ Answer(c)

Spec == Init /\ [][Next]_dialogueVars
=============================================================================

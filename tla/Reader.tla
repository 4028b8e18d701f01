------------------------------- MODULE Reader -------------------------------
(***************************************************************************)
(* getc_main() of src/read.c: a peer's keys are collected into a line by   *)
(* the editor; a newline ends a command line, which is parsed, or the      *)
(* answer to a field prompt.  Every action is one call of getc_main(), but *)
(* for SetMode, which is the application's.                                *)
(***************************************************************************)
EXTENDS Command, Edit, TLC

CONSTANTS
  Root,      \* tree->root, as cl_create() leaves it
  Modes,     \* the values the application gives the mode
  Swallow    \* whether input goes on after getc_main() has returned -1: the
             \* telnet layer discards its result

ASSUME RootIsNotNull == <<>> \in DOMAIN Root  \* by getc_main()'s assert
ASSUME RootIsTrie ==
  \A x \in DOMAIN Root :
    /\ Root[x].fields \in SUBSET Nat /\ IsFiniteSet(Root[x].fields)
    /\ Root[x] # NoCommand => Root[x].command = x
ASSUME SwallowIsBoolean == Swallow \in BOOLEAN

VARIABLES
  state,    \* rctx->state
  t,        \* rctx->t
  fields,   \* rctx->fields: the bits still set
  values,   \* rctx->values, newest first; an empty value stands for NULL
  argc,     \* rctx->argc
  mode,     \* p->mode
  prompt,   \* what was last printed as a prompt: the field asked for, if any
  call      \* the callback this call of getc_main() has made, if any

readVars == <<state, t, fields, values, argc, mode, prompt, call>>
vars == <<editVars, readVars>>

Unset == NoText   \* a value that has been allocated and not written

Init ==
  /\ EditInit
  /\ state = "new" /\ t = NoNode
  /\ fields = {} /\ values = <<>> /\ argc = 0
  /\ mode \in Modes
  /\ prompt = {} /\ call = {}

\* The peer's next event can be delivered.
Alive == ~aborted /\ (ret # -1 \/ Swallow)

\* Any key but a newline: edit_push() returns 0 or -1.
Edits ==
  /\ EditPush(state # "field")
  /\ call' = {}
  /\ UNCHANGED <<state, t, fields, values, argc, mode, prompt>>

-----------------------------------------------------------------------------
\* p->tree->printprompt(), and back to STATE_NEW.
BackToPrompt ==
  /\ state' = "new" /\ prompt' = {}
  /\ ret' = 0 /\ call' = {}

\* The list as read_get_field() finds things in it: the newest node of an id.
GetField(list, id) ==
  list[Min({k \in DOMAIN list : list[k].id = id})].value

\* What a callback can get: an id that is not in the list reads as "", too.
Gettable(list) == [id \in {v.id : v \in ToSet(list)} |-> GetField(list, id)]

\* Mutant of CallBack: the callback is told the last command's argc.
CallBack_StaleArgc(node, list, n) ==
  /\ call' = {[command |-> Root[node].command, mode |-> mode, argc |-> argc,
               answers |-> Gettable(list)]}
  /\ mode' \in Modes
  /\ values' = list /\ argc' = n
  /\ state' = "new" /\ prompt' = {} /\ ret' = 0
  /\ UNCHANGED aborted

\* fields is 0: the callback, which may call cl_set_mode(), then the prompt.
CallBack(node, list, n) ==
  /\ call' = {[command |-> Root[node].command, mode |-> mode, argc |-> n,
               answers |-> Gettable(list)]}
  /\ mode' \in Modes
  /\ values' = list /\ argc' = n
  /\ state' = "new" /\ prompt' = {} /\ ret' = 0
  /\ UNCHANGED aborted

\* Mutant of AskField: the highest bit is asked for.
AskField_Highest(left, list) ==
  /\ \/ /\ values' = <<[id |-> Max(left), value |-> Unset]>> \o list
        /\ prompt' = {Max(left)}
        /\ ret' = 0
     \/ /\ AllocFails
        /\ values' = list
        /\ ret' = -1
        /\ UNCHANGED prompt
  /\ state' = "field" /\ call' = {}
  /\ UNCHANGED <<mode, aborted>>

\* A node for the lowest bit left is put in front of the list and the user is
\* prompted; or there is no memory for it.
AskField(left, list) ==
  /\ \/ /\ values' = <<[id |-> Min(left), value |-> Unset]>> \o list
        /\ prompt' = {Min(left)}
        /\ ret' = 0
     \/ /\ AllocFails
        /\ values' = list
        /\ ret' = -1
        /\ UNCHANGED prompt
  /\ state' = "field" /\ call' = {}
  /\ UNCHANGED <<mode, aborted>>

\* Mutant of FirstField: the command runs when one field is left.
FirstField_LastUnasked(node, left, list, n) ==
  /\ fields' = left
  /\ IF Cardinality(left) <= 1 THEN CallBack(node, list, n)
     ELSE AskField(left, list) /\ argc' = n

\* The label firstfield.
FirstField(node, left, list, n) ==
  /\ fields' = left
  /\ IF left = {} THEN CallBack(node, list, n)
     ELSE AskField(left, list) /\ argc' = n

-----------------------------------------------------------------------------
\* edit_release() returns NULL: nothing has been typed.
EmptyLine ==
  /\ state # "field" /\ buf = <<>>
  /\ Released
  /\ BackToPrompt
  /\ UNCHANGED <<t, fields, values, argc, mode, aborted>>

\* There is no memory for the line and its tokens.
LineNoMemory ==
  /\ state # "field" /\ buf # <<>> /\ AllocFails
  /\ Released
  /\ state' = "command" /\ ret' = -1 /\ call' = {}
  /\ UNCHANGED <<t, fields, values, argc, mode, prompt, aborted>>

\* parsecommand() returns 0, having said why.
RejectLine ==
  /\ state # "field" /\ buf # <<>>
  /\ \E parsed \in {ParseCommand(Root, mode, buf)} :
       ~parsed.ok /\ t' = parsed.t
  /\ Released
  /\ BackToPrompt
  /\ UNCHANGED <<fields, values, argc, mode, aborted>>

\* parsecommand() returns -1: there is no memory for eight more arguments.
ArgsNoMemory ==
  /\ state # "field" /\ buf # <<>> /\ AllocFails
  /\ \E parsed \in {ParseCommand(Root, mode, buf)} :
       /\ parsed.ok /\ parsed.args > 0
       /\ t' = parsed.t
       /\ argc' \in {n \in 0 .. parsed.args - 1 : n % 8 = 0}
  /\ Released
  /\ state' = "command" /\ ret' = -1 /\ call' = {}
  /\ UNCHANGED <<fields, values, mode, prompt, aborted>>

\* Mutant of AcceptLine: the list of the last command's values is kept.
AcceptLine_KeepValues ==
  /\ state # "field" /\ buf # <<>>
  /\ \E parsed \in {ParseCommand(Root, mode, buf)} :
       /\ parsed.ok
       /\ t' = parsed.t
       /\ FirstField(parsed.t, Root[parsed.t].fields, values, parsed.args)
  /\ Released

\* parsecommand() returns 1.
AcceptLine ==
  /\ state # "field" /\ buf # <<>>
  /\ \E parsed \in {ParseCommand(Root, mode, buf)} :
       /\ parsed.ok
       /\ t' = parsed.t
       /\ FirstField(parsed.t, Root[parsed.t].fields, <<>>, parsed.args)
  /\ Released

\* Mutant of AnswerField: an empty answer leaves the field to be asked again.
AnswerField_AskAgain ==
  /\ state = "field"
  /\ IF values = <<>> THEN Abort /\ UNCHANGED readVars
     ELSE /\ FirstField(t, IF buf = <<>> THEN fields ELSE fields \ {Min(fields)},
                        [values EXCEPT ![1].value = buf], argc)
          /\ Released
          /\ UNCHANGED t

\* STATE_FIELD: the answer goes to the newest node, the lowest bit is cleared.
\* With no node to put it in, NULL is dereferenced.
AnswerField ==
  /\ state = "field"
  /\ IF values = <<>> THEN Abort /\ UNCHANGED readVars
     ELSE /\ FirstField(t, fields \ {Min(fields)}, [values EXCEPT ![1].value = buf], argc)
          /\ Released
          /\ UNCHANGED t

\* cl_set_mode(), called by the application between two events.
SetMode ==
  /\ mode' \in Modes
  /\ call' = {}
  /\ UNCHANGED <<editVars, state, t, fields, values, argc, prompt>>

Next ==
  \/ Alive /\ Edits
  \/ Alive /\ EmptyLine
  \/ Alive /\ LineNoMemory
  \/ Alive /\ RejectLine
  \/ Alive /\ ArgsNoMemory
  \/ Alive /\ AcceptLine
  \/ Alive /\ AnswerField
  \/ ~aborted /\ SetMode

Spec == Init /\ [][Next]_vars

-----------------------------------------------------------------------------
CommandNodes == {x \in DOMAIN Root : Root[x] # NoCommand}

\* The types, and a callback is told the number of arguments that is kept.
ReadTypeOK ==
  /\ EditTypeOK
  /\ state \in {"new", "command", "field"}
  /\ fields \in SUBSET Nat
  /\ values \in Seq([id : Nat, value : Seq(Byte)])
  /\ mode \in Modes
  /\ prompt \in SUBSET Nat
  /\ \A c \in call : c.mode \in Modes /\ c.argc = argc

(***************************************************************************)
(* What is on the screen is what the next line will be taken for.  While   *)
(* no call has failed, the last prompt is the application's, and the line  *)
(* is a command; or it names the lowest field left, and the newest value   *)
(* is that field's, still to be written.                                   *)
(***************************************************************************)
PromptIsCurrent ==
  ret # -1 =>
    IF state # "field" THEN prompt = {}
    ELSE /\ fields # {} /\ values # <<>>
         /\ prompt = {Min(fields)}
         /\ Head(values) = [id |-> Min(fields), value |-> Unset]

(***************************************************************************)
(* Until the callback is called, every field of the command is either      *)
(* still to come or has its one node, and the nodes are in order; written, *)
(* but for the one the prompt is for.                                      *)
(***************************************************************************)
FieldsAccountedFor ==
  state = "field" =>
    /\ t \in CommandNodes
    /\ {v.id : v \in ToSet(values)} \cup fields = Root[t].fields
    /\ \A k \in 2 .. Len(values) :
         /\ values[k].id < values[k - 1].id
         /\ values[k].id \notin fields
         /\ values[k].value # Unset

(***************************************************************************)
(* "fields - A mask of user-defined fields for which the user is prompted  *)
(* on execution of this command" (struct cl_command in include/cl/tree.h): *)
(* every field of a command has an answer when its callback is called.     *)
(***************************************************************************)
EveryFieldAnswered ==
  \A c \in call : \A x \in CommandNodes :
    Root[x].command = c.command => DOMAIN c.answers = Root[x].fields

(***************************************************************************)
(* "mode - The mode under which this command is currently being executed.  *)
(* This is a single bit from the mask specified by struct cl_command"      *)
(* (include/cl/tree.h), also when the mode was changed between the command *)
(* and its last field.                                                     *)
(***************************************************************************)
ModeIsCommands ==
  \A c \in call : \A x \in CommandNodes :
    Root[x].command = c.command => c.mode \subseteq Root[x].modes

-----------------------------------------------------------------------------
\* The dialogue this implements.
CommandAt(x) ==
  [name |-> Root[x].command, modes |-> Root[x].modes, fields |-> Root[x].fields]

\* What has been answered so far.
Answered ==
  [id \in {v.id : v \in {w \in ToSet(values) : w.value # Unset}} |-> GetField(values, id)]

D == INSTANCE Dialogue WITH
  CommandSet <- {CommandAt(x) : x \in CommandNodes},
  ModeSet    <- Modes,
  LineSet    <- Seq(Byte \ {NUL}),
  EmptyLine  <- <<>>,
  isVisible  <- visible,
  line    <- buf,
  current <- IF state = "field" THEN {CommandAt(t)} ELSE {},
  answers <- IF state = "field" THEN Answered ELSE [f \in {} |-> <<>>],
  ran     <- {[command |-> c.command, mode |-> c.mode, answers |-> c.answers] : c \in call}

(***************************************************************************)
(* The line editor, the parser and the list of values together are a       *)
(* dialogue: what the callback can look up for a field is the line typed   *)
(* at that field's prompt, whatever was erased, abbreviated, left empty or *)
(* interrupted by a change of mode.  Which mode it is told is another      *)
(* question (ModeIsCommands).                                              *)
(***************************************************************************)
ImplementsDialogue == D!Spec
=============================================================================

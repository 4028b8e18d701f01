---------------------------- MODULE ReaderProofs ----------------------------
(***************************************************************************)
(* Proofs about getc_main() under a layer that stops at the first error    *)
(* (~Swallow), for every trie, every set of modes and every editor.        *)
(***************************************************************************)
EXTENDS Reader, EditProofs, SequenceTheorems, WellFoundedInduction

ReaderInv ==
  /\ EditInv
  /\ ReadTypeOK
  /\ PromptIsCurrent
  /\ FieldsAccountedFor

-----------------------------------------------------------------------------
\* x & ~(x - 1): the lowest bit of a mask is one of its bits, below the rest.
LEMMA LowestBit ==
  ASSUME NEW S \in SUBSET Nat, S # {}
  PROVE  Min(S) \in S /\ \A y \in S : Min(S) <= y
<1>1. \E x \in S : \A y \in S : ~(<<y, x>> \in OpToRel(<, Nat))
  BY NatLessThanWellFounded, WFMin, Zenon
<1>2. \E x \in S : \A y \in S : ~(y < x)
  BY <1>1 DEF OpToRel
<1>3. \E x \in S : \A y \in S : x <= y
  BY <1>2
<1>4. QED
  BY <1>3 DEF Min

Value == [id : Nat, value : Seq(Byte)]
Ids(list) == {v.id : v \in ToSet(list)}

\* A list of written values that leaves the fields "left" of node to be asked.
Pending(node, left, list) ==
  /\ node \in CommandNodes
  /\ left \in SUBSET Nat
  /\ list \in Seq(Value)
  /\ Ids(list) \cup left = Root[node].fields
  /\ \A k \in 1 .. Len(list) : list[k].id \notin left /\ list[k].value # Unset
  /\ \A k \in 2 .. Len(list) : list[k].id < list[k - 1].id
  /\ list # <<>> => \A f \in left : list[1].id < f

\* The ids of a list with one more node in front.
LEMMA IdsOfCons ==
  ASSUME NEW v \in Value, NEW list \in Seq(Value)
  PROVE  /\ <<v>> \o list \in Seq(Value)
         /\ Len(<<v>> \o list) = Len(list) + 1
         /\ (<<v>> \o list)[1] = v
         /\ \A k \in 2 .. Len(list) + 1 : (<<v>> \o list)[k] = list[k - 1]
         /\ ToSet(<<v>> \o list) = {v} \cup ToSet(list)
         /\ Ids(<<v>> \o list) = {v.id} \cup Ids(list)
<1> DEFINE cons == <<v>> \o list
<1>1. /\ cons \in Seq(Value) /\ Len(cons) = Len(list) + 1
      /\ cons[1] = v
      /\ \A k \in 2 .. Len(list) + 1 : cons[k] = list[k - 1]
  OBVIOUS
<1>2. ToSet(cons) = {v} \cup ToSet(list)
  <2>1. DOMAIN cons = 1 .. Len(list) + 1 /\ DOMAIN list = 1 .. Len(list) /\ Len(list) \in Nat
    BY <1>1
  <2>2. ASSUME NEW w \in ToSet(cons) PROVE w \in {v} \cup ToSet(list)
    <3>1. PICK k \in 1 .. Len(list) + 1 : w = cons[k]
      BY <2>1 DEF ToSet
    <3>2. CASE k = 1
      BY <1>1, <3>1, <3>2
    <3>3. CASE k # 1
      <4>1. k - 1 \in DOMAIN list /\ w = list[k - 1]
        BY <1>1, <2>1, <3>1, <3>3
      <4>2. QED
        BY <4>1 DEF ToSet
    <3>4. QED
      BY <3>2, <3>3
  <2>3. v \in ToSet(cons)
    BY <1>1, <2>1 DEF ToSet
  <2>4. ASSUME NEW w \in ToSet(list) PROVE w \in ToSet(cons)
    <3>1. PICK k \in 1 .. Len(list) : w = list[k]
      BY <2>1 DEF ToSet
    <3>2. k + 1 \in DOMAIN cons /\ cons[k + 1] = w
      BY <1>1, <2>1, <3>1
    <3>3. QED
      BY <3>2 DEF ToSet
  <2>5. QED
    BY <2>2, <2>3, <2>4
<1>3. QED
  BY <1>1, <1>2 DEF Ids

\* FirstField establishes the invariant from a pending list.
LEMMA FirstFieldKeeps ==
  ASSUME EditInv', NEW node, NEW left, NEW list, NEW n,
         Pending(node, left, list), mode \in Modes, prompt \in SUBSET Nat,
         t' = node, FirstField(node, left, list, n)
  PROVE  ReadTypeOK' /\ PromptIsCurrent' /\ FieldsAccountedFor'
<1> USE DEF Pending
<1>1. EditTypeOK' /\ fields' = left
  BY DEF EditInv, FirstField
<1>2. CASE left = {}
  <2>1. /\ state' = "new" /\ prompt' = {} /\ values' = list
        /\ mode' \in Modes
        /\ \A c \in call' : c.mode \in Modes /\ c.argc = argc'
    BY <1>2 DEF FirstField, CallBack
  <2>2. QED
    BY <1>1, <2>1 DEF ReadTypeOK, PromptIsCurrent, FieldsAccountedFor, Value
<1>3. CASE left # {}
  <2> DEFINE new == [id |-> Min(left), value |-> Unset]
  <2>1. AskField(left, list)
    BY <1>3 DEF FirstField
  <2>2. /\ state' = "field" /\ call' = {} /\ mode' = mode
        /\ \/ values' = <<new>> \o list /\ prompt' = {Min(left)}
           \/ values' = list /\ ret' = -1 /\ prompt' = prompt
    BY <2>1 DEF AskField
  <2>3. Min(left) \in left /\ Min(left) \in Nat
    BY <1>3, LowestBit
  <2>4. new \in Value /\ new.id = Min(left)
    BY <2>3 DEF Value, Unset, NoText, NUL, Byte
  <2>5. CASE values' = <<new>> \o list /\ prompt' = {Min(left)}
    <3>1. /\ values' \in Seq(Value) /\ Len(values') = Len(list) + 1
          /\ Len(list) \in Nat
          /\ values'[1] = new
          /\ \A k \in 2 .. Len(list) + 1 : values'[k] = list[k - 1]
          /\ Ids(values') = {Min(left)} \cup Ids(list)
      BY <2>4, <2>5, IdsOfCons
    <3> HIDE DEF new
    <3>2. ReadTypeOK'
      BY <1>1, <2>2, <2>3, <2>5, <3>1 DEF ReadTypeOK, Value
    <3>3. PromptIsCurrent'
      <4>1. values' # <<>> /\ Head(values') = new
        BY <3>1
      <4>2. QED
        BY <1>1, <1>3, <2>2, <2>5, <4>1 DEF PromptIsCurrent, new
    <3>4. FieldsAccountedFor'
      <4>1. Ids(values') \cup fields' = Root[t'].fields
        BY <1>1, <2>3, <3>1
      <4>2. ASSUME NEW k \in 2 .. Len(values')
            PROVE  /\ values'[k].id < values'[k - 1].id
                   /\ values'[k].id \notin fields'
                   /\ values'[k].value # Unset
        <5>1. k - 1 \in 1 .. Len(list) /\ values'[k] = list[k - 1]
          BY <3>1
        <5>2. CASE k = 2
          <6>1. list # <<>> /\ values'[k] = list[1] /\ values'[k - 1].id = Min(left)
            BY <2>4, <3>1, <5>1, <5>2
          <6>2. QED
            BY <1>1, <2>3, <5>1, <5>2, <6>1
        <5>3. CASE k # 2
          <6>1. k - 1 \in 2 .. Len(list) /\ values'[k - 1] = list[k - 2]
                /\ list[k - 1].id < list[(k - 1) - 1].id
            BY <3>1, <5>1, <5>3
          <6>2. QED
            BY <1>1, <5>1, <6>1
        <5>4. QED
          BY <5>2, <5>3
      <4>3. QED
        BY <4>1, <4>2 DEF FieldsAccountedFor, Ids
    <3>5. QED
      BY <3>2, <3>3, <3>4
  <2>6. CASE values' = list /\ ret' = -1 /\ prompt' = prompt
    BY <1>1, <2>2, <2>6
       DEF ReadTypeOK, PromptIsCurrent, FieldsAccountedFor, Value, Ids
  <2>7. QED
    BY <2>2, <2>5, <2>6
<1>4. QED
  BY <1>2, <1>3

-----------------------------------------------------------------------------
\* parsecommand() hands over a node with a command, all fields to be asked.
LEMMA AcceptedIsPending ==
  ASSUME NEW x, Runnable(Root, mode, x)
  PROVE  Pending(x, Root[x].fields, <<>>)
<1>1. x \in CommandNodes
  BY DEF Runnable, VisibleCommand, CommandNodes
<1>2. Ids(<<>>) = {}
  BY DEF Ids, ToSet
<1>3. QED
  BY <1>1, <1>2, RootIsTrie DEF Pending, CommandNodes

\* An answer leaves one field less to be asked.
LEMMA AnsweredIsPending ==
  ASSUME ReaderInv, ret # -1, state = "field"
  PROVE  Pending(t, fields \ {Min(fields)}, [values EXCEPT ![1].value = buf])
<1> DEFINE low  == Min(fields)
           left == fields \ {low}
           list == [values EXCEPT ![1].value = buf]
<1>1. /\ fields \in SUBSET Nat /\ fields # {}
      /\ values \in Seq(Value) /\ values # <<>> /\ Len(values) \in Nat /\ Len(values) > 0
      /\ buf \in Seq(Byte \ {NUL})
      /\ values[1] = [id |-> low, value |-> Unset]
  <2>1. Head(values) = [id |-> low, value |-> Unset] /\ values # <<>> /\ fields # {}
    BY DEF ReaderInv, PromptIsCurrent
  <2>2. fields \in SUBSET Nat /\ values \in Seq(Value) /\ buf \in Seq(Byte \ {NUL})
    BY DEF ReaderInv, ReadTypeOK, EditTypeOK, Value
  <2>3. QED
    BY <2>1, <2>2
<1>2. low \in fields /\ \A f \in left : low < f
  <2>1. low \in fields /\ \A f \in fields : low <= f
    BY <1>1, LowestBit
  <2> HIDE DEF low
  <2>2. ASSUME NEW f \in left PROVE low < f
    <3>1. f \in Nat /\ low \in Nat /\ low <= f /\ f # low
      BY <1>1, <2>1
    <3>2. QED
      BY <3>1
  <2>3. QED
    BY <2>1, <2>2
<1>3. /\ t \in CommandNodes
      /\ Ids(values) \cup fields = Root[t].fields
      /\ \A k \in 2 .. Len(values) :
           /\ values[k].id < values[k - 1].id
           /\ values[k].id \notin fields
           /\ values[k].value # Unset
  BY DEF ReaderInv, FieldsAccountedFor, Ids
<1>4. /\ buf \in Seq(Byte) /\ buf # Unset
      /\ list[1] = [id |-> low, value |-> buf]
      /\ Len(list) = Len(values) /\ list \in Seq(Value)
      /\ \A k \in 2 .. Len(values) : list[k] = values[k]
  <2>1. buf \in Seq(Byte) /\ buf # Unset
    BY <1>1 DEF Unset, NoText
  <2>2. list[1] = [id |-> low, value |-> buf]
    BY <1>1
  <2>3. [id |-> low, value |-> buf] \in Value
    BY <1>1, <1>2, <2>1 DEF Value
  <2>4. list = [values EXCEPT ![1] = [id |-> low, value |-> buf]]
    <3>1. [values[1] EXCEPT !.value = buf] = [id |-> low, value |-> buf]
      BY <1>1
    <3>2. QED
      BY <3>1
  <2>5. QED
    BY <1>1, <2>1, <2>2, <2>3, <2>4
<1>5. Ids(list) = Ids(values)
  <2>1. \A k \in 1 .. Len(values) : list[k].id = values[k].id
    BY <1>1, <1>4
  <2>2. DOMAIN list = 1 .. Len(values) /\ DOMAIN values = 1 .. Len(values)
    BY <1>1, <1>4
  <2> HIDE DEF list
  <2>3. Ids(list) = {list[k].id : k \in 1 .. Len(values)}
    BY <2>2 DEF Ids, ToSet
  <2>4. Ids(values) = {values[k].id : k \in 1 .. Len(values)}
    BY <2>2 DEF Ids, ToSet
  <2>5. QED
    BY <2>1, <2>3, <2>4
<1>6. low \in Ids(list)
  <2>1. 1 \in DOMAIN list
    BY <1>1, <1>4
  <2>2. QED
    BY <1>4, <2>1 DEF Ids, ToSet
<1>7. Ids(list) \cup left = Root[t].fields
  BY <1>2, <1>3, <1>5, <1>6
<1>8. \A k \in 1 .. Len(list) : list[k].id \notin left /\ list[k].value # Unset
  BY <1>1, <1>3, <1>4
<1>9. \A k \in 2 .. Len(list) : list[k].id < list[k - 1].id
  <2>1. ASSUME NEW k \in 2 .. Len(list) PROVE list[k].id < list[k - 1].id
    <3>1. k \in 2 .. Len(values) /\ k - 1 \in 1 .. Len(values)
      BY <1>1, <1>4
    <3>2. list[k].id = values[k].id
      BY <1>4, <3>1
    <3>3. list[k - 1].id = values[k - 1].id
      BY <1>1, <1>4, <3>1
    <3>4. QED
      BY <1>3, <3>1, <3>2, <3>3
  <2>2. QED
    BY <2>1
<1>10. \A f \in left : list[1].id < f
  BY <1>2, <1>4
<1>11. left \in SUBSET Nat
  BY <1>1
<1>12. QED
  BY <1>3, <1>4, <1>7, <1>8, <1>9, <1>10, <1>11 DEF Pending

-----------------------------------------------------------------------------
\* A command line that is understood.
LEMMA AcceptLineKeeps ==
  ASSUME ReaderInv, AcceptLine
  PROVE  ReaderInv'
<1>1. PICK parsed \in {ParseCommand(Root, mode, buf)} :
      /\ parsed.ok /\ t' = parsed.t /\ Released
      /\ FirstField(parsed.t, Root[parsed.t].fields, <<>>, parsed.args)
  BY DEF AcceptLine
<1>2. Runnable(Root, mode, parsed.t)
  BY <1>1 DEF ParseCommand
<1>3. mode \in Modes /\ prompt \in SUBSET Nat /\ aborted \in BOOLEAN
  BY DEF ReaderInv, ReadTypeOK, EditTypeOK
<1>4. ret' \in {-1, 0, 1} /\ aborted' = aborted
  BY <1>1 DEF FirstField, CallBack, AskField
<1>5. EditInv'
  BY <1>1, <1>3, <1>4, ReleasedKeeps DEF ReaderInv
<1>6. QED
  BY <1>1, <1>2, <1>3, <1>5, AcceptedIsPending, FirstFieldKeeps DEF ReaderInv

\* An answer to a prompt, after a call that did not fail.
LEMMA AnswerFieldKeeps ==
  ASSUME ReaderInv, ret # -1, AnswerField
  PROVE  ReaderInv'
<1> DEFINE left == fields \ {Min(fields)}
           list == [values EXCEPT ![1].value = buf]
<1>1. state = "field" /\ FirstField(t, left, list, argc) /\ Released /\ t' = t
  BY DEF AnswerField, ReaderInv, PromptIsCurrent
<1>2. Pending(t, left, list)
  BY <1>1, AnsweredIsPending
<1> HIDE DEF left, list
<1>3. mode \in Modes /\ prompt \in SUBSET Nat /\ aborted \in BOOLEAN
  BY DEF ReaderInv, ReadTypeOK, EditTypeOK
<1>4. ret' \in {-1, 0, 1} /\ aborted' = aborted
  BY <1>1 DEF FirstField, CallBack, AskField
<1>5. EditInv'
  BY <1>1, <1>3, <1>4, ReleasedKeeps DEF ReaderInv
<1>6. QED
  BY <1>1, <1>2, <1>3, <1>5, FirstFieldKeeps DEF ReaderInv

\* The branches that give the line up and leave the fields and values alone.
LEMMA LineGivenUp ==
  ASSUME ReaderInv, Released, ret' \in {-1, 0}, aborted' = aborted,
         state' \in {"new", "command"}, ret' = 0 => prompt' = {},
         prompt' \in {prompt, {}}, call' = {},
         UNCHANGED <<fields, values, mode>>
  PROVE  ReaderInv'
<1>1. EditInv'
  BY ReleasedKeeps DEF ReaderInv, EditInv, EditTypeOK
<1>2. ReadTypeOK'
  BY <1>1 DEF ReaderInv, EditInv, ReadTypeOK
<1>3. PromptIsCurrent' /\ FieldsAccountedFor'
  BY DEF PromptIsCurrent, FieldsAccountedFor
<1>4. QED
  BY <1>1, <1>2, <1>3 DEF ReaderInv

\* Keys other than a newline change the line only.
LEMMA EditsKeep ==
  ASSUME ReaderInv, ret # -1, Edits
  PROVE  ReaderInv'
<1>1. EditInv'
  BY EditPushKeeps DEF ReaderInv, Edits
<1>2. call' = {} /\ UNCHANGED <<state, t, fields, values, argc, mode, prompt>>
  BY DEF Edits
<1>3. ReadTypeOK'
  BY <1>1, <1>2 DEF ReaderInv, EditInv, ReadTypeOK
<1>4. PromptIsCurrent' /\ FieldsAccountedFor'
  BY <1>2 DEF ReaderInv, PromptIsCurrent, FieldsAccountedFor
<1>5. QED
  BY <1>1, <1>3, <1>4 DEF ReaderInv

\* Every call of getc_main() and every change of mode keeps the invariant.
LEMMA ReaderStep ==
  ASSUME ~Swallow, ReaderInv, Next
  PROVE  ReaderInv'
<1>1. CASE ~aborted /\ SetMode
  <2>1. EditInv'
    BY <1>1 DEF SetMode, ReaderInv, EditInv, EditTypeOK, NearBoundary, Boundary, TextHasStorage, editVars
  <2>2. ReadTypeOK'
    BY <1>1, <2>1 DEF SetMode, ReaderInv, EditInv, ReadTypeOK
  <2>3. PromptIsCurrent' /\ FieldsAccountedFor'
    BY <1>1 DEF SetMode, ReaderInv, PromptIsCurrent, FieldsAccountedFor, editVars
  <2>4. QED
    BY <2>1, <2>2, <2>3 DEF ReaderInv
<1>2. CASE Alive
  <2>1. ret # -1
    BY <1>2 DEF Alive
  <2>2. CASE Edits
    BY <2>1, <2>2, EditsKeep
  <2>3. CASE EmptyLine
    BY <2>3, LineGivenUp DEF EmptyLine, BackToPrompt
  <2>4. CASE LineNoMemory
    BY <2>4, LineGivenUp DEF LineNoMemory
  <2>5. CASE RejectLine
    BY <2>5, LineGivenUp DEF RejectLine, BackToPrompt
  <2>6. CASE ArgsNoMemory
    BY <2>6, LineGivenUp DEF ArgsNoMemory
  <2>7. CASE AcceptLine
    BY <2>7, AcceptLineKeeps
  <2>8. CASE AnswerField
    BY <2>1, <2>8, AnswerFieldKeeps
  <2>9. QED
    BY <1>1, <2>2, <2>3, <2>4, <2>5, <2>6, <2>7, <2>8 DEF Next
<1>3. QED
  BY <1>1, <1>2 DEF Next

\* The reader as read_create() leaves it.
LEMMA ReaderInitInv == Init => ReaderInv
<1>1. ASSUME Init PROVE ReaderInv
  <2>1. EditInv
    BY <1>1, EditInitInv DEF Init
  <2>2. state = "new" /\ fields = {} /\ values = <<>> /\ mode \in Modes
        /\ prompt = {} /\ call = {}
    BY <1>1 DEF Init
  <2>3. ReadTypeOK
    BY <2>1, <2>2 DEF EditInv, ReadTypeOK
  <2>4. QED
    BY <2>1, <2>2, <2>3 DEF ReaderInv, PromptIsCurrent, FieldsAccountedFor
<1>2. QED
  BY <1>1

LEMMA ReaderStutters ==
  ASSUME ReaderInv, UNCHANGED vars
  PROVE  ReaderInv'
<1>1. UNCHANGED <<buf, cap, ret, aborted, state, t, fields, values, argc, mode, prompt, call>>
  BY DEF vars, editVars, readVars
<1>2. EditInv'
  BY <1>1 DEF ReaderInv, EditInv, EditTypeOK, NearBoundary, Boundary, TextHasStorage
<1>3. ReadTypeOK' /\ PromptIsCurrent' /\ FieldsAccountedFor'
  BY <1>1, <1>2 DEF ReaderInv, EditInv, ReadTypeOK, PromptIsCurrent, FieldsAccountedFor
<1>4. QED
  BY <1>2, <1>3 DEF ReaderInv

\* When a pending list leads to a callback, it has all of the command's fields;
\* no other node has a command of that name.
LEMMA CallIsAnswered ==
  ASSUME NEW node, NEW left, NEW list, NEW n,
         Pending(node, left, list), FirstField(node, left, list, n)
  PROVE  EveryFieldAnswered'
<1>1. CASE left = {}
  <2>1. PICK m \in Modes \cup {mode} :
          call' = {[command |-> Root[node].command, mode |-> m, argc |-> n,
                    answers |-> Gettable(list)]}
    BY <1>1 DEF FirstField, CallBack
  <2>2. DOMAIN Gettable(list) = Root[node].fields
    BY <1>1 DEF Pending, Gettable, Ids
  <2>3. node \in CommandNodes
    BY DEF Pending
  <2>4. ASSUME NEW c \in call', NEW x \in CommandNodes, Root[x].command = c.command
        PROVE  DOMAIN c.answers = Root[x].fields
    <3>1. c.command = Root[node].command /\ c.answers = Gettable(list)
      BY <2>1
    <3>2. x = node
      BY <2>3, <2>4, <3>1, RootIsTrie DEF CommandNodes
    <3>3. QED
      BY <2>2, <3>1, <3>2
  <2>5. QED
    BY <2>4 DEF EveryFieldAnswered
<1>2. CASE left # {}
  <2>1. call' = {}
    BY <1>2 DEF FirstField, AskField
  <2>2. QED
    BY <2>1 DEF EveryFieldAnswered
<1>3. QED
  BY <1>1, <1>2

(***************************************************************************)
(* As long as no error is swallowed: the peer's state is well typed, the   *)
(* prompt on the screen is the one the next line is taken to answer, and   *)
(* the fields of the command are those still to be asked together with     *)
(* those in the list, each once and in order.                              *)
(***************************************************************************)
THEOREM ReaderInvariant ==
  ASSUME ~Swallow
  PROVE  Spec => [](ReadTypeOK /\ PromptIsCurrent /\ FieldsAccountedFor)
<1>1. ReaderInv /\ [Next]_vars => ReaderInv'
  BY ReaderStep, ReaderStutters
<1>2. ReaderInv => ReadTypeOK /\ PromptIsCurrent /\ FieldsAccountedFor
  BY DEF ReaderInv
<1>3. QED
  BY <1>1, <1>2, ReaderInitInv, PTL DEF Spec

(***************************************************************************)
(* As long as no error is swallowed, a callback can look up an answer for  *)
(* every field of its command, and for no other.                           *)
(***************************************************************************)
THEOREM ReaderAnswers ==
  ASSUME ~Swallow
  PROVE  Spec => []EveryFieldAnswered
<1>1. Init => EveryFieldAnswered
  BY DEF Init, EveryFieldAnswered
<1>2. ASSUME ReaderInv, EveryFieldAnswered, [Next]_vars
      PROVE  ReaderInv' /\ EveryFieldAnswered'
  <2>1. ReaderInv'
    BY <1>2, ReaderStep, ReaderStutters
  <2>2. ASSUME UNCHANGED vars PROVE EveryFieldAnswered'
    BY <1>2, <2>2 DEF vars, readVars, EveryFieldAnswered
  <2>3. ASSUME Next PROVE EveryFieldAnswered'
    <3>1. CASE call' = {}
      BY <3>1 DEF EveryFieldAnswered
    <3>2. CASE AcceptLine
      <4>1. PICK parsed \in {ParseCommand(Root, mode, buf)} :
            /\ parsed.ok
            /\ FirstField(parsed.t, Root[parsed.t].fields, <<>>, parsed.args)
        BY <3>2 DEF AcceptLine
      <4>2. Runnable(Root, mode, parsed.t)
        BY <4>1 DEF ParseCommand
      <4>3. QED
        BY <4>1, <4>2, AcceptedIsPending, CallIsAnswered
    <3>3. CASE Alive /\ AnswerField
      <4> DEFINE left == fields \ {Min(fields)}
                 list == [values EXCEPT ![1].value = buf]
      <4>1. ret # -1 /\ state = "field"
        BY <3>3 DEF Alive, AnswerField
      <4>2. FirstField(t, left, list, argc)
        BY <1>2, <3>3, <4>1 DEF AnswerField, ReaderInv, PromptIsCurrent
      <4>3. Pending(t, left, list)
        BY <1>2, <4>1, AnsweredIsPending
      <4> HIDE DEF left, list
      <4>4. QED
        BY <4>2, <4>3, CallIsAnswered
    <3>4. QED
      BY <2>3, <3>1, <3>2, <3>3
         DEF Next, Edits, EmptyLine, LineNoMemory, RejectLine, ArgsNoMemory, SetMode,
             BackToPrompt
  <2>4. QED
    BY <1>2, <2>1, <2>2, <2>3
<1>3. QED
  BY <1>1, <1>2, ReaderInitInv, PTL DEF Spec

(***************************************************************************)
(* As long as no error is swallowed, the mask of fields to ask for and the *)
(* list of values account for the fields of the pending command, each once *)
(* and in order, however many lines have been answered.                    *)
(***************************************************************************)
COROLLARY ReaderFields ==
  ASSUME ~Swallow
  PROVE  Spec => []FieldsAccountedFor
  BY ReaderInvariant, PTL

(***************************************************************************)
(* The types: in particular the mask holds bits and the list strings.      *)
(***************************************************************************)
COROLLARY ReaderTypes ==
  ASSUME ~Swallow
  PROVE  Spec => []ReadTypeOK
  BY ReaderInvariant, PTL

-----------------------------------------------------------------------------
(***************************************************************************)
(* getc_main(), with its editor, parser, list of values and mask, is a     *)
(* dialogue as Dialogue has it, when the layers around it stop at the      *)
(* first error (~Swallow).                                                 *)
(***************************************************************************)
\* The dialogue's variables, as D in Reader takes them from the code's.
Current == IF state = "field" THEN {CommandAt(t)} ELSE {}
Answers == IF state = "field" THEN Answered ELSE [f \in {} |-> <<>>]
Ran == {[command |-> c.command, mode |-> c.mode, answers |-> c.answers] : c \in call}

LEMMA InitRefines == Init => D!Init
<1>1. ASSUME Init PROVE D!Init
  <2>1. buf = <<>> /\ state = "new" /\ mode \in Modes /\ call = {}
    BY <1>1 DEF Init, EditInit
  <2>2. QED
    BY <2>1 DEF D!Init, D!Nothing
<1>2. QED
  BY <1>1

\* A call of getc_main() that leaves the dialogue where it was.
LEMMA TypeRefines ==
  ASSUME buf' \in Seq(Byte \ {NUL}), call' = {}, mode' = mode,
         Current' = Current, Answers' = Answers
  PROVE  D!Type
BY DEF D!Type, Current, Answers

-----------------------------------------------------------------------------
\* What a list says of an id when a node for another is put in front of it.
LEMMA LookupOfCons ==
  ASSUME NEW v \in Value, NEW list \in Seq(Value), NEW id \in Ids(list), id # v.id
  PROVE  GetField(<<v>> \o list, id) = GetField(list, id)
<1> DEFINE cons == <<v>> \o list
           S == {k \in DOMAIN list : list[k].id = id}
           T == {k \in DOMAIN cons : cons[k].id = id}
<1>1. /\ cons \in Seq(Value) /\ Len(cons) = Len(list) + 1 /\ Len(list) \in Nat
      /\ cons[1] = v
      /\ \A k \in 2 .. Len(list) + 1 : cons[k] = list[k - 1]
      /\ DOMAIN cons = 1 .. Len(list) + 1 /\ DOMAIN list = 1 .. Len(list)
  BY IdsOfCons
<1> HIDE DEF cons
<1>2. S \in SUBSET Nat /\ S # {} /\ T \in SUBSET Nat
  BY <1>1 DEF Ids, ToSet
<1>3. \A k \in S : k + 1 \in T
  BY <1>1
<1>4. \A k \in T : k - 1 \in S
  BY <1>1
<1>5. /\ Min(S) \in S /\ \A k \in S : Min(S) <= k
      /\ Min(T) \in T /\ \A k \in T : Min(T) <= k
  BY <1>2, <1>3, LowestBit
<1> DEFINE a == Min(S)
           b == Min(T)
<1>6. b = a + 1
  <2>1. a \in S /\ a \in Nat /\ b \in T /\ b \in Nat
    BY <1>2, <1>5
  <2>2. b <= a + 1 /\ a <= b - 1
    BY <1>3, <1>4, <1>5, <2>1
  <2> HIDE DEF a, b
  <2>3. QED
    BY <2>1, <2>2
<1>7. cons[b] = list[a]
  <2>1. a \in 1 .. Len(list)
    BY <1>1, <1>5
  <2> HIDE DEF a, b
  <2>2. QED
    BY <1>1, <1>6, <2>1
<1>8. QED
  BY <1>7 DEF GetField, cons, S, T

\* What it says of the id of its newest node.
LEMMA LookupOfHead ==
  ASSUME NEW list \in Seq(Value), list # <<>>
  PROVE  GetField(list, list[1].id) = list[1].value
<1> DEFINE S == {k \in DOMAIN list : list[k].id = list[1].id}
<1>1. 1 \in S /\ S \in SUBSET Nat /\ \A k \in S : 1 <= k
  OBVIOUS
<1>2. Min(S) \in Nat /\ 1 <= Min(S) /\ Min(S) <= 1
  BY <1>1, LowestBit
<1>3. Min(S) = 1
  <2> DEFINE m == Min(S)
  <2>1. m \in Nat /\ 1 <= m /\ m <= 1
    BY <1>2
  <2> HIDE DEF m
  <2>2. m = 1
    BY <2>1
  <2>3. QED
    BY <2>2 DEF m
<1>4. QED
  BY <1>3 DEF GetField, S

\* The values of a list that have been written, by their ids.
Written(list) ==
  [id \in {v.id : v \in {w \in ToSet(list) : w.value # Unset}} |-> GetField(list, id)]

\* In a list with nothing left to write, that is all of it.
LEMMA AllWritten ==
  ASSUME NEW list \in Seq(Value), \A w \in ToSet(list) : w.value # Unset
  PROVE  Written(list) = Gettable(list)
<1>1. {w \in ToSet(list) : w.value # Unset} = ToSet(list)
  OBVIOUS
<1>2. QED
  BY <1>1 DEF Written, Gettable

\* A node that has just been put in front adds nothing.
LEMMA WrittenOfCons ==
  ASSUME NEW v \in Value, NEW list \in Seq(Value),
         \A w \in ToSet(list) : w.value # Unset, v.value = Unset, v.id \notin Ids(list)
  PROVE  Written(<<v>> \o list) = Gettable(list)
<1> DEFINE cons == <<v>> \o list
<1>1. ToSet(cons) = {v} \cup ToSet(list)
  BY IdsOfCons
<1>2. \A id \in Ids(list) : GetField(cons, id) = GetField(list, id)
  BY LookupOfCons
<1> HIDE DEF cons
<1>3. {w \in ToSet(cons) : w.value # Unset} = ToSet(list)
  BY <1>1
<1>4. Written(cons) = [id \in Ids(list) |-> GetField(cons, id)]
  BY <1>3 DEF Written, Ids
<1>5. Gettable(list) = [id \in Ids(list) |-> GetField(list, id)]
  BY DEF Gettable, Ids
<1>6. QED
  BY <1>2, <1>4, <1>5 DEF cons

\* Writing the newest node adds its value to what could be got before.
LEMMA GettableOfCons ==
  ASSUME NEW v \in Value, NEW list \in Seq(Value), v.id \notin Ids(list)
  PROVE  Gettable(<<v>> \o list)
           = [f \in DOMAIN Gettable(list) \cup {v.id} |->
                IF f = v.id THEN v.value ELSE Gettable(list)[f]]
<1> DEFINE cons == <<v>> \o list
<1>1. /\ Ids(cons) = {v.id} \cup Ids(list) /\ cons \in Seq(Value)
      /\ cons # <<>> /\ cons[1] = v
  BY IdsOfCons
<1>2. \A id \in Ids(list) : GetField(cons, id) = GetField(list, id)
  BY LookupOfCons
<1> HIDE DEF cons
<1>3. GetField(cons, v.id) = v.value
  BY <1>1, LookupOfHead
<1>4. /\ Gettable(list) = [id \in Ids(list) |-> GetField(list, id)]
      /\ Gettable(cons) = [id \in Ids(cons) |-> GetField(cons, id)]
  BY DEF Gettable, Ids
<1>5. QED
  BY <1>1, <1>2, <1>3, <1>4 DEF cons

\* What a pending list leads to: the call, with all of it, or a prompt.
LEMMA FirstFieldRefines ==
  ASSUME NEW node, NEW left, NEW list, NEW n, Pending(node, left, list),
         t' = node, FirstField(node, left, list, n)
  PROVE  /\ left = {} =>
              /\ Ran' = {[command |-> Root[node].command, mode |-> mode,
                          answers |-> Gettable(list)]}
              /\ mode' \in Modes
              /\ Current' = {} /\ Answers' = [f \in {} |-> <<>>]
         /\ left # {} =>
              /\ Ran' = {} /\ mode' = mode
              /\ Current' = {CommandAt(node)} /\ Answers' = Gettable(list)
<1>1. CASE left = {}
  <2>1. CallBack(node, list, n)
    BY <1>1 DEF FirstField
  <2>2. QED
    BY <1>1, <2>1 DEF CallBack, Ran, Current, Answers
<1>2. CASE left # {}
  <2> DEFINE new == [id |-> Min(left), value |-> Unset]
  <2>1. AskField(left, list)
    BY <1>2 DEF FirstField
  <2>2. /\ state' = "field" /\ call' = {} /\ mode' = mode
        /\ values' \in {<<new>> \o list, list}
    BY <2>1 DEF AskField
  <2>3. list \in Seq(Value) /\ \A w \in ToSet(list) : w.value # Unset /\ w.id \notin left
    BY DEF Pending, ToSet
  <2>4. Min(left) \in left /\ left \in SUBSET Nat
    BY <1>2, LowestBit DEF Pending
  <2>5. new \in Value /\ new.value = Unset /\ new.id = Min(left) /\ new.id \notin Ids(list)
    <3>1. Unset \in Seq(Byte)
      BY DEF Unset, NoText, NUL, Byte
    <3>2. new \in Value /\ new.value = Unset /\ new.id = Min(left)
      BY <2>4, <3>1 DEF Value
    <3> HIDE DEF new
    <3>3. \A w \in ToSet(list) : w.id # new.id
      BY <2>3, <2>4, <3>2
    <3>4. QED
      BY <3>2, <3>3 DEF Ids
  <2> HIDE DEF new
  <2>6. Written(<<new>> \o list) = Gettable(list) /\ Written(list) = Gettable(list)
    BY <2>3, <2>5, WrittenOfCons, AllWritten
  <2>7. Answered' = Written(values')
    BY DEF Answered, Written
  <2>8. Answers' = Gettable(list)
    BY <2>2, <2>6, <2>7 DEF Answers
  <2>9. Ran' = {} /\ Current' = {CommandAt(node)}
    BY <2>2 DEF Ran, Current
  <2>10. QED
    BY <1>2, <2>2, <2>8, <2>9
<1>3. QED
  BY <1>1, <1>2

-----------------------------------------------------------------------------
\* A command line that is understood starts a command that is visible.
LEMMA AcceptLineRefines ==
  ASSUME ReaderInv, AcceptLine
  PROVE  D!Next
<1>1. PICK parsed \in {ParseCommand(Root, mode, buf)} :
      /\ parsed.ok /\ t' = parsed.t /\ Released
      /\ FirstField(parsed.t, Root[parsed.t].fields, <<>>, parsed.args)
  BY DEF AcceptLine
<1> DEFINE node == parsed.t
           c == CommandAt(node)
<1>2. Runnable(Root, mode, node)
  BY <1>1 DEF ParseCommand
<1>3. Pending(node, Root[node].fields, <<>>)
  BY <1>2, AcceptedIsPending
<1>4. node \in CommandNodes /\ visible(mode, c.modes)
  BY <1>2, <1>3 DEF Pending, Runnable, VisibleCommand, CommandAt
<1>5. Current = {} /\ buf' = <<>>
  BY <1>1 DEF AcceptLine, Current, Released
<1>6. Gettable(<<>>) = [f \in {} |-> <<>>]
  BY DEF Gettable, ToSet
<1>7. CASE c.fields = {}
  <2>1. /\ Ran' = {[command |-> c.name, mode |-> mode, answers |-> Gettable(<<>>)]}
        /\ mode' \in Modes
        /\ Current' = {} /\ Answers' = [f \in {} |-> <<>>]
    BY <1>1, <1>3, <1>7, FirstFieldRefines DEF CommandAt
  <2>2. D!Call(c, D!Nothing)
    BY <1>6, <2>1 DEF D!Call, D!Nothing, Ran, Current, Answers
  <2>3. D!Start(c)
    BY <1>4, <1>5, <1>7, <2>2 DEF D!Start, Current
  <2>4. QED
    BY <1>4, <2>3 DEF D!Next
<1>8. CASE c.fields # {}
  <2>1. /\ Ran' = {} /\ mode' = mode
        /\ Current' = {c} /\ Answers' = Gettable(<<>>)
    BY <1>1, <1>3, <1>8, FirstFieldRefines DEF CommandAt
  <2>2. D!Start(c)
    BY <1>4, <1>5, <1>6, <1>8, <2>1 DEF D!Start, D!Nothing, Ran, Current, Answers
  <2>3. QED
    BY <1>4, <2>2 DEF D!Next
<1>9. QED
  BY <1>7, <1>8

\* An answer is that of the field asked for, the lowest without one.
LEMMA AnswerFieldRefines ==
  ASSUME ReaderInv, ret # -1, AnswerField
  PROVE  D!Next
<1> DEFINE low  == Min(fields)
           left == fields \ {low}
           rest == Tail(values)
           asked == [id |-> low, value |-> Unset]
           answer == [id |-> low, value |-> buf]
           list == [values EXCEPT ![1].value = buf]
<1> PICK c : c = CommandAt(t)
  OBVIOUS
<1>1. /\ state = "field" /\ FirstField(t, left, list, argc) /\ t' = t
      /\ buf' = <<>>
  BY DEF AnswerField, ReaderInv, PromptIsCurrent, Released
<1>2. Pending(t, left, list)
  BY <1>1, AnsweredIsPending
<1>3. /\ fields \in SUBSET Nat /\ fields # {} /\ low \in fields
      /\ values \in Seq(Value) /\ values # <<>>
      /\ buf \in Seq(Byte)
      /\ values[1] = asked
  <2>1. Head(values) = asked /\ values # <<>> /\ fields # {}
    BY <1>1 DEF ReaderInv, PromptIsCurrent
  <2>2. fields \in SUBSET Nat /\ values \in Seq(Value) /\ buf \in Seq(Byte \ {NUL})
    BY DEF ReaderInv, ReadTypeOK, EditTypeOK, Value
  <2>3. QED
    BY <2>1, <2>2, LowestBit
<1>4. /\ rest \in Seq(Value)
      /\ values = <<asked>> \o rest
      /\ list = <<answer>> \o rest
  <2>1. /\ rest \in Seq(Value) /\ Len(rest) = Len(values) - 1 /\ Len(values) \in Nat \ {0}
        /\ \A k \in 1 .. Len(rest) : rest[k] = values[k + 1]
    BY <1>3
  <2>2. asked \in Value /\ answer \in Value
    BY <1>3 DEF Value, Unset, NoText, NUL, Byte
  <2>3. /\ Len(list) = Len(values) /\ list \in Seq(Value)
        /\ list[1] = answer /\ \A k \in 2 .. Len(values) : list[k] = values[k]
    <3>1. list = [values EXCEPT ![1] = answer]
      <4>1. [values[1] EXCEPT !.value = buf] = answer
        BY <1>3
      <4>2. QED
        BY <4>1
    <3> HIDE DEF answer, list
    <3>2. QED
      BY <1>3, <2>1, <2>2, <3>1
  <2> HIDE DEF asked, answer, list, rest
  <2>4. values = <<asked>> \o rest
    BY <1>3, <2>1, <2>2
  <2>5. list = <<answer>> \o rest
    BY <1>3, <2>1, <2>2, <2>3
  <2>6. QED
    BY <2>1, <2>4, <2>5
<1>5. /\ asked \in Value /\ asked.id = low /\ asked.value = Unset
      /\ answer \in Value /\ answer.id = low /\ answer.value = buf
      /\ \A w \in ToSet(rest) : w.value # Unset /\ w.id \notin fields
  <2>1. Unset \in Seq(Byte)
    BY DEF Unset, NoText, NUL, Byte
  <2>2. /\ asked \in Value /\ asked.id = low /\ asked.value = Unset
        /\ answer \in Value /\ answer.id = low /\ answer.value = buf
    BY <1>3, <2>1 DEF Value
  <2>3. \A k \in 2 .. Len(values) : values[k].id \notin fields /\ values[k].value # Unset
    BY <1>1 DEF ReaderInv, FieldsAccountedFor
  <2>4. /\ \A k \in DOMAIN rest : rest[k] = values[k + 1] /\ k + 1 \in 2 .. Len(values)
    BY <1>3
  <2> HIDE DEF rest
  <2>5. \A w \in ToSet(rest) : w.value # Unset /\ w.id \notin fields
    BY <2>3, <2>4 DEF ToSet
  <2>6. QED
    BY <2>2, <2>5
<1> HIDE DEF low, rest, asked, answer, list
<1>6. low \notin Ids(rest)
  BY <1>3, <1>5 DEF Ids
<1>7. Answers = Gettable(rest)
  BY <1>1, <1>4, <1>5, <1>6, WrittenOfCons DEF Answers, Answered, Written
<1>8. Gettable(list) = [f \in DOMAIN Answers \cup {low} |-> IF f = low THEN buf ELSE Answers[f]]
  <2>1. Gettable(<<answer>> \o rest)
          = [f \in DOMAIN Gettable(rest) \cup {answer.id} |->
               IF f = answer.id THEN answer.value ELSE Gettable(rest)[f]]
    BY <1>4, <1>5, <1>6, GettableOfCons
  <2>2. Gettable(<<answer>> \o rest)
          = [f \in DOMAIN Gettable(rest) \cup {low} |-> IF f = low THEN buf ELSE Gettable(rest)[f]]
    BY <1>5, <2>1
  <2>3. QED
    BY <1>4, <1>7, <2>2
<1>9. /\ c.fields = Ids(rest) \cup fields /\ DOMAIN Answers = Ids(rest)
      /\ c.fields \ DOMAIN Answers = fields
  <2>1. c.fields = Ids(values) \cup fields
    BY <1>1 DEF ReaderInv, FieldsAccountedFor, CommandAt, Ids
  <2>2. Ids(values) = {low} \cup Ids(rest)
    BY <1>4, <1>5, IdsOfCons
  <2>3. Ids(rest) \cap fields = {}
    BY <1>5 DEF Ids
  <2>4. DOMAIN Answers = Ids(rest)
    BY <1>7 DEF Gettable, Ids
  <2>5. QED
    BY <1>3, <2>1, <2>2, <2>3, <2>4
<1>10. Current = {c} /\ t \in CommandNodes
  BY <1>1, <1>2 DEF Current, Pending
<1>11. DOMAIN Gettable(list) = c.fields <=> left = {}
  <2>1. DOMAIN Gettable(list) = Ids(rest) \cup {low} /\ Ids(rest) \cap left = {}
    BY <1>5, <1>8, <1>9 DEF Ids
  <2>2. QED
    BY <1>3, <1>9, <2>1
<1>12. CASE left = {}
  <2>1. /\ Ran' = {[command |-> c.name, mode |-> mode, answers |-> Gettable(list)]}
        /\ mode' \in Modes
        /\ Current' = {} /\ Answers' = [f \in {} |-> <<>>]
    BY <1>1, <1>2, <1>12, FirstFieldRefines DEF CommandAt, low, list
  <2> PICK given : given = Gettable(list)
    OBVIOUS
  <2>2. D!Min(c.fields \ DOMAIN Answers) = low
    BY <1>9 DEF low, Min, D!Min
  <2>3. given = [f \in DOMAIN Answers \cup {D!Min(c.fields \ DOMAIN Answers)} |->
                   IF f = D!Min(c.fields \ DOMAIN Answers) THEN buf ELSE Answers[f]]
    BY <1>8, <2>2
  <2>4. DOMAIN given = c.fields
    BY <1>11, <1>12
  <2>5. Ran' = {[command |-> c.name, mode |-> mode, answers |-> given]}
    BY <2>1
  <2>6. D!Answer(c)
    BY <1>1, <1>10, <2>1, <2>3, <2>4, <2>5
       DEF D!Answer, D!Call, D!Nothing, Ran, Current, Answers
  <2>7. QED
    BY <1>10, <2>6 DEF D!Next
<1>13. CASE left # {}
  <2>1. /\ Ran' = {} /\ mode' = mode
        /\ Current' = {c} /\ Answers' = Gettable(list)
    BY <1>1, <1>2, <1>13, FirstFieldRefines DEF low, list
  <2>2. D!Answer(c)
    BY <1>1, <1>8, <1>9, <1>10, <1>11, <1>13, <2>1 DEF D!Answer, Ran, Current, Answers, low, Min, D!Min
  <2>3. QED
    BY <1>10, <2>2 DEF D!Next
<1>14. QED
  BY <1>12, <1>13

-----------------------------------------------------------------------------
\* A line is given up: what is left of the dialogue is an empty one.
LEMMA GivenUpRefines ==
  ASSUME ReaderInv, Released, call' = {}, mode' = mode,
         state # "field", state' # "field"
  PROVE  D!Next
<1>1. buf' \in Seq(Byte \ {NUL})
  BY DEF Released
<1>2. Current' = Current /\ Answers' = Answers
  BY DEF Current, Answers
<1>3. D!Type
  BY <1>1, <1>2, TypeRefines
<1>4. QED
  BY <1>3 DEF D!Next

LEMMA StepRefines ==
  ASSUME ~Swallow, ReaderInv, ReaderInv', Next
  PROVE  D!Next
<1>1. CASE SetMode
  <2>1. /\ mode' \in Modes /\ call' = {} /\ buf' = buf
        /\ Current' = Current /\ Answers' = Answers
    BY <1>1 DEF SetMode, editVars, Current, Answers, Answered
  <2>2. D!SetMode
    BY <2>1 DEF D!SetMode, Current, Answers
  <2>3. QED
    BY <2>2 DEF D!Next
<1>2. CASE Alive
  <2>1. ret # -1
    BY <1>2 DEF Alive
  <2>2. CASE Edits
    <3>1. call' = {} /\ mode' = mode /\ Current' = Current /\ Answers' = Answers
      BY <2>2 DEF Edits, Current, Answers, Answered
    <3>2. buf' \in Seq(Byte \ {NUL})
      BY DEF ReaderInv, EditInv, EditTypeOK
    <3>3. QED
      BY <3>1, <3>2, TypeRefines DEF D!Next
  <2>3. CASE EmptyLine
    BY <2>3, GivenUpRefines DEF EmptyLine, BackToPrompt
  <2>4. CASE LineNoMemory
    BY <2>4, GivenUpRefines DEF LineNoMemory
  <2>5. CASE RejectLine
    BY <2>5, GivenUpRefines DEF RejectLine, BackToPrompt
  <2>6. CASE ArgsNoMemory
    BY <2>6, GivenUpRefines DEF ArgsNoMemory
  <2>7. CASE AcceptLine
    BY <2>7, AcceptLineRefines
  <2>8. CASE AnswerField
    BY <2>1, <2>8, AnswerFieldRefines
  <2>9. QED
    BY <1>1, <2>2, <2>3, <2>4, <2>5, <2>6, <2>7, <2>8 DEF Next
<1>3. QED
  BY <1>1, <1>2 DEF Next

LEMMA StutterRefines ==
  UNCHANGED vars => UNCHANGED D!dialogueVars
<1>1. ASSUME UNCHANGED vars PROVE UNCHANGED D!dialogueVars
  <2>1. UNCHANGED <<buf, mode, state, t, values, call>>
    BY <1>1 DEF vars, editVars, readVars
  <2>2. QED
    BY <2>1 DEF D!dialogueVars, Answered
<1>2. QED
  BY <1>1

(***************************************************************************)
(* As long as no error is swallowed, a peer's line editor, parser, mask    *)
(* and list of values implement the dialogue of include/cl/tree.h, for     *)
(* every tree of commands, set of modes and line.                          *)
(***************************************************************************)
THEOREM ReaderImplementsDialogue ==
  ASSUME ~Swallow
  PROVE  Spec => ImplementsDialogue
<1>1. ReaderInv /\ [Next]_vars => ReaderInv'
  BY ReaderStep, ReaderStutters
<1>2. ReaderInv /\ ReaderInv' /\ [Next]_vars => [D!Next]_D!dialogueVars
  BY StepRefines, StutterRefines
<1>3. QED
  BY <1>1, <1>2, ReaderInitInv, InitRefines, PTL DEF Spec, ImplementsDialogue, D!Spec
=============================================================================

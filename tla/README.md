# A verification model of libcl

libcl is a C library for command-line interfaces over terminals and telnet: an
application gives it a table of commands, feeds it the bytes a user types, and
has a callback called for each command. This directory holds TLA+ modules that
model it, TLC configurations that check them on small instances, and theorems
that TLAPS checks for every value of the constants. All paths below are
relative to the root of the repository's checkout under `src/`, so `src/read.c`
is `src/src/read.c` in `PROJECT.json`.

Run a model with `tlc -config MCReader.cfg MCReader`, the proofs with
`tlapm ReaderProofs.tla`. `PROJECT.json` lists the components, the runs, the
lines of code each definition stands for, the hazards and the findings.

## The system

| part | files | state | operations | modelled in |
|---|---|---|---|---|
| lexer | `src/lexer.c` | none: `src` and `dst` are its caller's | `lex_next` | Lexer, Arguments |
| command trie | `src/trie.c` | the trie under `tree->root` | `trie_add`, `trie_walk`, `trie_run`, `trie_help` | Trie, Tree, TreeSearch |
| command tree | `src/cl.c` | `struct cl_tree`: root, fields, callbacks | `cl_create`, `cl_help`, `cl_visible` | Tree, TreeSearch |
| command line parser | `src/read.c` | `rctx->t`, `argv`, `argc` | `parsecommand` | Command, Arguments |
| line editor | `src/edit.c` | `ectx->buf`, `count`, the storage; what is on the screen | `edit_push`, `edit_release`, `edit_walk` | Edit, Terminal, Command |
| reader | `src/read.c`, `src/field.c` | `rctx->state`, `t`, `fields`, `values`, `argc`; `p->mode` | `getc_main`, `read_get_field`, `cl_set_mode` | Reader, Dialogue |
| peer | `src/cl.c` | `struct cl_peer`: chain, `ttype`, `tctx`, the contexts | `cl_accept`, `cl_ready`, `cl_read`, `cl_close` | Peer |
| I/O layers | `src/io/*.c` | each layer's `ioctx`: libtelnet's and termkey's state | create, ttype, read, send, destroy | Peer; keys and erasing in Terminal |
| terminfo | `src/term.c` | capability strings | `term_create`, lookups | an outcome in Peer |
| router example | `examples/router` | the list of peers, `master`, `curr`; each peer's mode and dialogue | `main`'s loop, `addpeer`, `findpeer`, the callbacks | Router |
| advent example | `examples/advent` | none of its own | callbacks that print | not modelled |

How they interact. Bytes arrive by `cl_read()` and go up a chain of layers:
telnet decodes and negotiates, ecma48 makes keys of bytes by termkey, and
`getc_main()` takes each key as an event. The editor collects keys into a line;
a newline hands the line to the parser, which walks the trie word by word and
collects arguments; then the fields the command asks for are prompted for one
by one; then the application's callback is called, and may change the mode.
Everything runs in the thread of the application's `cl_read()`; there are no
locks, and all concurrency is that of peers' events interleaved with the
application's own calls. The router example is such an application: one thread
that waits in `select()` for all its clients, and reads from one at a time. There
is no persistence and nothing to recover.

What is hard in it:

* the trie's search is a recursion with one cursor shared by all its calls,
  through nodes that merge the modes of several table entries;
* three pieces of code (`parsecommand`, `edit_walk`, `trie_help`) read one line
  against one trie, each by rules of its own;
* a dialogue's state is spread over a mask of fields still to be asked, a list
  of values, the node of the command and a state variable, and changes over
  several events between which the application may change the mode;
* allocations fail half way, and one layer drops the error that says so;
* the chain of layers is created from the wire inwards, and with telnet its
  inner part is created later, by whichever of two messages arrives first;
* termkey buffers a bounded number of bytes between calls;
* the arithmetic of the editor's storage and of the lexer's positions;
* what is on the screen is never looked at again: echo, erasing and help each
  print what they take the line to be;
* a server's clients log in over several lines each, between those of others,
  come and go, and are given each other's descriptors, which a list that is
  never shortened maps to peers.

What makes each part correct:

* lexer and arguments: every byte of a line is in exactly one token or is blank
  between two; the loop ends on every line; what is reserved for the tokens
  suffices; a text that is quoted is read back as it was;
* trie and tree: the trie does not depend on the order of the table; help lists
  what is visible and nothing else; what help lists can be run;
* editor: there is storage if there is text, and what is written past the end of
  it (the code does write there, see Findings) does not grow; deleting a word
  deletes one word, and the screen shows the line;
* reader: the prompt on the screen is what the next line is taken for; every
  field is asked once; the callback sees for each field what was typed for it;
* peer: the greeting comes once, before the first key is looked at, and comes
  in the end; keys are delivered once and in order; no layer is used before it
  has been created;
* router: input goes to the peer of the client that sent it; a client gets past
  login and enable by its own right answers only; the asserts on modes hold;
  nobody is starved by what others type.

## The modules

`Bytes` names the bytes that mean something to the lexer. A line, a command and
a token are sequences of bytes, because the properties of the lexer and the
trie are about their positions. Of the output, Reader and Router keep which
prompt was last printed, and Terminal what is shown after it.

`Lexer` is `lex_next()`: `Step` is the `switch` on the state and the byte,
`Emit` is what a turn writes, `Run(line)` what the loop comes to from each byte
in each state, `Lex(line, i)` is the token that starts at `i` or later.
`TokensFrom(line)` has for each position the tokens from there on, as the loops
of `edit_walk()` and `edit_backword()` go through them, and `Tokens(line)` is the
line lexed from its beginning. Here and in `Command` and `TreeSearch`
recursion is written as recursive functions, so that it can be proved about.

`Arguments` is the second loop of `parsecommand()`. `line` is the line,
`src` and `dst` the two cursors, `mem` the storage behind the line, `argv` the
array of pointers into it. `NextToken` is one iteration. Its properties compare
the storage with the history of tokens.

`Trie` models a trie as a function from the paths of its nodes to their
commands. `TrieNext`, `TrieCycle` and `TrieRun` are what the recursive search
finds, in closed form; `TreeSearch` has the recursion itself, over the edges of
a node in the order of their bytes (`EdgeLoop`), with its shared `prev`, and
`SearchIsLexicographic` says that the two agree from every node and after every
`prev`. `Tree` is `cl_create()`, one entry per step, with the asserts of
`trie_add()`, on the bytes of a name and on an entry that is merged with another,
and a failure to allocate. `Command` is the first loop of
`parsecommand()`, and `edit_walk()`.

`Edit` is the line editor: `buf` is the text up to `ectx->count`, `cap` is how
much is allocated, `ret` what was last returned. `append()` stores the text and its
terminator whether or not they fit: bytes past the end may stop the program
(`aborted`, as a failed assert does) or go unnoticed in what `malloc()` has to spare,
and both happen in the model. Its actions are parameterised
so that `Reader` can use them whole: `EditPush(trie)` is every event but a
newline, `Released` is `edit_release()`.

`Terminal` puts a terminal in front of `Edit`. `Key` is one turn of the loop of
`ecma48_recv()`: `Keysym`, `Ctrl`, `TextKey` and `EnterKey` are its tables,
`FunctionKey` is F1, which the code turns into a backspace by falling through to
the next case, `UnknownKey` a key of a type that has no case, whose event is
whatever was on the stack. Each does an action of `Edit` and its output: the
echo of a key before it is stored (`Typed`), a cell for each byte erased
(`Erase`), the line again after help (`Redisplay`). `screen` is what is shown
after the prompt; `Lost` stands for all screens that are known to be wrong,
after failed output, a key that was echoed but not stored, or a character of
several bytes erased as if it were as many characters.

`Reader` is `getc_main()`. Each action is one call of it, from the event to the
return, with every callback, print and allocation in between:

| action | path through the code |
|---|---|
| `Edits` | `edit_push()` returns 0 or -1 |
| `EmptyLine` | a newline with nothing typed: prompt again |
| `LineNoMemory` | no memory for the line |
| `RejectLine` | `parsecommand()` returns 0 |
| `ArgsNoMemory` | `parsecommand()` returns -1 |
| `AcceptLine` | `parsecommand()` returns 1: first field, or callback |
| `AnswerField` | `STATE_FIELD`: store, clear the bit, next field or callback |
| `SetMode` | the application calls `cl_set_mode()` between two events |

The constant `Swallow` says whether input goes on after an error: it does behind
telnet, whose handler drops the -1, and does not on a terminal whose
application gives up on -1.

`Dialogue` is the abstract specification: what `include/cl/tree.h` promises of
one peer, without buffers, lists, tokens or trie. `Reader` maps its state to
it (`D` in Reader.tla): `line` is the editor's text, `current` is the command
at `t` while in `STATE_FIELD`, `answers` the written part of the list, `ran` the
call just made. The property `ImplementsDialogue` is that specification. It leaves
out two things the header says: nothing calls a field's `validate()`, so no prompt
is repeated; and the mode a callback is told is the one of the moment, which
`ModeIsCommands` is about.

`Peer` is a peer from `cl_accept()` to `cl_close()`. `chain` records what has
been created; `Create` follows the calls of `create` from layer to layer and
yields every way they can end. `Ttype` and `TelnetData` are the two libtelnet
events that race, `TtypeSend` is the one that a client's own question for a
terminal type makes, which fails an assert (`telnet.c:59`); `EcmaRead` is
`cl_read()` on a terminal. `Keys` is `ecma48_recv()`'s loop: how many bytes it
takes is for termkey to say, which leaves an escape sequence in its buffer until
it has ended, however long it gets. When the buffer is full
`termkey_push_bytes()` fails and so does `EcmaRecv` (`ecma48.c:113-116`), on a
terminal and, ignored, behind telnet. The bytes of the input are numbered, so
loss, repetition and reordering show. What a key means is Reader's subject.
`Close` ends the behaviour: what `cl_close()` does is undefined (see Findings
below), so nothing after it is modelled.

`Router` is the server of `examples/router`, and composes several peers with the
kernel's sockets and their clients. `Select`, `AcceptPeer` and `Scan` are the
parts of `main()`'s loop, in the order in which it has them; `Scan` is one turn
of the loop over the descriptors, the lowest first, with `read()` failing
(`ReadFails`), at the end of the input (`ReadEof`), returning the first of a
client's input or a line (`ReadFirst`, `ReadLine`). Nothing is shown at accept:
the greeting comes with `ReadFirst`, when the client has named its terminal or
typed, and `term` says whether its terminal could be created then. What is
printed is sent by `write()` in the only thread, and the sockets block:
`Written` may leave the server waiting for the client (`stuck`) until that
reads, or breaks the connection (`WriteFails`). Connections are numbered in the
order in which they are made, in which `accept()` returns them. A line is
`CommandLine` or `Answer`, that is `Reader`'s `AcceptLine` and the others or its
`AnswerField`, with `Execute` and `Ask` for the branches of `firstfield`; the
callbacks are those of the file, and `CallBack` tests what they assert. `Client`
is what clients do: connect, send a line, close their end, break the connection,
read again what they had left unread. `status` says what ended the server:
`main()` returned, an assert of the example's or of the library's ("aborted"),
SIGPIPE for an answer to a client that has left, or undefined behaviour. Two
variables are history: `prompt` is what a client was last shown, `proved` what
it has rightly answered to such prompts since it typed a command. They are kept
by connection, and everything in the server by peer, so that input that went to
another's peer would show.

`Reader` extends `Edit` and `Command`, which extend `Lexer` and `Trie`; `Peer`
abstracts `Reader` to a key's result, 0 or -1, and so the two compose by
`Swallow`: `Reader` with `Swallow = TRUE` is what `Peer` calls with `io =
"telnet"`.

## The runs

| run | states | what it shows |
|---|---|---|
| arguments | 82k | on every line of up to five bytes over seven bytes that take every transition of the lexer, tokens tile the line, fit the reserved storage, and are read back by the lexer when they are quoted |
| tree | 5.9k | on every table of up to three of ten overlapping entries, the search is the closed form, help is exact, help in the middle of a line lists what that line runs, and a name typed in full runs unless it is shadowed in a way `Shadowed` spells out; TLC also evaluates what the theorems about the tree assume |
| edit | 25k | with keys of one and two bytes over blocks of three, after every mix of typing, erasing, help, failure and release: text has storage, what is stored past its end is never more than a key, a word is deleted as a word, and the screen shows the line |
| reader | 124k | a command with two fields and one with none, in two modes: the prompt, mask and list agree, and the whole implements `Dialogue` |
| peer | 1.4k | terminals and telnet clients in any order of answers, keys, failures, with a buffer that is filled and stays full |
| router | 436k | two clients of the server in any order of lines, departures and failures: each is served, with its own peer, and none has a mode it did not log in for |
| arguments_kept, edit_words, edit_storage, reader_swallow, reader_mode, peer_telnet | | violations, see Findings |

The bounds and why they are enough:

* `MaxLen = 5` in arguments: the lexer has no memory but its state and the last
  byte; five bytes make two tokens of any type with any separator, or a quoted
  string with an escape.
* Tables of three entries: two entries can overlap in every way (prefix, shared
  word, space, same name with other modes); the third is the sibling a search
  can wrongly stop at or skip.
* `BlockSz = 3`, `MaxLine = 6` in edit: the storage is extended twice, and a key
  of two bytes lands on, before and across the boundary. The theorems cover
  every block size. edit_storage has the code's 64.
* `MaxLine = 2` in reader: with the command `a` (two fields) and `aa` (abbreviated
  `a` in the other mode), a blank and a pipe, two bytes make every outcome of the
  parser: empty, rejected, accepted, accepted with an argument. `BlockSz = 64`
  is the code's. Storage growing is edit's subject.
* `BufSz = 3`, `MaxInput = 7` in peer: the buffer is filled, left with a sequence
  that has not ended, and filled again, over three reads, or left full; termkey's
  own is 256.
* Two connections and two descriptors in router: both clients are there at once
  or one after the other; when the first breaks its connection the second gets
  its descriptor, and its peer is in front of the first's in the list. Two
  clients are what interleaving a login takes, each property is about one or
  two, and the theorems cover any number. A line is a command without its text:
  it names a command that is visible, with an argument or without, or is
  rejected. Of the three objects that can be configured one is used; they
  differ in their names. An answer is the right user's name, the right password
  or empty; a name in place of a password is a wrong one.

Liveness and fairness. Two properties are about progress. `NobodyStarves` assumes
weak fairness of `Server`, one process that the system runs as long as it can
do something; of the clients nothing is assumed, they may stay silent or type
without end. It exempts a server that has ended, and it has a premise: that the
server is again and again not waiting in `write()`. That is not in its own hands.
The sockets block (`router.c:506`), so that one client which asks for help without end
and reads nothing stops the server for all others; what the property says is
that nothing else does, neither what others type nor the descriptors they leave.
`GreetedEventually` needs two assumptions: that the application calls `cl_ready()`
after `cl_accept()`, which the header requires ("This is required to be called after
cl_accept()", `include/cl/tree.h`), and that the user of a telnet client types
something. Both are weak fairness. Nothing is assumed of the client's answers,
nor of allocations; an error, a close, and a client that asks for a terminal type
itself are exempt. Everything else in the library happens only when a user
types, so nothing more can be promised: those specifications have no fairness,
and their configurations switch deadlock checking off because a user may stop
typing at a bound (`MaxLine`, `MaxInput`) or after an abort; the router stops when
its server has ended or waits for a client, or all its clients have gone.

## What is proved

Every safety invariant and action property that a run finds to hold is also a
theorem. The proofs are in `LexerProofs`, `ArgumentsProofs`, `EditProofs`,
`TerminalProofs`, `TreeProofs`, `ReaderProofs`, `PeerProofs` and `RouterProofs`.

What recursive functions compute is proved by induction on the position in a
line, on a path's length or on the edges of a node. The library's induction
theorems take the property as an operator, which the provers cannot supply; but
a property of numbers is also the set of numbers that have it, and for sets
the first lemmas of `LexerProofs` suffice: `LeastNumber` (a set of numbers has a
least one, from the library's theorem that `<` is well-founded), `Induction`,
`StrongInduction` and `MeasureInduction` from it, and `PrimitiveRecursion`,
`Recursion` and `MeasuredRecursion`, which say that the function a recursive
definition chooses exists. `TokensFromIs`, `ParseLoopIs`, `EdgeLoopIs` and their
like then unfold each definition once.

* **LexerProofs** has no theorem of a specification, but what the others rest
  on: `LexPromises` (a token is not empty, ends on the line, and has no more
  text than bytes), `WordsAreLexed` (a line of words is lexed into those words),
  and `TokensAreKept`: if a line is cut after a token, what is left has the
  tokens up to it, because what is read without an error does not depend on
  what comes after (`RunIsLocal`).
* **ArgumentsTypes**, **LineIsTiled**, **ScratchIsEnough**,
  **TokensAdvance**, **EveryTextCanBeQuoted**: the properties of `Arguments`, for
  lines of any length over any bytes. They share the inductive invariant
  `ArgumentsInv`: the tokens so far tile the line up to `src`, together with those
  from `src` on they are the line's, and their texts with a terminator each need at
  most two bytes for each byte up to `src`, because a token has at least one byte
  and no more text than bytes. The last is about the lexer only, which undoes
  quoting byte by byte: that a text can be quoted does not mean it can be typed,
  since on a command line the editor takes `?` for help, also within quotes.

* **EditInvariant**: `EditSpec => [](EditTypeOK /\ OverrunIsBounded /\
  TextHasStorage)` for every block size, any keys shorter than a block, any
  value of `isspace()`, with failures. That the text lies within its storage is
  false (the run edit_storage); what is true is that the bytes past its end are
  never more than those of one key. The inductive invariant says why:
  `NearBoundary`, the storage ends less than a key short of a block boundary, and the
  text does not pass that boundary, since `append()` would have seen it do so.
  **EditStorage** is the third part, `TextHasStorage`, **EditTypes** the first.
* **OneWordIsErased**: `EditSpec /\ [][DeleteWord => SpaceIsOne]_editVars =>
  WordErased`. Nothing is assumed of `isspace()` but that it returns 1 when a word is
  deleted behind a space that is kept (`SpaceIsOne`): that is what the code adds to
  a pointer, and for glibc's 8192 the conclusion is false, which is the run
  edit_words. `WordErased` speaks of lines in which the lexer finds no error; behind an
  unterminated quote nothing is left to delete, and an assert fails. By
  `TokensAreKept`, and because the last token starts after the one before it and a
  space between them, there is always something to delete. **CtrlWErasesOneWord** is
  the same for `TerminalSpec`.
* **ScreenInvariant**: `TerminalSpec => [](ScreenShowsLine /\ EditTypeOK /\
  OverrunIsBounded /\ TextHasStorage)`, from the lemmas of `EditProofs` for what a key does to the
  line. Inductive as it stands; the step that matters is `EraseKeepsStep`: as
  many cells go as bytes, whichever of the three ways of erasing it was.
* **TreeMatchesTable**: `Spec => []TrieMatchesTable`: for every set of tables, the trie that `cl_create()` builds
  is the table's (`TrieMatchesTable`), whatever the order of the entries. The
  inductive invariant says that the trie so far is that of the entries so far.
* **SearchIsRight**: `Spec => []SearchIsLexicographic`. Of each node, by induction
  on how long the paths below it are: what the recursion returns, and what it
  leaves in `prev`, is determined by the visible commands and the ends of words
  below it (`NextIs`, `NextCallFinds`); within a node, by induction on the edges
  still to go (`EdgeLoopFinds`). That the order of the edges, a node before its
  children, is the order `Precedes` is `EdgesOrder`.
* **HelpIsRight**: `Spec => []HelpIsExact`, for every `visible()`: the lists of the
  edges are disjoint and together have all entries below a node (`HelpLists`,
  `InOrderLists`).
* **HelpIsForWhatRuns**: `Spec => []HelpListsWhatRuns`, for all lines, assuming
  `NamesAreWords` and `VisibleByParts`. The two loops over the tokens are compared
  token by token (`LoopsAlong`): as long as `parsecommand()` has a node,
  `edit_walk()` is at it, at a path before it, or has stopped at one (`Along`).
  The case that needs the names to be words is a node from which a space leads
  on: there `trie_run()` goes to the space or nowhere (`RunAtSpace`).
* **FullNameIsEnough**: `Spec => []FullNameRuns`, assuming also `NamesCanBeTyped` and
  `VisibleTogether`. A name that is a path of the trie takes the loop to its
  end, unless a visible command ends with one of its words (`PathIsParsed`,
  `StopsAre`); there `trie_run()` takes a second look, which finds nothing only if
  no other command goes on (`RunWhenVisible`, `ContinuedIs`).
* **TreeOfMasksIsRight**: both for applications that pass `cl_visible()`, for which
  `VisibleByParts` always holds, and `VisibleTogether` if no command has an entry
  with modes 0 besides one with a mask.
* **ReaderInvariant**: `Spec => [](ReadTypeOK /\ PromptIsCurrent /\
  FieldsAccountedFor)` for every trie whose nodes hold commands named by their
  paths, every set of modes, and every editor. It assumes `~Swallow`: with it,
  the statement is false, which is the run reader_swallow. The step that matters
  is `FirstField`, and the predicate `Pending` is what it needs: the list and
  the mask together are the command's fields, all in the list are written, and
  all are below those still to be asked. The parser's (`AcceptedIsPending`) and
  the answer's branch (`AnsweredIsPending`) each establish it. **ReaderFields**
  is its third part, `FieldsAccountedFor`, **ReaderTypes** its first.
* **ReaderAnswers**: `Spec => []EveryFieldAnswered`, under the same assumptions:
  a `Pending` list with nothing left to ask has all of the command's fields.
* **ReaderImplementsDialogue**: `Spec => ImplementsDialogue`, under the same
  assumption: every call of `getc_main()` is a step of `Dialogue`, or leaves it as
  it is. The mapping looks at the list of values (`Written`, what has been
  answered), the callback at the same list through `read_get_field()`
  (`Gettable`); the lemmas `WrittenOfCons` and `GettableOfCons` say how each
  changes when a node is put in front or its value written, `FirstFieldRefines`
  what the two branches of the label `firstfield` are in the dialogue.
* **PeerIsConnected**, **PeerInput**, **PeerAsserts**, **PeerGreeting**: the
  safety properties of `Peer`, for every size of termkey's buffer, any amount of
  input, sequences that fill the buffer, and any failures. They share
  the inductive invariant `PeerInv`, which is needed because none of them is
  inductive alone: `WellBuilt` says what each created layer rests on (a terminal
  needs every context, ecma48's context needs the type), `ChainInv` says when
  which has been created, and that a telnet peer with a type but no terminal has
  met an error; `InputInv` that all delivered bytes are below `consumed`, and
  that nothing has been delivered before the type is known. `PeerAsserts`
  assumes no plain peers: those abort; and two asserts that do fail are exempt from
  it, when the peer is closed and when a client asks for the terminal type. **PeerInputConserved** is the second part
  of `PeerInput`, `InputConservedOnTty`, and **PeerTypes** what `PeerInv` says of
  the types.

* **RouterFindsPeers**, **RouterAssertsHold**, **RouterPrivilege**: `PeersAreFound`,
  `AssertsHold` and `PrivilegeIsEarned`, for any number of clients and
  descriptors, with failures. `LoopInv` is about descriptors: no two open
  connections share one, and each open connection's peer is in the list with
  nothing of its descriptor before it (`FoundAt`), which is preserved because a
  new peer goes to the front and its descriptor was free. It yields that
  `findpeer()` finds the client's own peer, which everything else rests on.
  `PeersInv` has for each peer `TalkInv`: while a command's fields are asked the
  peer is in that command's mode, and `LoginInv` and `EnableInv` list the shapes
  that the fields left, the values and the prompt can have then. The case that
  makes them necessary is a failed allocation in the middle of a login: then no
  prompt is shown and the next line is taken for the answer that was already
  given, which at worst leaves a field unanswered; the invariant says that the
  right name in the list was still typed at its prompt, and that a dialogue is only
  had with a peer whose terminal is there. **RouterTypes** are the
  types in it.

Only model-checked: the two liveness properties, `GreetedEventually` and
`NobodyStarves`, since the installed provers have no rules for `ENABLED` and fairness.

The assumptions on the constants are named in the modules that declare them:
keys are shorter than a block (utf8 is at most six bytes, a block is 64),
descriptors and connections are numbers, the trie is one that `cl_create()` can
leave and is not NULL. `TreeSearch` names four more that only
the last theorems about the tree use, and `MCTree` has TLC evaluate them for its
menu:

* `NamesAreWords`: names have no byte below a space and do not end in one. The
  header asks for words separated by single spaces, and none at the ends
  (`include/cl/tree.h:74-76`), and `trie_add()` asserts that there is no tab or line
  break in them (`trie.c:21`); of other bytes neither says anything. Both parts are
  needed, TLC finds counterexamples without them: with "a ", and "a b" in
  another mode, the line "a b" runs the first, and help at its end lists nothing;
  with "a", followed by a byte 1, and "a b", the line "a" runs the first, as that
  byte comes before the space, and help lists the second.
* `NamesCanBeTyped`: they have neither quotes nor pipes, at which the lexer ends a
  word, nor a space at the beginning or two in a row, as the header asks.
* `VisibleByParts` and `VisibleTogether`: a command is visible in a mode only if,
  and if, one of its entries is. The header says that `visible()` "returns true if
  mode is present within the mask of modes" (`:166`), and what the code asks it
  about is the union of the entries' masks. A `visible()` that is always true,
  which a comment allows (`src/cl.c:331`), has both; `cl_visible()` has the first,
  and the second if no command mixes modes 0 with a mask.

## Findings

Each is a run that finds a state in which the code does something else than its
comments or its header say; `PROJECT.json` quotes them.

* arguments_kept: `lex_next()` advances a copy of `*dst`, so all arguments are
  written to one place; with two, both read as the last.
* edit_words: `isspace()` is added to a pointer as if it were 0 or 1; under
  glibc, deleting a word then reads a length from elsewhere.
* edit_storage: `append()` copies the terminator behind the text but grows the
  storage for the text alone: a line of 64 bytes is stored in 64 bytes. A key of
  several bytes that straddles a boundary leaves text there too. "TODO: check
  again...", says the comment on its condition.
* reader_swallow: when there is no memory for a field's value, and a layer
  ignores the error, the next line is taken for the answer of a field that was
  not prompted for.
* reader_mode: a callback is told the mode of the moment; if the application has
  changed it while the fields were asked, it is not one of the command's, as the
  header says it is.
* peer_telnet: bytes beyond termkey's buffer are lost behind telnet, although
  `cl_read()` says they were consumed.

Read, but not given a run: Ctrl-U on an empty line calls `edit_backspace()` with 0,
which it asserts against (`edit.c:103`, `:229`), and so does deleting a word behind
an unterminated quote; `Edit` models both as aborts. An abbreviation of several
commands runs the first of them in the order of the bytes, where a comment on
`trie_run()` says NULL (`internal.h:166`). A client that asks for the terminal type
fails an assert (`telnet.c:59`), and termkey's buffer stays full once a sequence has
filled it (`ecma48.c:114`). `cl_close()` destroys a terminal twice, or asserts
there is one when the chain has not been made ready; creating a plain chain
asserts a terminal type that nothing has set. `Peer` models these as aborts. F1
deletes a character, since a `break` leaves the inner `switch` only
(`src/io/ecma48.c:129`), and a key without a case leaves its event uninitialised
(`:123`); `Terminal` models both. Of the router example, as `Router` has it:
"exit" in the first mode, whose usage is "disconnect", ends the server for all
clients (`router.c:371`, `:454`); so does an empty argument in quotes
(`router.c:318`: "libcl doesn't permit \"\" here"), and may any other, since `argv`
leads into storage that has been freed; at the end of a client's input its
descriptor is neither closed nor taken from the set, so that the loop spins
(`:676`); and asking again for a login is left to `cl_again()`, which does nothing.

## Not modelled

* Option negotiation and the decoding of telnet commands: libtelnet's.
* Which escape sequence is which key: termkey's.
* Output, but for prompts and the line: what is sent, in which layer's words, and
  terminfo's strings. The width of a screen, and lines that are longer.
* `cl_again()`, `cl_destroy()`, field validation and input without echo: the code
  has them as stubs or never looks at them.
* History, cursor movement and completion: not implemented.
* The advent example: one terminal, callbacks that print, no state. Setting up
  the router's socket, the counts of its failed logins and the names of what is
  configured, which only decide what is printed.

## Plan

Done: Bytes, Lexer, Arguments, Trie, Command, Tree, TreeSearch, Edit, Terminal,
Dialogue, Reader, Peer, Router and the proofs above. What is left, in this order:

1. `Peer` composed with `Reader` in place of a key's result, 0 or -1, and that
   `Router`'s dialogue implements `Reader`'s for its table of commands.
2. Tables that mix modes 0 and a mask for one command.
3. From the theorems about the tree to `Reader`: that its trie, a constant, is one of
   those `Tree` builds.

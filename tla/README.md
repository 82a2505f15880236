# A verification of json-language-server

This directory holds TLA+ specifications of the JSON language server, the TLC
models that check them on small instances, and theorems about them that TLAPS
checks for every value of the constants. Paths such as `server.rs:324` are
relative to `src/src/`, paths in `crates/` to `src/`.

1. [The system](#1-the-system)
2. [Modules](#2-modules)
3. [Correspondence with the code](#3-correspondence-with-the-code)
4. [Runs](#4-runs)
5. [Theorems](#5-theorems)
6. [Where code and documentation disagree](#6-where-code-and-documentation-disagree)
7. [Abstractions and limits](#7-abstractions-and-limits)
8. [Plan](#8-plan)

## 1. The system

The server is one process that talks LSP over stdin and stdout. Five threads run
in it:

- **LspServerReader** (`crates/lsp-server/src/stdio.rs`) parses messages from
  stdin and hands each to the main thread; it ends after `exit`, at the end of
  input, or on a message that does not parse.
- **main** (`main.rs`, `server.rs`) does the handshake, then handles one message
  after the other in `main_loop`.
- **validator** (`server.rs`, `validation_worker`) validates one document at a
  time and publishes diagnostics.
- **LspServerWriter** writes messages to stdout in the order it receives them.
- **LspMessageDropper** frees the messages the writer has written.

They communicate over four channels and one lock:

    stdin -> reader =0=> main ----unbounded----> validator
                          |    RwLock<ServerState>   |
                          +=======0=> writer <=0=====+
                                        |
                              stdout <--+=0=> dropper

`=0=>` is a channel of capacity 0: the sender waits until the receiver takes the
message.

### Components

**Server** (`server.rs`). *State*: `ServerState` behind a `RwLock` (the open
documents, the schema store, the regex cache), the channel to the worker, the
channel to the writer. *Operations*: didOpen, didChange, didSave, didClose,
didChangeConfiguration; hover and completion, which may download a schema; ten
requests that read one document; `json.sort`; the worker's loop. *Hard*:
`validate_and_publish` takes the lock in three separate read sections and up to
two write sections, with a download of up to ten seconds in between; the main
thread changes, closes or reconfigures the document meanwhile; handlers answer
while they hold a read guard, over a channel whose writer may be busy.
*Correct when*: the client ends up with the diagnostics of what it sees; results
never go back in time; a closed document stays clear; every request is answered.

**Validation queue** (`server.rs:321-327`, `708-721`). *State*: the channel, the
URI in hand. *Operations*: schedule, receive, drain, finish. *Hard*: senders run
during the drain. *Correct when*: the newest request is never lost and nothing
older than it is validated after it.

**Schema store** (`schema/resolver.rs`). *State*: associations, cache, HTTP
agent. *Operations*: look a document up, fetch, insert, clear. *Hard*: lookup,
fetch and insertion are three steps, run by two threads, with a configuration
change in between. *Correct when*: the cache stays within its limit, the first
matching association wins, old content survives a configuration change only where
its download was on its way.

**Transport and life cycle** (`stdio.rs`, `lib.rs`, `main.rs`). *State*: the
three threads, the two ends of every channel. *Operations*: read, forward,
write, drop, handshake, shutdown, join. *Hard*: rendezvous between five threads,
ends that disappear, `unwrap` on results that depend on the order of messages.
*Correct when*: a correct client never makes the process panic, every message is
taken up, no message is lost in a send whose result is ignored.

**Document** (`document.rs`). *State*: text, line index, tree, version.
*Operations*: open, replace, apply an edit, convert positions. *Hard*: positions
are UTF-16, slices are UTF-8 bytes, a position may lie outside the text.
*Correct when*: text, tree and line index stay the same document.

**Schema validation** (`schema/validation.rs`), **schema parsing and path
resolution** (`schema/types.rs`), **syntax diagnostics** (`diagnostics.rs`),
**completion**, **hover**, **formatting and sorting**, **symbols**, **links**,
**folding**, **selection ranges**, **colours**, **tree helpers** are functions
of one text (and one schema). They keep no state but the regex cache. *Hard*:
recursion over data that comes from elsewhere, trial validation of
sub-schemas, edge cases of empty and duplicate entries, trees that error
recovery has repaired, the same question (which key, which schema, which
comma) answered in two places by two pieces of code. *Correct when*: the
result agrees with a definition of what JSON, JSON Schema or LSP asks, and the
features agree with each other.

**Not used by the server**: the socket transport (`socket.rs`), the request
queue (`req_queue.rs`), `Connection::memory`, `connect` and `listen`,
`SchemaStore::resolve_ref` and `reset_schema`.

## 2. Modules

| module | what it is |
| --- | --- |
| `LatestMailbox` | abstract: a one-place mailbox whose newest request replaces the waiting one |
| `ValidationQueue` | the channel and the draining loop; implements `LatestMailbox` |
| `SchemaStore` | the decisions of the schema store, as operators |
| `LanguageServer` | main thread, worker, lock and writer; built on `LatestMailbox` and `SchemaStore` |
| `ServerProperties` | the properties of `LanguageServer` |
| `MCLanguageServer` | its instances for TLC |
| `Lifecycle` | transport threads, handshake, shutdown, end of the process |
| `ValidationQueueProofs` | the queue implements the mailbox |
| `ServerProofs` | type correctness of the server, the limit of the schema cache and what survives a configuration change, which diagnostics the client is shown and when |
| `LifecycleProofs` | no panic and no lost message without a fault |
| `JsonSchemas` | JSON values, schemas and how they are parsed, the search for a path segment |
| `SchemaValidation` | the validator: `validate_node` and everything it calls, run on values that change |
| `JsonSchemaSpec` | reference: when a value conforms to a schema, after the standard |
| `ValidationProperties` | the properties of the validator and of what completion offers (`CompletionItems`) |
| `MCSchemaValidation` | its schemas and values for TLC |
| `DocumentText` | a document under incremental changes: positions, text, line index, tree |
| `MCDocumentText` | its instance for TLC |
| `DocumentTextProofs` | counting, the encoding of a text, its line index and the positions in it; text, line index, tree and positions of the server are those of the client's text |
| `SyntaxTrees` | texts as tokens, the syntax tree, the helpers of `tree.rs` |
| `OpenDocument` | the variable `text`, which the requests share |
| `JsonPaths` | the path to a node, the node a path leads to |
| `Cursors` | the node at a cursor |
| `SyntaxDiagnostics` | which errors and duplicate keys are reported, and how |
| `Links` | links and go-to-definition |
| `LeadingPaths` | that paths lead where they come from, and that go-to-definition finds what the links show |
| `CompletionContext` | what is to be completed at a cursor |
| `CompletionItems` | the names and values completion offers, the schema hover describes |
| `Colors` | hex colours, through the arithmetic of `f32` and back |
| `Formatting` | formatting: the edit, and the text after it |
| `FormattedText` | what formatting keeps |
| `Sorting` | sorting: the text read, sorted and written anew |
| `CollectedSymbols` | document symbols as `document_symbols` collects them, and what the writer owes |
| `Symbols` | the writer of document symbols with one shared cursor |
| `TreeProofs` | recursion over numbers and trees; `Parse` gives trees as the other proofs need them, for every text |
| `SymbolsProofs` | the writer writes what is collected, for every tree and every text |
| `PathsProofs` | paths lead to their values and definitions are found, in every text |
| `FormattingProofs` | formatting keeps the tokens of every text |
| `DocumentRequests` | the requests that read one document, composed of `Sorting`, `FormattedText`, `Symbols`, `SyntaxDiagnostics`, `LeadingPaths`, `CompletionContext` and `Colors`, and their properties |
| `MCDocumentRequests` | its texts for TLC |

`LanguageServer` uses the mailbox (`INSTANCE LatestMailbox`) where the code has
a channel and a loop. That is justified by the refinement `ValidationQueue` =>
`LatestMailbox`, model-checked and proved; it keeps the channel's contents out of
the state space of the server. `Lifecycle` describes the same threads from the
side of the transport: what a handler computes is left out there, what a channel
end does is left out in `LanguageServer`.

## 3. Correspondence with the code

`PROJECT.json` maps every definition to the lines it models. The main points:

### LanguageServer

| variable | code |
| --- | --- |
| `docs`, `assocs`, `cache` | `ServerState.documents`, `schemas.associations`, `schemas.cache` |
| `config` | counts the calls of `clear_cache` by didChangeConfiguration; content requested under configuration *n* is represented by *n* |
| `slot`, `busy`, `last` | the queue and the worker's `uri` as a mailbox |
| `step`, `target`, `inline`, `wanted`, `schema`, `todo`, `owed`, `job` | program counters and local variables of the handlers and of `validate_and_publish` |
| `writing` | the writer thread is not at its `recv` |
| `shown` | for each document the last `publishDiagnostics` sent: which text it was made from, under which configuration the schema was chosen (`config`) and the content of the schema was asked for (`content`) |
| `issued` | messages the client has sent |
| `late` | history: diagnostics sent for a closed document since it was cleared |
| `overtaken` | history: the schema the worker was downloading when the configuration last changed |

One action is one critical section, one blocking hand-over or one download:

| action | code |
| --- | --- |
| `DidOpen`, `DidChange`, `DidSave`, `Schedule` | the handler's write section, then `schedule_validate` |
| `DidClose`, `Clear` | write section, then the empty diagnostics, sent with the lock released |
| `DidChangeConfiguration`, `Configure`, `ScheduleOne` | the log message, the write section that replaces associations and clears the cache, one turn of the loop over the open documents |
| `SchemaRequest`, `Reread`, `Reply` | hover and completion: first read section, second read section, response |
| `DocumentRequest`, `Command`, `ApplyEdit`, `Ignore` | the other requests, `json.sort`, and messages nobody handles |
| `Lookup`, `HttpAgent`, `FetchDone`, `FetchFailed`, `Insert` | `resolve_schema` on the main thread and the same sequence in `validate_and_publish` |
| `Take`, `Snapshot`, `Validate`, `Publish`, `Wake` | the worker's loop and its read sections |
| `Written` | the writer has written the message and is back at `recv` |

The lock is no variable: a section that holds it is one action. The exception is
a handler that sends its response while its read guard is alive; that is the
step `replyLocked`, and `CanWrite` makes the worker's write sections wait for it.

### ValidationQueue and LatestMailbox

`queue`, `phase`, `current` are the channel, the position in `validation_worker`
and its variable `uri`. `Send`, `Recv`, `TryRecvSome`, `TryRecvEmpty` and
`Finish` are the calls of the loop. The refinement maps the waiting request to
the newest one in the channel or, when the channel is empty, to the one the drain
has in hand.

### SchemaStore

`MatchAssociation`, `SchemaUriFor` and `InsertCache` are `match_association`,
`schema_for_document` and `insert_cache`. A glob is the set of documents it
matches.

### Lifecycle

`reader`, `main`, `writer`, `dropper`, `worker` are the positions of the five
threads, `held` is the message the reader is handing over, `work` the worker's
queue as far as it matters here, `stdout` the client's end. Who still holds a
clone of the writer's sender is `Senders`; a receiver is gone when its thread has
ended. Every rendezvous is one action of the sender and the receiver.
`stage` and `fault` are history: how far the client is in the protocol and
whether it has broken it.

### JsonSchemas, SchemaValidation, JsonSchemaSpec

A schema is written as JSON is and parsed by `FromValue`, as the code does; a
record of the parsed schema has the fields of `JsonSchema`. Each function of
`validation.rs` is an operator of the same name that returns the diagnostics it
would append; the chain of visited references is an argument, as in the code.
The state machine around them keeps a schema, a value and the published
diagnostics: `Run` validates, `Edit` changes the value.

`Conforms` in `JsonSchemaSpec` is independent of all this: it says of each
keyword what it asks for, by quantifiers over the value.

### DocumentText

| variable | code |
| --- | --- |
| `text`, `pending` | the client's text, and the changes it has made that are not applied yet |
| `bytes`, `index`, `tree`, `isAscii` | the fields of `Document` |
| `panicked` | `replace_range` was called outside the text or within a character |

`ApplyEdit` and `ReplaceFull` are one turn of the loop in `on_did_change`;
`Type` and `Replace` are the client. The line index is represented by the bytes
it was built from, the tree by the bytes its nodes stand for: `Reparse` keeps
those outside the edited range, as tree-sitter does, so that a wrong `InputEdit`
leaves a tree that is not that of the text. Offsets are counted, not summed up
character by character: `ByteOffset` is the number of the characters before it, with
one more for each of two bytes and three more for each of four, and a line, a column
and the conversion between them are numbers of newlines and wide characters in the
same way. That is what the crate `line_index` computes with its tables, and what makes
the model open to proofs. A change may end on the line after
the last one, as editors write the end of a document.

### SyntaxTrees, Formatting, Sorting, Symbols, DocumentRequests

`Parse` stands for tree-sitter on texts whose tree has the form of the grammar.
What error recovery does is part of the text: nodes of no width (`missing`, `missing }`,
`missing ]`), skipped bytes (`error`, `junk`), and ERROR nodes, whose children stand
between `error(` and `)error`. An ERROR node is there only for bytes: tree-sitter makes
one of what it skips. Any other text only counts as one with an error. The children of a
node are added one by one (`WithChild`), with what may follow, so that the parser is one
function from a stack of unfinished nodes to the next. In `Formatting` and `Sorting` a
handler's edit replaces the text at once, so that `Format` and `Sort` follow each
other in any order and their texts feed one another. `FormatNode` is a function over the
nodes of a tree, each with a function of the depth, so that it can be proved about; sorting
works on the values that serde_json reads and is RECURSIVE over them. `FormattedText` has
the property about formatting that is proved, apart from all RECURSIVE operators.

`Symbols` has the activations of `write_object_children` and
`write_array_children` as a stack (`calls`), and the cursor as a variable that all
of them use. `Visit`, `NextSibling` and `Return` are the body of the loop, its
condition, and the end of a call with the restoration of the cursor.
Between requests `phase` is `idle`; `Start` is the call of `write_document_symbols`,
and `Send` the end of `on_document_symbol`. The other, recursive way the code produces
symbols is in `CollectedSymbols`: `Rounds` is the loop of `collect_object` and
`collect_array`, and `Collected` gives every node its list. That module also holds the
variables and the property, so that both `DocumentRequests`, where TLC checks it, and
`SymbolsProofs` see the same definition.

`DocumentRequests` lets the requests come in any order. The main thread handles one
after the other, so that a text changes only while the writer is idle.

### JsonPaths, Cursors, SyntaxDiagnostics, Links, CompletionContext, CompletionItems, Colors

These are functions of a text, so that they are operators and the properties ask
about them in every state between requests, which is every text that formatting and
sorting lead to. A node is addressed by the indexes of children that lead to it, a
cursor is a place between two tokens or inside a string (`Cursors`). `DescendantAt` is
tree-sitter's search by byte offset, with its preference for the node that begins at
the offset. Paths, the search, and the walk of `collect_links` over the tree go down a
tree level by level (`JsonPath`, `ResolvePointer`, `DescendantAt`, `Paths`); no node is
deeper than the text has tokens. They are functions on the levels, so that they can be
proved about, and so the two properties about them are in a module, `LeadingPaths`, that
reaches no RECURSIVE operator; `DocumentRequests` takes them from there.

`SyntaxErrors` is `collect_errors`; `IsTrailingCommaError`, `IsTrailingCommaMissing`
and `IsOrphanCloseBracket` are the three functions that suppress an error,
`DescribeError` is the chain of rules of `describe_error` as a sequence of which the
first that applies counts. `ContextOf` has one operator for each arm of the match in
`determine_context`: `InObject` searches the text before the cursor as the code does,
across the borders of containers. `OfferedNames` is `complete_property_names`,
`OfferedValues` is `complete_value`, `Snippets` is `default_value_snippet`. `Channel`,
`Times255` and `AsByte` are the three steps of a colour through `f32`, with the
rounding of the standard.

## 4. Runs

Every property of a passing run is also checked against a mutant: a definition
changed the way a plausible bug would change the code, under which TLC finds the
property violated. The mutants are in the modules, above the definitions they
replace.

| run | question | bounds |
| --- | --- | --- |
| `ValidationQueue` | does the channel with its loop implement the mailbox, safety and liveness? | 3 documents, 5 requests |
| `TwoDocuments` | what does the client see after any messages, in any interleaving? | 2 documents, 1 schema, 4 messages |
| `SchemaCache` | does the cache keep its limit, what survives a configuration change, and which content do the diagnostics that stay come from? | 1 document, 3 schemas, room for 2, 4 messages |
| `Settling` | are requests answered, does the server settle with fresh diagnostics? | 2 documents, 1 schema, 3 messages |
| `Configuration` | *violated*: are all open documents revalidated after a configuration change? | as `Settling`, conformant client |
| `Lifecycle` | no panic without a fault, no message stuck or lost, the end of input ends the service; without a worker the process ends | 5 messages, with or without a worker |
| `Lifecycle_exit` | *violated*: does the process end after `exit`? | 3 messages |
| `SchemaValidation` | is the verdict that of JSON Schema, for every keyword, in trials within trials, and does it accept what completion offers? | 3000 schemas of up to three levels, 25 values |
| `AllOfSiblings` | *violated*: does a property known to another branch of an allOf stay without a warning? | one such schema, 2 values |
| `DocumentText` | does the server's text follow the client's, do positions agree? | 3 characters of 1, 2 and 4 bytes and line breaks, 2 changes at a time |
| `DocumentRequests` | what do formatting and sorting keep, do they come to rest, does the one-pass writer write the symbols of the tree; and in every text on the way: which errors are reported, where do paths, references and cursors lead, do colours come back unchanged? | containers of two members, three levels; one or two tokens (white space, comment, error, value, bracket) inserted anywhere, or one missing; some twenty mistakes, alone, within each other and beside each other; references with pointers to keys and indexes; every byte of a colour |
| `SkippedText` | *violated*: can every error be described? | mistakes with thirty skipped bytes, ten characters of three |

**What the properties say.**

- `ImplementsMailbox`: no request older than a waiting one is
  validated, and the newest one is.
- `LastScheduledFresh`: once everything has settled, the document scheduled last
  shows the diagnostics of its present text, with the schema the present configuration
  chooses and with content that was asked for under it. The worker may have read three
  different texts on its way, and chosen a schema or its content before the
  configuration changed; the property says that such a result never stays. There is
  one exception, and it is a real one: content whose download the change overtook goes
  into the cache after it was cleared, the validation that the change schedules
  finds it there, and its diagnostics stay (`Overtaken`).
- `NeverBackwards`: between two clearings, the diagnostics of a document carry
  versions that do not decrease, and so does the text schema validation read.
- `AtMostOneLate`: a result for a document closed meanwhile can arrive after the
  clearing diagnostics, but only one.
- `CacheBounded`, `AtMostOneStaleSchema`: the limit of the cache, and that at most
  one schema of a previous configuration is in it, the one that was being
  downloaded when the cache was cleared.
- `RequestsAnswered`, `EventuallyFresh`: liveness under fair threads.
- `NoPanicWithoutFault`, `MessagesTaken`, `InputEndStopsService`,
  `ProcessEnds`: the life cycle, as the comments state.
- `SendsReceived`: when the worker, a handler or the handshake is about to send, the
  writer is still there, unless the client broke the protocol; the results of these
  sends are ignored, so that nothing else would tell of a lost message.

- `AgreesWithJsonSchema`: a value gets an error exactly when it does not conform,
  but for five deviations of the code: a warning in a trial (`QuietTrials`), references,
  the array form of `items`, an integer written as a decimal
  (`PlainNumbers`), and equal elements under uniqueItems that are not written alike
  (`RepeatsAlike`). Section 6 has them.
- `BranchesDoNotInterfere`: what one branch reports does not depend on the
  references another branch has visited.
- `ResolvedIsKnown`: a property that completion and hover find in a schema is never
  reported as unknown by validation.
- `OffersAccepted`: at every object and array of the value, what completion offers
  there is accepted by validation of the whole document once it is inserted, and hover
  describes the schema that completion offers from. The values are asked about where
  one schema applies to each value (`Direct`).
- `InSync`, `NoPanic`, `PositionsAgree`: text, index and tree are those of the
  client's text whenever all changes are applied; every position is the same for
  both, in both directions and by both conversions.
- `FormatKeepsTokens`: formatting loses white space, comments and all values after
  the first, and nothing else; no spelling, order or repetition of a key changes.
- `Settles`, `SortKeepsMeaning`, `IndentPreserved`: repeating a request changes
  nothing, sorting keeps the value and sorts every object, and a formatted text is
  still formatted after sorting.
- `ErrorsReported`: without a syntax diagnostic the text is correct but for trailing
  commas: whatever is suppressed as an artefact or as a trailing comma, some other
  diagnostic remains if there is an error. And a text that is correct but for trailing
  commas has none; where a comment is next to the comma nothing is asked of
  it, see section 6.
- `LossIsWarned`: sorting drops a pair only if a duplicate was reported, or two
  spellings of one key are in an object; and whenever one was reported, it drops one.
- `PathsLead`: `json_path` and `resolve_pointer` are inverse to each other, past
  comments, errors and other values.
- `DefinitionsFound`: from every cursor on the string of a `$ref`, and from no other,
  go-to-definition goes where the pointer leads.
- `CompletionFits`: at every white space, completion is for the innermost container
  that is open there, for a name where a name is to come, and for the value, not there
  yet, of the right key behind a colon. Behind a value that is there already it may be
  for a name or for the value of the last key; which of them depends on the text.
- `ColorsKept`: exactly the strings that are hex colours are shown as such, and the
  first presentation of each is the same colour, for every byte of a channel.
- `WritesTheSymbols`, `SymbolsAnswered`: what the writer has written is at
  every moment the beginning of what it should write, and it ends.

**Why the bounds are enough.** A violation of the ordering properties needs one
document whose text changes while the worker is between two read sections, a
second request for the same document, and a second document that competes for
the mailbox: two documents and four messages hold all of them (open, change,
close, open, with or without a configuration change in place of one). The cache
needs one more schema than it has room for and two threads that insert; a fourth
message allows a configuration change between a lookup and an insertion of each.
Five messages hold a whole session of the life cycle (initialize, notification,
request, shutdown, exit), and every shorter one that is broken off anywhere.
The validator treats every keyword on its own, so that a mistake needs one keyword
with the sub-schemas it combines, and a trial within a trial at most; the values
hold every type and every number of elements around each limit. A mistake in
positions needs a wide character before the position, one in the edited range and
one behind it, or a line break among them: three characters. The shared cursor
goes wrong, if at all, between two members of a container one of which is a
container; the texts have these at three levels. Whether an error is suppressed depends
on two siblings of its node to each side, and the mistakes stand beside and within each
other. The search of completion is misled, if at all, by separators of a container
inside or before the one of the cursor, or by those in strings and comments; the texts
have all of them. The bytes of a colour are all there.

`Conformant = FALSE` lets the client send didChange, didSave and didClose for
documents that are not open and open a document twice, as the code accepts both.

`TwoDocuments` uses the symmetry of its two documents: settings and texts treat them
alike, and all its properties are about states and steps.

`CHECK_DEADLOCK FALSE` appears in the `Lifecycle` runs only, where the process ends,
or stays in a join for ever (section 6). In the others another message can always
come, or there is an explicit step for the settled state, so that any other state
without a successor is an error.

**Fairness.** Weak fairness of each thread: threads are scheduled by the
operating system, channels and `RwLock` (parking_lot, which does not starve
writers) hand over to waiting threads, a download ends by its time-out of ten
seconds, and a client reads what the server writes (`Written`). Nothing is
assumed about when the client sends. In `DocumentRequests` the handler that has
begun to write goes on. In `Lifecycle` the client may also stop
reading for good by closing its end (`CloseStdout`), which the code sees as an
error.

## 5. Theorems

All proofs are for any finite sets of documents and schemas, any texts,
settings, cache limit of at least one, any number of messages, and with or
without a worker. The assumptions are those the modules name: `NoneIsNoUri`, `FiniteSchemas`,
`FiniteUris`, `CacheCapacity`, `TextsType`, `SettingsType`, `ConformantType`,
`MsgsBound`, `SendsBound`, `ReadsBound`, `WorkersType`, `MaxLenType`,
`MaxPendingType`, `InsertsType`, `OptionsType`: whatever is inserted, for texts of any length and any
number of changes under way. They only say that constants have their types; TLC
evaluates them in the runs.

The theorems about trees are about every text, that is, every sequence of tokens of
any length, with any nesting and with the marks of error recovery in any order.
`TreeOfText` says that a tree that `Parse` makes of one is as tree-sitter promises
(`WellFormed`) and as the grammar does (`Grammatical`); the theorems about symbols, paths
definitions and formatting rest on it. TLC evaluates the same of all texts of the run, before and
after they are formatted or sorted (`TreesWellFormed`). `WritesAllSymbols` needs only
`WellFormed` and holds for any set of such trees. The theorems about paths, definitions and
formatting are about `Edits(texts)`: the open text is one of `texts` and at any moment becomes any
other of them. That allows more than `DocumentRequests` does, where formatting and sorting
determine the next text; no step in that module could violate what holds of every text.
Its own specification reaches the RECURSIVE operators of sorting and completion, about
which the provers say nothing. `PathsOfEveryText` assumes `DOMAIN Numeral = Nat`: every
index is spelled by some string, different ones by different strings, as `to_string` does.
In a run the table is finite, which `PathsOfTexts` allows: it asks for the numerals of
the indexes that occur in the texts (`AllSpelled`).

| theorem | module | statement |
| --- | --- | --- |
| `TypeCorrect` | `ValidationQueueProofs` | `TypeOK` of the queue |
| `QueueIsMailbox` | `ValidationQueueProofs` | the queue implements the mailbox, in all its steps (`MailboxSteps`) |
| `TypeCorrect` | `ServerProofs` | `TypeOK` of the server |
| `LastDocumentFresh` | `ServerProofs` | `LastScheduledFresh`: text, choice of the schema and its content |
| `DiagnosticsNeverBackwards` | `ServerProofs` | `NeverBackwards` |
| `AtMostOneLateResult` | `ServerProofs` | `AtMostOneLate` |
| `CacheStaysBounded` | `ServerProofs` | `CacheBounded` |
| `AtMostOneStale` | `ServerProofs` | `AtMostOneStaleSchema` |
| `TypeCorrect` | `LifecycleProofs` | `TypeOK` of the process |
| `NoPanic` | `LifecycleProofs` | `NoPanicWithoutFault` |
| `NothingLost` | `LifecycleProofs` | `SendsReceived` |
| `Inductive` | `DocumentTextProofs` | the inductive invariant of the synchronisation |
| `StaysInSync` | `DocumentTextProofs` | `InSync` |
| `NeverPanics` | `DocumentTextProofs` | `NoPanic` |
| `PositionsAlwaysAgree` | `DocumentTextProofs` | `PositionsAgree` |
| `TreeOfText` | `TreeProofs` | the trees of all texts are `WellFormed` and `Grammatical` |
| `Inductive` | `SymbolsProofs` | the inductive invariant of the writer |
| `WritesAllSymbols` | `SymbolsProofs` | `WritesTheSymbols`, for any well-formed trees |
| `WritesSymbolsOfTexts` | `SymbolsProofs` | `WritesTheSymbols`, for the trees of all texts |
| `PathsOfTexts` | `PathsProofs` | `PathsLead`, for any texts whose indexes are spelled |
| `PathsOfEveryText` | `PathsProofs` | `PathsLead`, for all texts |
| `DefinitionsOfEveryText` | `PathsProofs` | `DefinitionsFound`, for all texts |
| `FormattingOfEveryText` | `FormattingProofs` | `FormatKeepsTokens`, for all texts and options |

**The invariants.**

- *Types of the server.* `TypeOK` is not inductive: `Mailbox!Done` needs `busy`
  set, `Clear` needs a target, `Insert` needs a wanted schema. `ThreadInv` ties
  every step of a thread to the variables that step reads (a worker that is not
  idle has a document, a handler that answers owes a response, ...).
  `TypeInv == TypeOK /\ ThreadInv` is inductive, and all other proofs use it.
- *LastScheduledFresh* speaks of settled states only. `FreshInv` says for every
  state where the newest result of the document scheduled last is: still in the
  mailbox, in the worker's hands and made from the present text (`JobFresh`), or
  shown with nothing older on the way. Each change of a text or of the
  configuration is followed by a schedule of the same handler, which is why the
  steps in between are exempt. For the content of the schema it rests on `CurrentInv`:
  whatever is in the cache or on its way into it was asked for under the present
  configuration, except for the one schema whose download the last change overtook.
  The worker asks with the lock held (`HttpAgent`), which dates the request.
- *NeverBackwards* is a property of steps. `OrderInv` bounds everything by the
  messages issued (`IssuedBound`), says that nothing shown is newer than the
  document (`ShownNotAhead`) and that the worker's results are not older than what
  is shown (`JobNotBehind`), unless the document was closed.
- *AtMostOneLate* needs that a late result of a closed document uses up the
  worker's only job (`LateInv`).
- *AtMostOneStaleSchema*: `StaleInv` counts the stale schemas in the cache
  together with the downloads that may still add one.
- *NoPanicWithoutFault*: `Faultless` says where the threads are while the client has
  given no reason to panic. `MainFollows` relates the main thread to the stage of the
  client, up to the one message the reader holds: while it greets, that message is
  not exit or a response; once it waits for exit, only exit can come; once it has left
  its loop, the reader has ended well. `WriterOutlivesServer` says that the writer ends
  well only after the server was dropped, so that the unwrapped sends of the handshake
  cannot fail. `fault` never becomes false again (`FaultStays`).
- *SendsReceived* follows from `Faultless` as well: while stdout is open the writer can
  only end when no sender is left, and `WriterOutlivesServer` says that then the main
  thread is past its last send and there is no worker.
- *InSync*, *NoPanic*, *PositionsAgree* speak of states in which every change has been
  applied, or of the outcome of applying one. `IInv` says what holds in between: there
  is a history of texts that begins with the one the server has and ends with the
  client's, and each pending change is how the client described the step from one text
  to the next (`History`). Line index, tree and flag are those of the server's text.
  When the client types, the history grows at its end; when the server applies a
  change, it loses its first text. For that, the offsets the server computes must be
  the ones the client meant, whatever the widths of the characters around them. This is
  `OffsetOfClientPosition` in `DocumentTextProofs`: the bytes of a text have their line breaks
  and wide characters where the characters are (`LineOfOffset`, `WideOnLine`), the
  conversion of a UTF-16 column adds what the wide characters before it take
  (`Utf8Column`), and the bytes of a text with a range replaced are its bytes with that
  range replaced (`SpliceEncoded`). Facts about counting need induction; it is the existence of a least
  number in a set (`LeastNatural`), with sets and functions in the place of operators.
- *WritesTheSymbols* speaks of what has been written, not of how the writer will go on.
  `IInv` has for each call on the stack what had been written when it was made: that,
  with the whole list of the call's node behind it, is a beginning of the symbols of the
  document (`Stack`), and with "]" and "}" behind the list it is what the caller was
  called with and what is collected up to the child the call is for (`Suspended`). The
  innermost call has written what is collected up to its child (`Position`). After a
  return the cursor goes to the first child that ends after the byte kept for it; that
  is the caller's child, because a child with a list has bytes (`ChildHasBytes`) and the
  children before it end where it begins or earlier (`ChildRestored`). What is collected
  is a recursion over a tree: it exists and is a list for every node, because the values
  in a container cover fewer bytes than the container (`RecursionExists`, `CollectedOf`).
- *TreeOfText*: after each token the stack holds unfinished nodes that are nested, each
  begun inside the one below it (`Nested`), whose children so far are finished, in order
  and within the bytes read (`Growing`), and what is expected next fits the kind of the
  node (`NextExpect`: nothing follows the value of a pair, a pair is in an object or an
  ERROR node). A finished node is `Sound` with respect to a set of finished nodes
  that only grows. That all nodes are among the levels that `Nodes` collects needs a bound
  of the depth: `Rank`, the number of tokens of a node with children, is less for a child
  than for its parent, because a container has a bracket and a pair a colon that no child
  has, and the document and ERROR nodes count for one more. The cases of `ShiftLeaf` are taken apart
  once (`ShiftCases`), and each has a lemma (`LeafKeeps`, `NodeBegins`, `ErrorKeeps`,
  `SettleKeeps`).
- *PathsLead*: along the nodes on the way to a value (`IsWalk`), the segments collected so
  far lead to the node there, or, if it is a pair, to its object (`LeadsTo`). A step
  from an object adds nothing and a step from a pair its key, so that the two together are
  one segment of `resolve_pointer`, which finds the pair because no key repeats
  (`KeyLeads`); a step from an array adds the number of the values before the item, which
  is different for all items (`IndexesDiffer`), whatever comments and ERROR nodes stand
  between them (`IndexLeads`). For the grammar the way to a value leads through values
  and pairs only (`KindsOfWalk`).
- *DefinitionsFound*: every step of tree-sitter's search comes to a node around the byte
  (`ChildAround`, `DescendStays`), so that whatever string it ends at holds the cursor; if
  it is in a pair, it is the key or the value (`Grammatical`), and the key of a reference
  does not begin with `#` (`DefinitionHere`). The other way, from a byte of the value of a
  `$ref`, the search goes through the nodes that lead to it and through no others: each of
  them begins before the string, since the key does (`WayToText`), so that the children
  before it end too early, and even an empty node that error recovery has put there is
  passed over (`StepTowardsText`). In the string it stops (`TextFound`). That the links
  come from the same addresses needs the depth of a node to be bounded by the number of
  tokens (`WalkIsShort`, `AddressesArePaths`).
- *FormatKeepsTokens*: a node is to read (without white space and comments) as its members
  do, with brackets around them and commas between them, or as its key and its value
  (`Shaped`). While a text is parsed without an error, every unfinished node reads as its
  members so far do, with a comma behind them or not, as what is expected next tells
  (`Reads`, `TidyStand`), and what is finished stays as it is, so that the tree of such a text is
  `IsTidy`. `FormatNode` is a recursion over a tree: it exists by `RecursionExists`, because
  `Rank` is less for a child than for its parent, and the same measure shows that each value
  is written as it reads if those in it are (`NodeReads`, `FormatReads`), at every depth: the
  line breaks and the indentation between the members are white space (`IsBlank`), which
  drops out (`BlockReads`).
- *QueueIsMailbox* needs two facts about the last element of a sequence,
  `NewestOfAppend` and `NewestOfTail`.

**Only model-checked**: liveness (`ImplementsMailbox` beyond its safety part,
`RequestsAnswered`, `EventuallyFresh`, the life cycle's leads-to properties,
`SymbolsAnswered`), because it rests on fairness and ENABLED, which the
provers do not handle; and validation, completion, syntax diagnostics and
sorting, whose operators are RECURSIVE over values, schemas and trees, which takes them
out of the provers' reach, and with them `Settles`, `SortKeepsMeaning`, `LossIsWarned` and
the other properties of `DocumentRequests`. (Parsing, symbols, paths, the search for a node
and formatting are recursive functions over the tokens, nodes or levels of one text; a least
number or a least node for a measure stands for the induction.) `ColorsKept` stays with TLC as well:
the run has all bytes of a colour, so that nothing is left to prove.

## 6. Where code and documentation disagree

1. `Configuration`. didChangeConfiguration sends the URIs of all open documents
   to the worker, "so that files opened before configuration arrived get schema
   diagnostics immediately" (`server.rs:435`). The drain keeps only the last of
   them; the other documents keep the diagnostics of the previous configuration
   until they are edited or saved.
2. `Lifecycle_exit`. `main` joins the I/O threads after dropping the server, but
   the validation worker holds a clone of the writer's sender and, through
   `Arc<Shared>`, the sender its own loop waits on. After a clean `initialize`,
   `shutdown`, `exit` the process stays in `io_threads.join()`.
3. `AllOfSiblings`. Each branch of an `allOf` warns about the properties only its
   siblings declare. The test at `validation.rs:1312` says that a property defined
   in a sibling should not warn.
4. `SkippedText`. An ERROR node that no rule describes is shown up to its 20th byte,
   "truncated" (`diagnostics.rs:355`). The slice panics when that byte lies within a
   character, and the release profile aborts on a panic.

More follow from the model but have no run of their own. The properties above state
them as exceptions, or leave them out by a named precondition:

- The README (`README.md:3`) speaks of full support for JSON Schema. uniqueItems compares
  the source text of the elements (`validation.rs:643`), so that `"a"` and `"\u0061"`,
  `[1]` and `[ 1 ]`, or two orders of the same pairs count as different elements, and an
  array that holds both is accepted (`RepeatsAlike`).
- The README (`README.md:91`) lists `$ref` resolution. The validator looks at a
  reference only to break cycles (`validation.rs:69`), nothing calls
  `SchemaStore::resolve_ref`, and a schema that is a reference accepts everything
  (`~Uses(source, "ref")`).
- The README (`README.md:196`) says that didOpen and didSave bypass the debouncing.
  They use the same channel: a document opened just before another one gets no
  diagnostics. `LastScheduledFresh` speaks of the document scheduled last.
- `anyOf`, `oneOf`, `not`, `if` and `contains` validate on trial and count warnings as
  failures (`validation.rs:747`): an unknown or deprecated property makes a valid
  value an error, though `validation.rs:587` speaks of a warning (`QuietTrials`).
- The README (`README.md:82`) lists drafts 4 to 2020-12; the array form of `items` is
  parsed away and `additionalItems` read by nothing (`~Uses(source, "array")`).
- The README (`README.md:193`) says that formatting copies leaf text verbatim.
  Comments, which the server tolerates, are deleted, and so is every value of a
  document but the first (`FormatKeepsTokens`).
- The README (`README.md:198`) says that trailing commas and comments are silently
  accepted. A trailing comma with a comment between it and the bracket, or between the
  value and it, is reported (`diagnostics.rs:92`); of such a text `ErrorsReported` does
  not ask whether it has a diagnostic.
- A key that stands twice in an object in two spellings is not reported, and sorting
  drops one of the pairs (`SameKeySpelledTwice`).
- Hover joins the keys of a path without the escapes of a JSON pointer, while
  `resolve_pointer` decodes them; and the pointer `/`, which stands for the key `""`,
  leads to the whole document (`PathsLead`).
- A colon in a comment is taken for that of a pair (`completion.rs:100`), so that a value
  is offered where a name is to come, and a comma or a brace in a comment ends the pair
  (`CompletionFits` leaves such comments out). Inside
  the content of a string there is no completion at all, although the comment at
  `completion.rs:88` speaks of walking up from a string.
- "Offer structural completions only when no value exists yet" (`completion.rs:45`): at
  white space behind a value before the next comma they are offered as well
  (`InObject` always has `hasValue` FALSE).
- A `const` beside the type boolean does not stop completion from offering both words
  (`completion.rs:361`; `ConstOfWords`). Names are offered from all of `allOf`, `anyOf` and
  `oneOf`, values only from the direct properties (`ValuesFor`).

## 7. Abstractions and limits

- A text is the number of the message that created it, whether it has syntax
  errors and which schema it names; the client's version number is that same
  number. The server does not compare version numbers, so nothing else could be
  told apart.
- The content of a schema is the number of the configuration it was asked for
  under. A schema server whose content changes by itself is not modelled.
- In the order of a `HashMap`, `ScheduleOne` picks any document.
- A request with an unknown method or with parameters that do not deserialise
  gets no response (`Ignore`); `RequestsAnswered` speaks of the supported ones.
- The regex cache has no property: an entry never changes once it is there.
- Messages of the client are bounded by `MaxMsgs`, `MaxSends`, `MaxReads` in TLC;
  in the proofs these are any natural numbers.
- Validation: numbers are halves with a form, integer or decimal; the other values are
  written plainly or in another way (`Respelt`), and only uniqueItems tells these, and two
  orders of the same pairs, apart; a pattern is the set of the strings it matches, a
  format that of the strings that have it, so that `validate_format` is left out; a key occurs once in an object, because
  schema validation runs only on texts without syntax diagnostics, which include
  repeated keys. (A key in two spellings is the exception, see section 6.)
- Text: characters of one, two and four bytes stand for all; `\r` is an ordinary
  character for the line index and is left out. The client sends positions of its
  own text. The line index is the crate `line_index`, modelled from its use here.
- Trees: the trees of tree-sitter's error recovery are not derived; where it leaves its
  marks is part of a text. The runs sample them: the
  mistakes are those that the tests and comments of `diagnostics.rs` describe. The proofs
  are about marks anywhere. A token
  has one byte, but for `junk` in `SkippedText`. The precision with which serde_json
  reads a number, and the texts of names and details of symbols, are left out.
- Strings: what a string stands for is a table (`StringValue`), and so are the pointer
  in it (`Fragment`), its digits (`HexDigits`) and whether the last of its
  colons, commas and opening braces is a colon or not (`WithColon`, `WithSeparator`);
  unescaping is part of these tables.
- Completion: the items are names and JSON values. Icons, details, documentation, the
  order of the items, and snippets that a schema spells out are left out.
- Not modelled: folding and selection ranges, which list the ranges of nodes or of
  ancestors of a node and decide nothing; the rgb and hsl presentations of a colour and
  the Markdown of hover, which are formatting only; `validate_format`; the socket
  transport, the request queue and the error types of `lsp-server`, which the server
  does not use or which have no state.
- The framing of messages, JSON parsing, tree-sitter, crossbeam, parking_lot and
  the file system are not modelled; channels and the lock appear with the
  guarantees their documentation gives.

## 8. Plan

Done: the concurrent core (queue, server, schema store, life cycle) and its theorems;
schema validation against a reference definition; document text and its theorems;
parsing, symbols, paths, definitions and formatting with theirs; sorting, syntax
diagnostics, completion and colours.

What could follow:

1. `validate_format`, as far as its checks have control of their own (dates, addresses).
2. Trees of error recovery for more mistakes, taken from tree-sitter on real texts.
3. `LossIsWarned` and `Settles` for every text, with the reader and the writer of
   `Sorting` as functions over the nodes of a tree, as `FormatNode` is.
4. `CompletionFits` for every text, with the stack of `Parse` as the invariant of the
   search backwards through the tokens.

# A verification project for regedited

`regedited` keeps a small database inside an ordinary text file. A *record* is seven
lines: a marker (any line with `regedited open` in it), `index: N`, one line of six
hex-words, nine numbers, three strings. The hex-words are three pairs of absolute,
0-based, inclusive line numbers: they name the *zones*, ranges of payload anywhere in
the same file. Every command reads the whole file, rewrites the text in memory and
writes it back.

So the program's central difficulty is one of coordinates. A record names its payload by
line number in the text that the command is reshaping, and the record itself is made of
lines that move. The second difficulty is that nothing is locked and nothing is atomic:
an undo copy, a write-ahead log and checkpoints stand beside the document as plain files.

The modules here are written from the Rust source. TLC checks them on small documents and
small sets of processes; TLAPS proves the theorems named below for every document.

## Inventory

| Component (source) | State it keeps | Operations | What is hard |
|---|---|---|---|
| Index and line primitives (`header.rs`, `ascii_store.rs`, `zone_type.rs`, `lib.rs`) | none; functions of a text | scan for records, resolve an index, read and write a hex-word line, replace lines | `lines()` and `join("\n")` do not return the text they got; 0:0 is both line 0 and the empty zone |
| Zone editor (`zone_editor.rs`) | none; text to text | replace, append, copy, swap; `apply_line_deltas` | positions taken before a splice and used after it; which words a delta moves |
| Document commands (`main.rs`, `store.rs`, `db_line.rs`) | the document file | hex-replace, set-zone, set-num, set-str, add, rm | the same, and records that are rewritten as text |
| Store (`store.rs`) | content, header, section cache, dirty flag; the file and its `.undo` | open, save, reload, undo, drop | a cache and a header that age; two writes without atomicity; two processes |
| Write-ahead log (`wal.rs`) | `<doc>.wal`; in memory the entries and the next number | append, commit, cleanup, begin_session, two different readers | writes that stop half way and are glued to the next line |
| Transactions (`transaction.rs`, `main.rs`) | per process: state, staged operations, a log handle | begin, stage, commit, rollback; `tx`, `wal-replay` | several processes on one log without a lock |
| Native references (`main.rs`) | the document and its `.undo` | ref-get, ref-set, ref-copy with and without --move, index-zone commands, zone transfer, state, state-compare | two writes per move; targets that move between them; values that change kind on the way |
| Checkpoints (`zone_checkpoint.rs`, `main.rs`) | checkpoint file, diff file | commit, check, pull | guard by checksum, relocation by content, three files per pull, an editor that saves in between |
| Server (`serve.rs`) | the document as loaded at start; a queue of requests | GET endpoints, /query | one request at a time; `/wal` reads the disk, everything else the memory; a second copy of the reference parser |
| Decimals, hex-words, references, registry values (`db_line.rs`, `zone_type.rs`, `converter.rs`, `typed_value.rs`, `qol.rs`) | none | comparison, JSON, spellings and their readers | numeric edges, prefixes of prefixes |
| Schema (`schema.rs`) | a `.schema` file | parse, save, validate, --init | a grammar with a toggle |
| Search, diff, replace (`bool_ops.rs`, `fast_ops.rs`) | none | boolean commands, grep, record diff, record replacement | line by line against whole text; six rewrites per record |
| Loaded path and command line (`qol.rs`, `main.rs`) | the loaded path | `load`, the file of a short command | words tried twice |
| Clipboard, echo, encodings, browser bindings | none | formatting and platform calls | not modelled: pure I/O |

How they meet: every command that changes the document goes through the index primitives
and ends either in `write_file_with_undo` (`main.rs`) or in `Store::save`; the zone editor,
the Store writers and the reference commands are three bodies of code that shift line
numbers, and all three end in `apply_line_deltas` or fail to call it. Transactions touch
the document only through the operations that `commit` returns to its caller.

What makes each one correct:

* zone editor and document commands: a zone that shares no line with an edit reads the
  same text after it; the edited zone reads the edit; no record loses a value; a file that
  loads still loads;
* log and transactions: what a replay reads is the accepted batch, whatever crashed; the
  document changes after the commit line and by the whole batch; one transaction at a time;
* Store: what is written is what a fresh process would have written; after a crash the
  document or its `.undo` is whole; undo returns what the last command found;
* references: a move is one simultaneous edit, and its text is never lost; what is written
  reads back; a comparison of states names the target alone;
* checkpoints: text that stands once is found; a pull moves only the coordinates of zones
  that lost their text; document, checkpoint and diff agree after it;
* server: it answers as the command would on the document it read, each endpoint like the
  others; every request is answered; only a malformed document stops it;
* conversions: what is written reads back, and a comparison means what it says.

`PROJECT.json` lists the components with their sources and all hazards with their lines.

## Plan

Most important first. All of it is written.

1. **Document, ZoneEditor**: line coordinates under every command that rewrites the text.
2. **WalFile, Transactions**: the log, and several processes on it.
3. **UndoableFile, SavedFile**: the document and its `.undo` copy on disk, an abstract
   specification of what one-step undo promises, and the theorem that the two files
   implement it. **StoreSession**: a Store that stays open, against the same commands run
   one process at a time (`ZoneEditor`, by INSTANCE).
4. **Reading, References**: what every reader of a document sees, and the commands that
   carry a value from one reference to another, over `ZoneEditor`.
5. **ZoneCheckpoint**: commit, edit, check, pull, with the three files of a pull.
6. **Matching, Serve**: searches and comparisons, and the server that offers them.
7. **Decimals, Spellings, Schemas, Comparing, LoadedPath, WalSpelling**, put together in **Operators**:
   conversions and comparisons, each against what it means.
8. **Theorems**: first what every other proof rests on (types, the lemmas about a splice),
   then for each component its safety invariants and action properties, see *Proofs*.
   What stays with TLC, and why, is at the end of that section.

| Module | Extends | Checked by | Proofs |
|---|---|---|---|
| `Document` | | every run on documents | `DocumentProofs` |
| `Reading` | `Document` | the same | |
| `ZoneEditor` | `Reading` | `MCZoneEditor` | `ZoneEditorProofs` |
| `References` | `ZoneEditor` | `MCReferences` | `ReferencesProofs` |
| `StoreSession` | `Document`, INSTANCE `ZoneEditor` | `MCStoreSession` | `StoreSessionProofs` |
| `ZoneCheckpoint` | `Reading` | `MCZoneCheckpoint` | `ZoneCheckpointProofs` |
| `WalSpelling` | `WalFile` | `MCOperators`, through `Operators` | |
| `WalFile`, `Transactions` | | `MCTransactions` | `TransactionsProofs` |
| `SavedFile` | INSTANCE `UndoableFile` | `MCSavedFile` | `SavedFileProofs` |
| `Matching` | `Reading` | `MCServe`, `MCOperators` | |
| `Serve` | `Matching` | `MCServe` | `AnswersProofs` |
| `Comparing` | `Matching` | `MCOperators` | |
| `Decimals`, `Spellings`, `Schemas`, `LoadedPath` | | `MCOperators`, through `Operators` | |
| `Operators` | `Comparing`, INSTANCE of the four above and of `WalSpelling` | `MCOperators` | `AnswersProofs` |

## Modules

### Document

The constants are the registry indexes (`Rec`), the things a line of payload can say
(`Text`) and the things a numeric line can say (`Value`). A text is the sequence of its
pieces between newlines, so `"a\nb\n"` is `<<a, b, Blank>>`; `Lines` and `Join` are
`str::lines()` and `join("\n")`, and their round trip loses one final empty piece, as the
code's does. A line is tagged with what the code would recognise it as: marker, index line,
hex-words, numbers, text, blank. Three kinds of data are dropped: the zone type nibble, the
columns of the numeric line, and the spelling of a hex-word.

`Loadable` is the success of `scan_content`; `HeadersOf`, `AsciiLine` and `Readable` are
`SectionInfo` and the two readers of a record. `Splice`, `ApplyDelta` and `SpliceAndShift`
are the splice of `replace_zone_content`, `apply_line_deltas` with its one delta, and the
two in sequence, including the rescan and the case in which nothing is rewritten.

### ZoneEditor

One variable, `doc`, is the file; `last` reports what the last command did (which lines it
replaced by what, which zones it redefined) and is read by the properties alone;
`commands` bounds the session. One action is one invocation:

| Action | Code |
|---|---|
| `ZoneReplace`, `ZoneAppend`, `ZoneCopy`, `ZoneSwap` | `cmd_zone_replace` and the functions of `zone_editor.rs` |
| `HexReplace` | `cmd_hex_replace`, `replace_line_range_and_shift` |
| `SetZone`, `SetNumber`, `SetString` | `Store::update_zone`, `update_number`, `update_string` over `get_section_data` and `update_section_data` |
| `AddIndex`, `RemoveIndex` | `Store::add_index`, `remove_section` |

A command that returns an error writes nothing, so its guard is the conjunction of its
checks (`CanReplace`, `CanExtract`, `CanHexReplace`, `CanWriteRecord`). A panic (the byte
slice of an inverted zone) is a disabled action as well. Processes that overlap belong to
`SavedFile`.

### WalFile and Transactions

`WalFile` is `<doc>.wal` as lines, each with a flag for its newline, because `writeln!` may
stop anywhere and what is written next is glued on (`Glued`, `Torn`, `Partly`). The two
readers differ in the code and so here, each as the set of lines it takes in: `ReadEntries`
flips at every separator, `Scanned` opens at a separator and closes at a commit line.

`Transactions` has a handle per client. Its actions are `Begin`, `Stage`, `Commit`,
`CommitNothing`, `Rollback`; the same operations cut short with an error that the caller
survives (`StageFails`, `CommitFails`) or with the death of the process (`StageCrashes`,
`CommitCrashes`); `Crash`; `Apply`, the caller using what commit returned (external); and
the commands `TxBegin`, `TxCommit`, `TxCommitCrashes`, `TxRollback`, `WalReplay`, each a
process of its own that leaves nothing in memory. A client in `Managed` has a
`TransactionManager`, which refuses a second begin and forgets a committed handle. `seen` is
history: what a transaction attempted, what `stage` accepted, whether anyone else has
written the log since (`solo`), whether it found none (`fresh`), and the numbers that were
next when a commit of its own failed after writing some of its line (`shut`).

Not in the model: a `tx begin` interrupted within its header (it leaves a log without
entries, which every operation treats like the header alone), a tear inside a UTF-8
sequence (the whole log becomes unreadable), power failure (data written but not flushed).

### UndoableFile and SavedFile

`UndoableFile` is the promise: a content that can be had (`cur`) and a content put aside
(`prev`). It changes only while `cur` is what is put aside (`Edit`); it is put aside, or
the attempt destroys what was there (`Protect`); it goes back (`Restore`).

`SavedFile` is the code. `file` and `undo` are the two files, `Torn` is content cut short.
Every copy and every write is two steps, because the target is truncated first: `Backup`
and `BackedUp`, `Write` and `Written`, `Restore` and `Restored`. A process may die
(`Crash`) or have a call refused (`Fails`) anywhere; in the second case a process that
writes through a `Store` with `auto_save` begins again at `Backup`, which is what `Drop`
does. The direct commands (`write_file_with_undo`) take the same steps and do not come
back. Several processes share the files without a lock.

`lapses` is history: `overlap` (a command began within another), `damaged` (a command began
on damaged content) and `drop` (a Store saves over what it has damaged). `Undoable` is the
refinement mapping: `cur` is the file if it is whole and else the undo copy, `prev` is the
undo copy if that is whole.

Not in the model: the `.md.bak` fallback of `undo`, a document that does not exist yet, the
death of the machine.

### StoreSession

A `Store` that stays open, over `Document`: `file`, `content`, `header` (where the last scan
saw each record), `cache` (the records parsed or written since), `dirty`, `autoSave`. The
writers fetch a record through the cache, rewrite six lines at the position in the header,
put the record into the cache and do not scan, whether one field changes (`SetZone`, `SetNumber`,
`SetString`), a line (`UpdateAsciiStore`, `UpdateDbLine`) or several (`BatchUpdate`). `AddIndex` and `RemoveIndex` scan, and differ
in what they do to the cache. `RemoveIndex` takes the key it is given out of the cache, which
is the key of the record only if the caller spelled it canonically (`canonical`). `Reload`
and `Reopen` (Drop, then open) start over; `Create` writes over what stands at the path and
always saves as it goes. Saving is one step here.

`strayed` is history: the session is where no sequence of fresh processes would be. It is set
by a string of more than one line or an empty third string (the cache holds what no parser
would return), by a removal that moves the zones of a cached record (`OutdatedBy`), by an
operation on a text that cannot be loaded, by a scan that fails half way through an
operation, and by writing to a record whose lines are also those of another (`Entangled`:
two markers within six lines of each other, so that a line of the one is a field of the other;
a removal strays if any two are).

### Reading

What a reader of a document gets, shared by the modules below: the contents of a zone
(`Extracted`), the records a Store parses (`CanWriteRecord`, which refuses an empty third
string), the scan that index commands start with (`Scans`), references (`CanRead`,
`ReadRef`) and the state of a document. A value is a string of the program, as the sequence
of its pieces between newlines.

### References

The document of `ZoneEditor` with its `.undo` copy and one command in progress (`job`).
`RefCopy` is ref-set and ref-copy; a move is `MoveClears`, which reads the source, checks
the target, empties the source and moves a literal target up, and then `MoveSets`, which
finds the target again in the file as it is now, or `MoveFails`, or `MoveDies`. Each write
makes its own `.undo` copy (`Write`), and `Undo` may follow. `IndexZoneEdit`,
`IndexZoneTransfer` and `ZoneSet` are the index-zone commands. `State` and `Changes` are
state and state-compare.

A text is a sequence of atoms here, so that `--append` can put two end to end (`Fused`; only
lines of prose are appended to each other) and coordinates and numbers can be spelled in
one. `SourceRef` and `TargetRef` are the references that can be written down, slot by slot.
`--append` is heeded for strings, zones and literal ranges, as in the code. Left out:
a move out of coordinates in the wrong order to a literal range.

### ZoneCheckpoint

The document, its `.undo` copy, the checkpoint and the diff as four variables, and `job`,
the pull or commit in progress: it applies the diff to what it read (`Apply`), writes
(`WritePulled`), saves the checkpoint (`SaveCheckpoint`, which reads the file again) and
clears the diff or checks again (`ClearDiff`, `Recheck`). `Located` tries the three searches
of `locate_zone` in their order. An editor that knows nothing of all this saves lines, pairs
or the undo copy at any point (`Edit`, `RetypePair`, `UserUndo`), and a command may die
between any two steps (`Crash`). A checksum is the text it is taken of. A diff that survives
a crash and an undo can be applied a second time; that does what the first did
(`AlreadyCommitted`). A pull rewrites the file, which takes an empty line off its end
(`EndsEmpty`). The checkpoint and the diff are each written in one step, although
`fs::write` (zone_checkpoint.rs:615) can leave either of them short; a short one does not
parse, and every command that reads it stops with an error.

### Matching and Serve

`Matching` is search: line by line (`bool_ops.rs`, grep), in the whole text (if-contains,
/query), and the comparisons of ref-bool. Patterns are within one line, and case is left
out.

`Serve` is the server: `disk` is what the file and the log are by now, `loaded` what the
server read, `queue` the requests in order of arrival. `Answer` has one case per endpoint;
the answers come from the server's own copies of the reference parser and reader (`Parsed`,
`Served`), which are not those of the commands (`Command`, `ReadRef`). The parsers differ over
words: `HexWord` gives the texts that are hex-words and the line each names, `Short` the compact
references, which the server expands in a scope alone, and `Numbered` the texts that are the
number of a record, a scope to the command only. A reference `hex:A:B` is a kind of its own
(`colon`), which only the command reads. References that neither parser takes are not among the
requests. The commands are those of `regedited`; `rgd` expands compact references in every
argument first. `Handle` takes the head of the queue: it
waits for a body that is still on its way (/query), answers, or panics (`HandlerPanics`).
A client sends, sends the rest, hangs up and collects; a command rewrites the file. The
server is documented to serve the document it loaded at startup, so an answer is judged by
that document.

### Operators, and what it puts together

`Operators` makes one call and keeps what it was given and what it answered. `Decimals` is
`DecimalValue` on sequences of digits, with its comparison and its JSON. `Spellings` has both
spellings of a hex-word, hex-word lines, the words of convert, compact references and the
stored form of registry values. `Schemas` reads, saves and validates schemas as lines.
`Comparing` is the diff of records and the replacement of whole records, six rewrites each.
`LoadedPath` is which file a short command works on: the words as they are, then with the
loaded path put in. What a word of the command line may be parsed as is left out but for its
looking like a path, and so is which options a command has. An option may have a value, which
`positional_token` counts as a word of its own and the parser of the command line does not.
`WalSpelling` is the text of the write-ahead log, from the fields of an
operation to a line and back: the file is cut into lines and each becomes the line of
`WalFile` that its readers take it for. A checksum is what it is a checksum of, so a piece of
a torn entry never passes for one. Left out: space around a line, sections with a pipe in
their name, and values that spell a checksum.

## Runs

| Run | Shows |
|---|---|
| `zone_editor` | two commands on each of six layouts: `PeersKeepTheirLines`, `EditedZoneReadsTheEdit`, `RecordsKeepTheirValues`, `SwapExchanges`, `TypeOK`; 19,693 states |
| `transactions` | two clients, one managed, two transactions, three operations of the one and one of the other, one cut append or commit: `ReplayReadsTheBatch`, `StagingLocksOthersOut`, `WriteAhead`, `TypeOK`; 1,312,709 states |
| `saved_file` | a direct command and a Store, three commands, two faults: `ChangesAreUndoable`, `TypeOK`; 10,123 states |
| `store_session` | three operations of a Store on each of four layouts, saving as it goes or not: `CopiesAgree`, `SessionsAreCommands`, `TypeOK`; 118,053 states |
| `references` | one command on each of seven layouts, a failure or death within a move, an undo after it: `ClearedTextIsInUndo`, `MovesAreOneEdit`, `WrittenRefsReadBack`, `StateCompareNamesTheTarget`, `RefsTypeOK`; 24,986 states |
| `checkpoints` | three commands, two edits and a crash in any order, on each of four layouts: `UniqueTextIsFound`, `PullsMoveLostZonesOnly`, `CheckpointKeepsTexts`, `FinishedPullsAgree`, `TypeOK`; 62,503 states |
| `server` | two clients, three documents, one request of each kind of answer: `ServerAnswersAsTheCommand`, `EndpointsAgree`, `OnlyAnInvertedZoneStopsIt`, `EveryRequestIsAnswered` (liveness), `ServeTypeOK`; 98,790 states |
| `operators` | one call of each conversion and comparison on every small input, eleven properties; 82,004 states |
| `siblings` | violated: an edit that changes its size leaves the later zones of its own record behind |
| `transactions_second` | violated: a transaction over a committed log is not in what a replay reads |
| `checkpoint_places` | violated: text that stands in two places gets a proposal that spans both |
| `server_zero` | violated: /ref-bool takes the word 0 for the hex-word of line 0 |

The violated ones are disagreements between the code and its documents; `PROJECT.json` quotes
both sides under `findings`.

**What the passing properties except.** `PeersKeepTheirLines` and its companions speak of
every command, and name the cases in which the code does not keep them rather than leaving
them out of the model:

* `StraightEdit`: a zone command that changes its size must find its record above the
  zone, no edit that changes the number of lines takes the hex-words away from under a marker,
  a literal range is not deleted outright, a string is one line, no record line is copied
  into payload (it would be a second record), the file can be scanned (hex-replace does not
  ask), and the zone does not end before it starts (set-zone permits it);
* `Apart`: a zone is compared if it lies within the file, in lines of payload, and it and its
  record share no line with the edit;
* `LaterSibling`: the later zones of the edited record (`siblings`);
* `LandsOnLineZero`: a one-line zone that moves to line 0 becomes 0 : 0, the empty zone;
* `Entangled`: a record in whose six lines another one begins; the hex-words of the one are a
  value of the other, and shifting them changes it;
* `Propped`: `RecordsKeepTheirValues` asks that a line with something on it stand at the end
  of each record or below it, outside the lines replaced: each rewrite takes one empty line
  off the end of the file, and once a record whose last strings are empty ends the file, the
  second such rewrite makes the file unloadable;
* `Kept`: `SwapExchanges` asks the same of the two zones, each against the edit of the other:
  a zone of empty lines at the end of the file is past its end after the first replacement.
  It also asks that the zones belong to different records and that both records stand above
  both zones.

`ReplayReadsTheBatch`, `StagingLocksOthersOut` and `WriteAhead` speak of a transaction that
found no log and that nobody came between (`Undisturbed`). Both conditions are the code's:
`Begin` looks at the log and writes nothing, so two handles may begin before either stages,
and the first append of the second truncates the log; `tx rollback`, `wal-replay` and an
empty commit remove any log; a committed log left over makes the next transaction invisible
(`transactions_second`). Crashes at any point, and `tx commit` by another process after one,
are *not* excepted: what was accepted before the crash is read back. Two failures that the
caller survives do lose an *accepted* operation, and the properties name which:

* `NextToAFailure`: a failed append may leave its line without an end, and the handle lives on.
  The operation appended next is glued to that line and is never read back, although `stage`
  accepted it (wal.rs:538, 547-548). The one before it and those after it are read.
* `AfterAHalfCommit`: a commit that stopped half way may have written its separator. What the
  handle stages after that is below a second one, where `ReadEntries` takes nothing in.

`StagingLocksOthersOut` asks that no commit of the transaction has failed half way
(`shut = {}`): the line may be in the log, which opens it to others.

`ChangesAreUndoable` speaks of commands that do not overlap and begin on a whole document
(`lapses`): a write over a damaged file has nothing whole to put aside, and without a lock
two writers can undo each other's copy. Crashes and failed calls are not excepted, except the
second save of a Store whose write failed. `CopiesAgree` and
`SessionsAreCommands` speak of sessions that have not strayed, as listed above.

`MovesAreOneEdit` speaks of `StraightMove`s: lines to lines, the two ends apart, no record
line among them, each zone below its record, not to a later zone of the source's own
record (the sibling case again), and not to a zone with nothing but empty lines above it to the
end of the file (`Kept`: the first write takes them away, and the value then goes above the
line the zone names); it compares payload, that is, all lines but the coordinates.
`WrittenRefsReadBack` and `StateCompareNamesTheTarget` speak of a single write that is a
`StraightEdit`, replaces no record line, leaves a line with something on it at or below the
end of each record (`Propped`, `StillPropped`) and, when it writes a field, goes into a record
no other one begins in (`Entangled`). The first also asks for a value of whole lines without a marker, of one line
where the field is one line, a literal range of unchanged size (`read_ref_value` reads the old
numbers) and a zone within the file. The second names in `MayChange` what a write may change
besides its target: the zones whose words were redefined or that share a line with the edit,
the words themselves if the edit changes the number of lines, empty hex-words that are spelled out,
a later sibling, and a zone of empty lines that ends past the file afterwards (`Kept`).
`ClearedTextIsInUndo` has no exception. The action properties of `ZoneCheckpoint` except
documents that an editor saved while a command was between its steps (`overlap`: the file is
read three times during a pull), and what they say of texts is said of zones located by
their content. `PullsMoveLostZonesOnly` and `CheckpointKeepsTexts` name two more cases. In a
file that ends in an empty line (`EndsEmpty`) a pull takes that line away, so a zone that
ended in it is shorter and a last record with an empty third string is not read any more. And
a pull whose checkpoint is already that of the document (`AlreadyCommitted`: it died behind
its checkpoint and was undone) moves the same zones again, although they are where the
checkpoint says.
`UniqueTextIsFound` excepts nothing but a record that has gone or been retyped.
`ServerAnswersAsTheCommand` has two directions for `/ref`, `/ref-bool` and both forms of
`/query`: where the command answers the server answers, and the same; where the command fails
the server fails. It excepts, by name, the disagreements that are known: the word 0
(`server_zero`); `hex:A:B` with one colon, which only the command reads; the number of a record
alone as a scope, likewise (`Numbered`); references outside ASCII in a GET, which
`percent_decode` takes apart (`Ascii`); fields of records with an empty third string, which only
the commands refuse (`OnlyScanned`); and the value of a search with an empty pattern. The
properties of `Operators` name theirs in their comments. Of two of these the conditions leave out
the very case that goes wrong: `ReplaceMakesThemAlike` says nothing of a document with a record
that ends in an empty string and has only empty lines behind it, where the rewrites of a
replacement lose lines (unless every record of both sides ends in text or the target has a line
with something on it below its last record: `EndsInText`, `Firm`); and `SchemasReadBack` starts
from the schema as parsed, so it does not see that the parser loses the second section of the
documented example. `CommandsFindTheirFile` excepts a named file that does not look like one, a
file behind an option's plain value (`Obscured`), and a word that looks like a file where the
number of words varies (`Mistakable`).

**Bounds.** In `zone_editor`, `MaxCommands` is 2: one command to put the text into a shape no layout has, one
to go wrong on it; the coordinates a command uses depend on nothing older. The layouts have
two records of up to two zones with the records above, below and between their payload and
one at line 0, because what can go wrong depends on the order of record, edited lines and
other zones; in the fifth layout a record begins among the lines of another,
in the sixth a zone is the empty lines at the end of the file. Inputs of no line, one line and three lines shrink, keep and grow every zone.
`Ranges` has line 0, exact zones and an inverted pair. `MaxBegins` 2 gives a
second transaction over whatever the first has left; `MaxOps` gives `alice` three operations, so
that one is accepted before a failed append and one behind it, or behind half a commit, and `bob`
one, enough to write the log under her (two each in `transactions_second`); `MaxCuts` 1 is one
torn write followed by anything. In `saved_file` three commands and two
faults are a damaged write, a damaged answer to it and a command after both. In
`store_session` three operations are one that fills the cache, one that moves lines and one
that shows it; one layout ends in a record that the next rewrite cuts short, one has a record
within a record. In
`references` `MaxCommands` is 1, with an undo that is not counted: a move is two writes by
itself, and the pairs of 35 sources and 27 targets cover each order of source, target, record and
other zones. Three of the seven layouts are records above, between and amid payload; the
others end in a record with an empty string, a record with empty hex-words and a zone of empty
lines, and in the last a record begins in the strings of another. In
`checkpoints` a commit, a check and a pull with an edit in between and another later is the
shortest session in which a pull meets a document that has moved on; fingerprints of two
lines instead of four leave a middle that they do not see in a zone of five lines; two of the
layouts end in an empty line, one with a zone and one with a record that reaches it. In
`server` the second client is what waits behind the first, and what asks the other endpoint;
of the three documents one is sound, one has an inverted zone, one does not load; two words are
hex-words, 0 and another, one is a compact reference and one the number of the record. In
`operators` decimals have up to three digits or points with every sign, token lists and
endings of references up to four and three words; the texts and documents are few and each
has one peculiarity. Sessions end at their bound, so deadlock is not checked.

**Fairness.** Only `Serve` assumes any, and each part is weak: `Start` and `Handle`, because
`serve` is a loop without a condition that calls `recv` and answers; and, for every client,
that a body which has begun arrives in full or its connection ends, which is what TCP and
tiny_http's reader give to a server that waits. Without the last one a single client could
hold up all others for ever, and the code has no timeout of its own; nothing is assumed of
clients beyond it: they need not collect, nor send anything again. `EveryRequestIsAnswered`
then holds but for a panic and a document refused at startup. Elsewhere a command runs when
a user runs it, and the only loops that must end are inside a command.

**Mutants.** Every property of a passing run has a mutated definition, kept next to the
original in the module, under which TLC finds the property violated: an off-by-one in the
first shifted line, an edited zone shifted twice, strings in the wrong order, a swap that
reads late, an append that truncates, a begin that ignores a live log, a commit without its
line, an undo copy made only once or after the write, a write that misses the cache, a
literal target moved up by too little, a search for surroundings before content, a pull
without its guard, a checkpoint that keeps nothing, a diff left pending, a server that stops
at a closed connection, a scope that is not expanded, a slot counted from 1, a marker taken by its first letter, leading
zeros that count, five lines of six.

## Proofs

Proved for all values of the constants are every action property, and every invariant but
six of `Operators` (see the end of this section). The proofs assume what the modules assume of
their constants: registry indexes are numbers, inputs are lines of prose, the bounds are numbers, the layouts a session starts from are texts (that
they load is assumed only by the editor and the Store, which begin on a loaded file);
requests and references name zones and records only as `parse_ref_spec` lets them through
(`RequestAssumption`; `ReferenceAssumption`: `SourceRef` and `TargetRef`); a word that is a
hex-word and the number of a record at once is "0", and short references name records
(`WordAssumption`); a record has a
marker line and prose in its strings (`CheckpointAssumption`); the literals, token lists,
endings and texts of `Operators` are what their comments say (`OperatorsAssumption`, on which
no proof about the server rests). TLC evaluates each of them in a run. Four theorems have
a hypothesis of their own, `TextsJoin`, named below.

**What the proofs changed.** Trying to prove a property found states outside the
layouts TLC had been given, and each became a layout and a named condition, or made the
property stronger. `RecordsKeepTheirValues` and `CopiesAgree` are false when a record begins
in the lines of another (`Entangled`). `PullsMoveLostZonesOnly` and `CheckpointKeepsTexts` are
false in a file that ends in an empty line (`EndsEmpty`), and the first also after a pull that
is done twice (`AlreadyCommitted`). `SwapExchanges` is false when one of the two zones is
the empty lines that end the file (`Kept`). `WrittenRefsReadBack` is false when the write
leaves a last record to be cut short by the rewrite (`Propped`), for a zone past the end of the
file, and for a field of a record another one begins in; `StateCompareNamesTheTarget` in the
same places, where empty hex-words get spelled out and where a zone of empty lines ends the
file. `MovesAreOneEdit` is false when the target is a zone with nothing but empty lines above
it to the end of the file; record 2 of the layout `EmptyZoneLast` has such a zone. `RecordsKeepTheirValues` used to ask that the file
end in a line with something on it, and is now proved from less (`Propped`). `PeersKeepTheirLines`
and `ServerAnswersAsTheCommand` excused more than they had to.

**Lines and words** (`DocumentProofs`, `ZoneEditorProofs`)

* **`ShiftedWordsFollowTheirLines`**: after a splice, the line that was at `i`, outside the
  lines replaced, is at the shifted number of `i`. It rests on `SpliceReads` (what a splice
  reads at every number, with the final empty piece accounted for by `LinesReadsAlike` and
  `JoinReadsAlike`).
* **`SpliceKeepsPeers`**: for every document that loads, every edit that touches no record
  line and every zone that shares no line with it, the zone reads the same lines after
  `SpliceAndShift`. A marker moves with its line, and distances inside a record are kept
  because no edit lies within one (`SpliceKeepsHeaders`, `ShiftKeepsDistance`,
  `RecordFollows`); the hex-words found there are the shifted ones (`ApplyDeltaReads`, and
  `ShiftByNothing` when nothing was rewritten); the two ends of the zone keep their distance
  and each line in between follows its number.
* **`TypeCorrect`**: `TypeOK` is inductive as it stands; the work is in the lemmas that each
  primitive returns a text (`SpliceType`, `UpdateLinesType`, `ApplyDeltaType`), that a shifted
  word is a line number and that `Extent` never ends before it starts.
* **`PeersKeep`** (`Spec => PeersKeepTheirLines`) is `SpliceKeepsPeers` carried through each
  command: writing hex-words, strings or whole records between the splice and the end moves
  no marker and no line of the zone.
* **`EditedZonesReadTheEdit`**: the record of the edited zone is found again at its shifted
  place, the new lines are prose and so are no hex-words that anything would shift, and the
  extent written covers exactly them.
* **`SwapsExchange`** (`Spec => SwapExchanges`): the second replacement works on a document that
  no command has scanned and that need not load, since a rewrite may have cut it short. So the
  lemmas about one replacement ask only that every marker has an index line of its own
  (`Indexed`), and that is kept (`ReplacedMoves`); the second record has not moved, because it
  is above both zones; its zone has (`PeerZoneMoves`) and is still within the file (`Kept`).
* **`RecordsKeepValues`**: a record moves as one piece (`Follows`). The rewrites each take an
  empty line off the end of the file, so the proof carries one line with something on it,
  which stands at or below the end of the record and outside the edit; that is `Propped`, and
  nothing less would do.

**Files** (`SavedFileProofs`, `TransactionsProofs`, `StoreSessionProofs`)

* **`UndoableChanges`** and **`ImplementsUndoable`**: `Spec => ChangesAreUndoable`, and a
  behaviour in which nothing lapses is one of `UndoableFile`. That the file may be truncated
  at `Write` follows from the copy made two steps before, so the strengthening is `Settled`:
  while nothing has lapsed at most one process is away from `idle`; at each place of that
  process (`Placed`) it is known which of the two files is whole; and a torn file has a whole
  undo copy. `StepStaysSettled` has one step per action, `StepIsUndoable` maps each action to
  `Protect`, `Edit`, `Restore` or a stutter.
* **`StagingIsALock`**: `Spec => StagingLocksOthersOut`, for any number of processes,
  operations and interrupted writes. It relates one process's handle to what another may do,
  so its invariant `LockInv` speaks of the file: while a transaction is alone on a log it found
  missing no line of it is a commit line, and once an operation was accepted the file exists.
  No way of writing to it makes a commit line: a torn line glued to the next is neither
  (`AppendingMarksNothing`), nor is any prefix of an append (`LoggingMarksNothing`).
* **`ReplayIsWhole`** and **`LogComesFirst`**: a replay reads every operation an undisturbed
  transaction had accepted, in order and nothing else but what it attempted, except the
  operations `MayBeLost` names; and a save happens with a committed log in place. The
  invariant is `BatchInv`, for every process nobody came between: a first separator stands
  before every entry, and only half a commit adds another; each accepted operation that the
  history does not give up is in a line that has ended, so a tear behind it can take nothing
  from it; a last line without an end is one a failed append left, and the handle's
  next number is the one behind it, so what is glued there is what `NextToAFailure` names; the
  numbers increase along the log, so reading in order of lines is reading in order of
  numbers; and what the handle counts agrees with the file. The type invariant of these
  modules needed `NextSeqIsNatural`, that the maximum over a log is a number.
* **`CopiesStayTrue`**: `Spec => []CopiesAgree` for a `Store`. Header and cache are rewritten
  by different operations and neither is scanned again, so the invariant says of every record
  where it stands and what a parser would read there; one lemma per way of writing.
* **`SessionsRunCommands`**: every step of a session that has not strayed is a step of
  `ZoneEditor` or none, so a Store that stays open does what commands run one by one would.

**Readers and movers** (`ReferencesProofs`, `ZoneCheckpointProofs`, `AnswersProofs`)

* **`MovedTextIsNeverLost`**: `RefsSpec => []ClearedTextIsInUndo`, for every document,
  reference and input. The first write of a move puts aside the very document the text was
  read from, and neither ending of an unfinished move writes.
* **`RefsTypeCorrect`**: `TextsJoin` as a hypothesis: a pair of coordinates can be spelled as a
  text, two texts joined are a text, and a text is a sequence of symbols. That is true of lines
  of characters, and the instance TLC checks is built so, but as a statement about all texts
  TLC cannot evaluate it.
* **`WrittenRefsRead`** (`RefsSpec => WrittenRefsReadBack`, under `TextsJoin`): one lemma for
  each of the four ways of writing. A field goes through `Store::update_section_data`, which
  rewrites the six lines of its record and moves none (`FieldsWritten`); hex-words as a line go
  through `replace_line_range` (`HexLineWritten`); a zone through `replace_zone_content`, after
  which its record must be found again and the file scanned (`ReplacedReadsTheEdit`,
  `FollowsScans`); a literal range through `replace_line_range_and_shift`, where no line of the
  range is a line of hex-words it then rewrites (`HexReplacedReads`). In each, what is read is
  a slice of what was written (`SlicedReads`); `NumeralStands` and `HexWordsReadBack` are the
  conversions on the way.
* **`StateCompareNames`** (`RefsSpec => StateCompareNamesTheTarget`, under `TextsJoin`): the
  records are the same ones before and after (`SameRecords`), and each is compared field by
  field (`RecordChangeIs`): a write to a field or to hex-words moves nothing, a write to a
  range moves the coordinates behind it and no others (`RecordsShifted`), and the empty lines
  the rewrite takes off the end of the file are within no zone that is excepted.
* **`MovesAreOne`** (`RefsSpec => MovesAreOneEdit`, under `TextsJoin`): a move is two writes,
  and the property compares them with one edit of both ends. The invariant `Halfway` says
  that between the two the document is the one the first write left, and the reference the
  adjusted one. The first write lifts every line behind the source by the lines taken
  (`Lifted`); the literal range is adjusted, and hex-words rewritten, by that number, so the
  target names the same lines (`TargetMoves`) and reads the same text (`TargetReadsSame`); after
  the second write each line is the value's or stands at the place the one edit would give it
  (`BothEdits`), and these places leave none over (`PlacesCover`). Two texts of which that is
  true agree but for coordinates and the empty lines at the end, that is, in payload
  (`BothEditsAlike`, `PayloadAlike`).
* **`UniqueText`**: text that stands in one place is found there, whether or not the diff is
  fresh; `ExactFindsThePlaces` is the lemma that the search of `locate_zone` returns the places
  where the text stands, each once and in order.
* **`PullsMoveLostZones`**, **`CommittedTextsStay`**, **`PullsFinish`** share `CheckpointInv`: the
  files are whole; a job is about the document, checkpoint and diff on disk while nobody saves
  under it (`JobIsWhole`); and the diff belongs to the checkpoint, or the checkpoint is already
  the one the diff leads to (`FilesAgree`, the second half being what a crash behind the
  checkpoint leaves). The lemmas: a pull keeps every record and every line that is not a pair,
  a zone that was just committed is found where it is, and committing twice is committing once.
* **`ServeTypeCorrect`** and **`OnlyInversionStopsTheServer`**: who waits is in the queue, once
  (`QueueOK`), and a panic needs an inverted pair in the document that was read
  (`PanicNeedsInversion`, one case per endpoint), which no later step changes.
* **`ServerIsTheCommand`** and **`EndpointsTellTheSame`**: an uncollected answer is the one its
  request gets from the text read at startup. The two copies of `parse_ref_spec` take every
  reference alike but the word 0 and `hex:A:B` (`TakenAlike`), the two copies of
  `read_ref_value` read what they take alike, and fail alike but for fields of a record a Store
  refuses (`ReadAlike`); the same of scopes (`ScopedAlike`, `ExpandedIsNamed`), and a search of
  the whole text finds what a search of the lines finds.

**Spellings** (`AnswersProofs`)

* **`SearchesSayTheSame`** (`Spec => []MatchersAgree`) and **`CompactRefsReadOneWay`**
  (`CompactRefsHaveOneReading`) go over the cases of the code: what a pattern finds on a line and
  in the whole text, and how many words an ending of a compact reference leaves behind.
* **`DecimalsCompare`**: `compare_numeric_strings` orders literals of any length as the numbers
  they mean. It strips zeros, compares lengths, then digits; the numbers are recursive functions
  over the digits. The proof pads both literals with zeros to the same number of places, for
  which the first digit that differs decides (what follows it is worth less than one), and
  shows that zeros in front and behind are worth nothing, so stripping them loses none.
* **`JsonKeeps`**: `json_literal` loses the zeros in front, the plus and the sign of a zero, and
  gives a point the digits it lacks; what is left is a number of JSON and the same number.
* **`HexWordsKeepTheirZones`**: a pair of line numbers spelled out as hex-words, of seven digits
  each, reads back as those numbers, and `convert` rewrites just the tokens that are
  words. The scanner over tokens is a recursive function; `WordsHold` is what holds at each
  place it comes to.

The last three are inductions over data. The library's theorems for that take an operator as a
parameter, which none of the provers can instantiate; but the argument can be stated about
sets: a set of numbers without a least member is empty (`LeastNatural`), hence a set with 0 and
each successor is all of them (`Induction`), and from that a function exists that satisfies a
recursive definition over the numbers or over a sequence (`Recursion`, `EachFollows`), so
the CHOOSE behind the definition chooses one.

**Only model-checked.** Of the invariants of `Operators`: `TypedValuesReadBack`, `SchemasReadBack`,
`StarterSchemaAccepts`, `ReplaceMakesThemAlike`, `CommandsFindTheirFile` and
`LoggedEntriesReadBack`, whose operators are made from the community modules' folds and
`SelectSeq`, which the prover cannot look into, and from strings it cannot tell to be texts.
And `EveryRequestIsAnswered`, liveness, which together with ENABLED stays with TLC.

## Known behaviour

Behaviour met on the way which a document says otherwise. The runs except it by the
conditions named above, or it is outside what they look at.

* `zone_editor.rs:260` writes the hex-words to the line where they were before the splice;
  with payload above its record that is another line (README.md:280-282,
  docs/ARCHITECTURE.md:212).
* swapping a zone of empty lines at the end of the file (`swap_zone_content`, zone_editor.rs)
  puts the second text above the line its zone names: the first rewrite has taken lines away;
  ref-copy --move (main.rs:4368) to such a zone does the same.
* `main.rs:3717`, after hex-replace has deleted lines, empties a zone that has just moved
  onto their numbers (docs/ARCHITECTURE.md:142, 212).
* `db_line.rs:394` takes a string with a newline, and the record becomes longer than seven
  lines (README.md:282, 418).
* `store.rs:268` joins and cuts the lines of a record: six lines with an empty last one are
  five, so a record just added is refused by set-num, set-str and set-zone
  (docs/ARCHITECTURE.md:550-553).
* `store.rs:496`: after a write that failed, Drop saves once more and copies the damaged file
  over the whole `.undo` (README.md:451, docs/ARCHITECTURE.md:143).
* `store.rs:247`: after `remove_section` the cache puts the old line numbers of other records
  back at the next write (docs/ARCHITECTURE.md:140-142).
* `main.rs:4368`: undo after ref-copy --move returns the state between its two writes
  (README.md:420); the text is then at neither end.
* `schema.rs`: the documented example (schema.rs:22-32) has `---` after each section and loses
  the second; values of `one_of` keep their quotes; `enum` accepts nothing as it is parsed,
  and its values are lost on save; ranges bind integers only, patterns are not checked
  (docs/ARCHITECTURE.md:918-934).
* `qol.rs:522`: `rgd tx` with a loaded path and no action inserts behind the end of the words
  and panics. A command one word short is tried again with the loaded document in front, and
  a first word that looks like a path is taken for the file where the number of words varies.
* `qol.rs:476`: `positional_token` counts the value of an option, so `rgd hex-replace --text x
  notes.md 4 7` does not see the file it is given: it asks for a loaded path, and with one loaded
  it is refused for a word too many, or works on the loaded document where that many are allowed.
* `fast_ops.rs:468`: replace rewrites line by line, and each rewrite takes one empty line off
  the end of the file.
* `wal.rs:204`: a value with a backslash before an n comes back with a newline there (as in
  `C:\new`), an old value that ends in a backslash swallows the separator behind it and its entry is
  skipped, and a string with a newline tears its own line; the rest of the batch is still read
  (wal.rs:51-53, "either all changes in a batch are applied, or none are"; wal.rs:119). A line
  of such a string that is `---` or starts with COMMIT is taken for the log's own.
* `wal.rs:547`: an append that fails half way returns an error and leaves a line without an end;
  the handle goes on, the next operation is glued to that line, `stage` accepts it, and no replay
  reads it, also after the commit (wal.rs:51-53).
* `wal.rs:535`: a commit that fails after its separator can be followed by more operations and
  another commit; `read_entries` flips at the second separator and leaves these out.
* `serve.rs:485`: `parse_hex_ref` of the server does not read `hex:A:B`, which `ref-get`
  does (main.rs:3863-3870), so `/ref` answers 400; a scope that is the number of a record alone
  is one to `bool-and` (header.rs:367) and not to `/query`.
* `wal.rs:659`: an entry whose checksum fails is skipped and the ones behind it are read
  (wal.rs:45-46, "the WAL is truncated at that point").
* `typed_value.rs`: a list without strings reads back as a list of one empty string, and a
  string with a nul in it as two.

## Not modelled

The browser bindings, clipboard, echo, encapsulation, HTML and UTF-16 conversions, aliases,
help and the declarations of the command line: formatting and I/O without a rule about the
document. Name lookup, the SIMD line counter and the memory-mapped scan: other ways to the
same answer. The `.md.bak` fallback of `undo`. JSON, TOML and integer values and the expansion of variables in
`typed_value.rs`. A checkpoint, diff or schema file written in part. References that neither
parser takes. Power failure (written but not flushed), tears inside a UTF-8 sequence, and
documents of 2^28 lines and more, where building a hex-word trips an assertion.

## Running

    for m in ZoneEditor Transactions SavedFile StoreSession References ZoneCheckpoint Serve Operators; do
      tlc -workers 2 -config MC$m.cfg MC$m
    done
    tlc -workers 2 -config MCZoneEditorSiblings.cfg MCZoneEditor          # violated, as are these
    tlc -workers 2 -config MCTransactionsSecond.cfg MCTransactions
    tlc -workers 2 -config MCZoneCheckpointPlaces.cfg MCZoneCheckpoint
    tlc -workers 2 -config MCServeZero.cfg MCServe
    for m in Document ZoneEditor SavedFile Transactions References Answers StoreSession \
        ZoneCheckpoint; do tlapm ${m}Proofs.tla; done

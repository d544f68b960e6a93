# Specifications of lightweight-shell

TLA+ models of the embedded shell in `src/`, checked with TLC on small instances,
and theorems about them proved with TLAPS. Paths below are relative to the
repository, so `src/lishArgs.cpp` is the parser.

## The system

The shell is single-threaded and never allocates. `Shell::service()` drains the
adapter byte by byte; each byte goes to the line editor, and a finished line is
parsed and executed before the next byte is read. What makes it hard is not
concurrency but *reentrancy, shared in-place buffers and incremental effects*: the
parser destroys the line it reads while handlers run, a handler may dispatch
lines of its own, the screen is repaired instead of redrawn, and three fixed-size
arrays are edited with hand-written loops.

| Component | State | Operations | Interacts with | What makes it correct |
|---|---|---|---|---|
| LineBuffer, LineEditor | `buffer`, `line_len`, `cursor_pos` | insert, backspace, delete, cursor keys, clear, copy | written directly by the input processor (recall) and tab completion, and by the parser | always a C string of that length, cursor in it, edits are edits of the text |
| History | packed entries `history_buffer_`, `bytes_used_`, `cursor_` | push, prev, next, cancel, current | browsed and pushed to by the input processor | no gaps or fragments, no duplicates, eviction of oldest only and only for room, cursor on an entry |
| InputProcessor | ANSI state and digit, last byte | one handler per key, CR/LF rule | edits the line, browses history, calls completion, writes to the terminal | the screen shows the line or the browsed entry; enter submits what is shown; one submit per line ending |
| Tab completion | none | complete or list | reads table and mode, writes the line | completes the last command of the line, to something that runs |
| Args | the line, `offset_`, `arg_count_` | `parse()` per segment, accessors | called by dispatch before each segment | segments and tokens as written, later segments intact, progress |
| Shell | current mode, last result code | `on_submit()`, `run_line()`, `dispatch_chain()`, `invoke_slice()`, status byte | parser, table, handlers, which call back | order and short circuit, the code and status that are reported, unwinding, nested lines stay inside their segment |
| Help, permissions, descriptors | none | listing, masks, search by hash and name | used by dispatch and completion | help, completion and dispatch agree, also when hashes collide |
| BasicShell example | logged-in user | sudo, login, logout, mode, echo, uptime, whoami | handlers; sudo re-dispatches, login reads the shell's input | elevation ends with the command it was for; each reader gets the line typed for it |
| IOAdapter | start of the read | `read(c, timeout_ms)` | called by `service()` and by handlers | neither early nor late across a clock that wraps, no byte lost |
| Terminal | a row and a cursor | escape sequences | external | (assumed) |

### Not modelled

* `make_shell()` and object lifetime: construction in place has no states, and copying
  a `Shell` would be undefined before any step of it.
* Of `lishPlatform.h` and `lishDefs.h`, flash access and writing strings: reading a
  string from flash is taken to be reading it. `string_matches()`, `to_lower()`, the hash
  (with collisions) and the status bytes are modelled.
* Text: what help, a listing, the handlers, the banner, the prompt and the rest of
  `print_status()` write.
* `IShell::service()` called by a handler: no code in the repository does it.
* A name registered twice, and a mode that changes between tab and enter: the models can
  express both, but nothing in the repository says what should happen, and no property does.
* `sudo` or `mode` with an argument that `operator[]` does not find: the handler would
  dereference `nullptr`. The handlers have no step there, and no run reaches such a line.
* Tests and build files, which are read as statements of what is intended.

## Modules

```
TextLine    <--implemented by--  LineBuffer           <-- LineBufferProofs
HistoryList <--implemented by--  History              <-- HistoryProofs
TextLine, HistoryList, TabComplete, Terminal  -->  InputProcessor  <-- InputProcessorProofs
CommandLine (grammar)  <--agrees with--  Args         <-- ArgsProofs
CommandLine, CommandTable, TabComplete  -->  Completion  <-- CompletionProofs
CommandLine  -->  Chain  <--implemented by--  Shell  <--extended by--  BasicShell  <-- BasicShellProofs
Args (accessors), CommandLine, CommandTable  -->  Shell
SerialRead, Login                                     <-- ReadingProofs
CommandLine  -->  ScanFacts, lemmas for all but LineBufferProofs and ReadingProofs
```

* **TextLine** – what `LineEditor` documents: a text and a cursor. Also gives the
  input processor its line, as a record `[text, cursor]`.
* **LineBuffer** – the array. One action per method of `LineEditor` and
  `LineBuffer`, plus the two writers that go round them, `exit_browsing_and_copy()`
  (`LoadEntry`) and `complete_command_in_buffer()` (`Complete`). The initial
  bytes are arbitrary after the first, because the constructor sets only that one.
* **HistoryList** – what `History` promises: a newest-first list of lines within a
  byte budget.
* **History** – the packed bytes. `PushNewest`, `PushDuplicate`, `PushNew` are
  the three cases of `push()`; the walks (`get_entry_ptr`, `entry_length`, …)
  keep the code's names. Pushes may come while browsing.
* **InputProcessor** – `process_char()`, one action per branch of the decoder,
  one operator per handler with its redraw; `ProcessNormally` is what becomes of a byte that
  is in no sequence. Of a submitted line it keeps what
  returns to the editor: a cleared line, a fresh prompt, any mode.
* **Terminal** – external: what the sequences the editor writes do to the row.
  `ESC O C`, which `handle_right()` sends in application mode, is taken to move
  the cursor right like `ESC [ C`; wrapping at the terminal's width is left out.
* **TabComplete** – which word, which names, which text. `Completes` and `Lists`
  are the two outcomes that change something.
* **Args** – `parse()` as a scanner: `Parse` enters, one action per kind of byte
  is one iteration of the loop, `terminator` is the return value. The loop
  over a quoted argument writes nothing before it finds the closing quote
  and is one step.
* **CommandLine** – the grammar of a line as a reference definition: the segment
  that begins at an offset, its tokens, how it ends, where the next begins and which bytes
  parsing it overwrites. A *blank* stands for both space and tab. `CommandOf` and
  `ArgumentsOf` are what a handler gets, with empty and quoted tokens as the code treats them.
* **CommandTable** – lookup by hash and then by name, availability, hiding, and the return
  values of help. `Hash` is a constant, so that names may collide.
* **Completion** – a line being typed, with tab, against a table chosen at the start.
* **Chain** – what executing a line promises, without parsing, bytes or handlers: its
  segments in order, each at most once, behind `&&` only after success, nothing behind a
  malformed one, the code of the last command kept, and lines run inside a command.
* **Shell** – the code: one array `bytes` that every call of `dispatch_chain()` parses in,
  and a stack of those calls, the outermost first; a record holds where its line begins
  in the array (`base`), the fields of its `Args`, the last result and what the call is
  *doing*. `Parse` overwrites the bytes that `CommandLine!Erased` names (which the run
  `args` shows of the scanner), and what a handler sees is read back from the array through the
  accessors of `Args` (`View`). Parsing a segment and running it are separate steps, so
  that a nested line runs between them. A word counts as one byte: no code cuts one.
  A handler that calls nothing (`plain`) returns any code.
* **BasicShell** – the example's table and handlers. `cmd_sudo` finds the end of its last
  argument, turns the NULs before it back into blanks, in the array the outer line is still
  parsed in, and pushes a call on that part; `SudoReturns` resumes it. `granted` and the
  fields `text`, `written` and `ran` are history variables for the properties.
* **SerialRead** – `read()` of the adapter: look at the port, look at the clock, again.
  Time passes and bytes arrive between any two steps. `elapsed` and `lag` are real time,
  to state the properties; `millis` wraps around.
* **Login** – `service()` and the prompts of `cmd_login()` as two readers of one stream
  of bytes, with the CR/LF rule, a prompt's limit, and typing ahead.

* **ScanFacts** – no model: lemmas about the least and greatest elements of sets, about
  functions that scan an array, and about the segments and tokens of `CommandLine`.

Definitions preceded by a comment *Faulty: …* are not used by any
specification. Each is a plausible slip in the code at that place (a dropped
guard, a missing reset, a swapped order), kept next to the definition it would replace,
and shows that one of the properties can tell the two apart.

## Runs

| Run (cfg) | Question and result | Bounds |
|---|---|---|
| `MCLineBuffer` | Is the array always a C string with its cursor inside (`CString`, `CursorInLine`), and are its edits the edits of a text (`EditsText`, refinement of TextLine)? Yes. | 5 bytes; a letter in both cases and the space; recalled entries of 0 to 4 letters; command names up to one that does not fit |
| `MCHistory` | Are the bytes whole entries (`Packed`), without duplicates (`NoDuplicates`), a browsing cursor on an entry (`CursorSelectsEntry`), order kept and eviction minimal (`PushKeepsOrder`, `EvictsOnlyForRoom`), and is it the list (`ImplementsList`)? Yes, in buffers that hold at most `HistoryLength` entries. | 8 bytes; lines of 1–3 letters, equal but for case, and one larger than the buffer |
| `MCEditor` | Any byte in any state of the decoder, so whole, broken and restarted sequences and all mixes of CR and LF: screen and line in step (`DisplayInSync`), enter submits what is shown (`SubmitsWhatIsShown`) and history records that and nothing else, unless it is blank (`RecordsTheRow`), browsing does not write the line (`BrowsingKeepsLine`), each line ending submits once (`OneSubmitPerLineEnding`). Yes, when no two commands share a prefix and history cannot exceed `HistoryLength`. | 3 letters and the NUL, history of 4 bytes and 2 entries, two typed letters and what completion adds, 2 modes, up to 3 line endings in a row; about 840 000 states |
| `MCArgs` | Does the in-place parser agree with the grammar on every segment, its bytes, its command unless it is quoted and its arguments included (`SegmentAsWritten`), leave later segments alone (`LaterSegmentsIntact`), make progress (`SeparatorsAdvance`) and end (`ParsingEnds`)? Yes. | all lines of up to 5 bytes over a letter, blank, `;`, `&` and both quotes; up to 3 padded with NULs |
| `MCCompletion` | Do completion, parser, help and dispatch agree: tab changes the last command only (`CompletesLastCommand`), a completed command runs in the same mode (`CompletedCommandRuns`), help fails exactly where dispatch finds nothing (`HelpAgreesWithDispatch`)? Yes, for lines without quotes and tables without two entries of one name. | 4 characters; 30 tables over two modes, hidden and shown, names with the same hash; two with a registered `he` (help) |
| `MCShell` | Do nested lines in one array execute what was written (`ImplementsChain`, refinement of Chain), in their own segment only (`NestedLineInItsSegment`)? Does elevation end (`ElevationEnds`), is the one status byte that of the typed line (`OneStatusPerLine`), does every line end (`DispatchEnds`)? Yes. | about 80 lines of one to four segments: sudo inside sudo, quotes, parse errors, empty segments, colliding hashes, scripted lines; the codes 0 and 1 |
| `MCSerialRead` | Is a read with a timeout neither early nor late (`NeverEarly`, `NeverLate`), and does it return (`ReadReturns`, `ByteEndsRead`)? Yes. | a clock of 12 ms from any value; timeouts 0, 1, 3, the greatest and none; 2 ms between two steps of the loop; a port of 2 bytes |
| `MCLogin` | With any number of lines typed ahead: does each reader get one typed line (`EachReadsOneTypedLine`), and is a mode granted only for a name and password typed in full (`LoggedInAsTyped`)? Yes, the first where enter is one byte. | 4 lines out of 9, among them names and passwords, `login`, and lines that leave something over for the next reader; user names are shorter than the prompt's limit; CR, LF, CR LF |
| `MCShortEntries` | *Violated:* `SubmitsWhatIsShown` when history holds more than `HistoryLength` short entries. | `HistoryLength` 2, 6 bytes, three 1-letter lines |
| `MCListing` | *Violated:* `DisplayInSync` after tab lists candidates with the cursor inside the line. | two commands with a common prefix |
| `MCShellLogout` | *Violated:* `LoggedOutMeansMode0`, by `sudo logout`. | six lines, the example's table alone |
| `MCShellSwallow` | *Violated:* `SequenceRunsBoth`, by `sudo echo "" ; whoami`: the empty argument is counted but not found, and the first word of the next segment is taken for it. | three lines, the example's table alone |

The bounds are the smallest at which each case happens: a line one byte larger
than a completion that fits and one smaller than a completion that does not; a
history that must evict zero, one, several or all entries; a cursor at both ends
and inside; every pair of separators with something, blanks or nothing between them;
a nested sudo inside a sudo; a clock that wraps around inside a read. Counts in the code
are `uint8_t`; lines stay below 256 bytes by the template parameter's type, which
`TextAssumption` and `CapacityAssumption` state, so no width is modelled except those
that matter: help's return code, which passes through `uint8_t` to `int8_t` (`Narrowed`), and `millis()`.

Deadlock checking is off in `MCArgs`, which stops when a line is parsed, and in
`MCLogin`, which stops when `MaxLines` lines have been typed and read.

### Fairness

`Args` assumes weak fairness of `Next`, and `BasicShell` of `Execution`: between being
called and returning, the code is one thread of straight-line C++ that nothing
can suspend; a handler that blocks for ever is not modelled. `SerialRead` assumes that
the loop runs and that time passes (`WF(Loop)`, `WF(Tick)`), and that two steps of
the loop are at most `MaxLag` apart, with `Infinite + 2 * MaxLag < Modulus`: 65 535 ms
against the 49 days of the clock. Weak fairness is enough: a step of the loop stays
enabled until it is taken. No fairness is assumed of the user or
of arriving bytes: a read without a timeout returns only if a byte has arrived. The
editor and `Login` have no liveness property, because each byte is handled by one call
without loops that wait.

### Where code and documentation disagree

Four disagreements have a run (above, and the findings of `PROJECT.json`). Others
were met and are *in the models as the code behaves*, but have no run. `SegmentAsWritten`
says nothing of the command where it is quoted; `ImplementsChain` takes the code's side in the
first two.

* a quoted command name is no command name: `command()` is empty (`src/lishArgs.cpp:132`;
  `src/lishArgs.h:101-102` says it is token 0), and `dispatch_chain()` passes the segment over;
* what stands behind a failed `&&` is skipped to the end of the line, the segments after a
  later `;` included (`src/lishShell.ipp:54`). `Chain` does the same, as the diagram at
  `docs/ARCHITECTURE.md:116` has it; lines 142-143 there, "`;` always continues", can be read otherwise;
* a letter typed while history is browsed, or any other edit key, replaces the line being typed by
  the browsed entry before it edits (`src/lishInputProcessor.ipp:315-319`;
  `docs/ARCHITECTURE.md:205-208` says one lands back on the line);
* backspace or tab after a lone ESC is dropped (`src/lishInputProcessor.ipp:45`
  says it is processed normally);
* a single match is completed even if the word is already the whole name, adding a
  space (`src/lishTabComplete.h:206`; `features/tabcomplete.feature:36-39` says it does nothing,
  but the step behind it, `test/steps_tabcomplete.cpp:253-258`, compares nothing);
* sudo turns a quoted argument with a blank into two (`examples/BasicShell/cmd_sudo.cpp:66`,
  comment at 51); the repository does not say that it keeps them;
* an empty quoted argument is counted by `count()` but not found by `operator[]`
  (`src/lishArgs.cpp:145`; `src/lishArgs.h:51-52` promises that a token below `count()` exists) – the run
  `MCShellSwallow` shows a consequence;
* on a terminal that sends CR LF, login reads the LF of the line `login` itself as an
  empty user name, and always fails (`examples/BasicShell/cmd_login.cpp:68`); no line of the
  repository speaks of such terminals and login together.

## Theorems

All are proved for every value of the constants, from the named assumptions of the
component's module only, which TLC evaluates in the runs:

| Proofs of | Assume |
|---|---|
| LineBuffer | `CapacityAssumption` (a line has 1 to 255 bytes), `SourceAssumption` (entries and names are sequences of characters), `NulAssumption` (NUL is not a character), `LowerAssumption` (folding case stays in the alphabet) |
| History | `LengthAssumption` (the two template parameters are positive `uint8_t`), `LineAssumption` (so is the size of a line, its terminator included), `CharAssumption` |
| InputProcessor | `SizeAssumption`, `CharAssumption` (the keys are not letters; command names are letters), `ModeAssumption` |
| Args | `TextAssumption` (lines have up to 255 bytes), `CharAssumption`, `NulAssumption` |
| BasicShell | Shell's `LineAssumption`, `ModeAssumption`, and `GrantedAssumption` (the example's modes are bits of a mode) |
| Completion | `LengthAssumption`, `TableAssumption` (names are sequences of characters, permissions sets of modes), `ModeAssumption` |
| SerialRead | `ClockAssumption` (see Fairness), `CapacityAssumption` |
| Login | `EndingAssumption`, `LineAssumption`, `LimitAssumption`, `UserAssumption` (names and passwords leave a prompt room for one more byte) |

Six theorems have a further hypothesis, which is part of their statement: four exclude
cases in which a run shows that the code does otherwise, two are about tables without two
commands of one name.

**LineBufferProofs.** `LineBufferInvariant` is
`Spec => [](TypeOK /\ CString /\ CursorInLine)`; `LineBufferTypeCorrect` and
`CursorStaysInLine` are its parts. The three are inductive only together:
an insertion stays in the array because the cursor is within `line_len` and
`line_len` below the capacity, and the shift that deletes a character
ends with the terminator only because there was one at `line_len`.
`LineBufferRefinesTextLine` is `Spec => EditsText`: under the mapping
"the first `line_len` bytes", `Init` implies TextLine's, and each operation, under
the invariant, is TextLine's operation of the same name or a stutter. One lemma per
operation compares the two texts position by position, citing extensionality of sequences once.

**HistoryProofs.** Everything the run checks: `HistoryTypeCorrect`, `HistoryStaysPacked`,
`CursorIsAtAnEntry`, `NoLineIsKeptTwice`, `PushesKeepTheOrder`, `EvictsNoMoreThanNeeded`, and
the refinement `TheArrayIsTheList`, which is `Spec => ImplementsList`. The inductive
invariant is `TypeOK /\ Packed` with `Short`: no entry is longer than a line, so every walk,
which counts in a byte, reaches the terminator. `NoDuplicates` and the range of the cursor
(`CursorInList`) are inductive relative to it. The link from bytes to the list is
`ListedFrom(p, es, at)`: the entries `es` stand one after the other from byte `p`, the j-th at
`at[j - 1]`. From it each case of `push()` is read as an operation on lists, `Unmoved`,
`Promotion` or `Addition`; the last three theorems are about these alone.

**InputProcessorProofs.** `EditorTypeCorrect` and `BrowsingIsHarmless` follow from one
inductive invariant, `Inv`: the line fits, every entry of history would fit it and is not blank, a
browsing cursor is at an entry. `BrowsingIsHarmless` says that the steps of browsing leave the
line alone; leaving browsing does not, as listed above. `ScreenIsTheLine`, `EnterSubmitsTheRow`
and `HistoryRecordsTheRow` are about `InSync`, "the row is the live line", which is the run's
`DisplayInSync` said of the records. Each handler is shown to redraw the edit it makes
(`Editing`), except in two cases, which are hypotheses of the theorems: history holds no more
entries than its cursor can reach (`[]EntriesInReach`), and tab lists candidates only from the
end of the line (`[][TabListsAtEnd]_vars`). They are what `MCShortEntries` and `MCListing` violate.
`HistoryRecordsTheRow` adds that no byte but a line ending changes the entries (`EntriesStay`)
and that a push puts together a history of the entries it had and the line (`PushedHistory`,
which holds of lines of any set). `EachLineEndingSubmits` needs no hypothesis: `LinesEnded` pairs
the bytes of a run of CR and LF from the left, and the invariant keeps, for every position of the
run, how many endings the bytes from there on make and whether the last is still open (`Scan`);
the byte the editor remembers is that of the open one.

**ArgsProofs.** `ParserKeepsLaterSegments` is `Spec => [](TypeOK /\ LaterSegmentsIntact)`:
nothing at or after the byte being scanned has been written, so the segments a handler
could reach by being run between two calls are as submitted. `ParserAdvances` is
`Spec => []SeparatorsAdvance`. The conjunction of the three is inductive:
the scanner's index bounds every write, and `arg_count`'s bound needs that it never
exceeds the bytes scanned. `EraseBefore` is the lemma they share.
`CallsReportTheSegment` is `Spec => []SegmentAsWritten`: the scanner, which goes through the
bytes once and overwrites them, reports what the grammar says of the
untouched line, for every line and every call, of the command only where it is not quoted. Its invariant `PInv` says that the scanner stands
before the first token (`Leads`), between tokens (`Between`) or in a bare token that begins
at some `r` (`InWord`), and that the tokens up to there stand in the buffer behind one
NUL or more; when a call has returned, that the whole segment does (`Over`). The accessors then
find each token, because the bytes at which a token starts are as many as the tokens.

**ScanFacts.** The grammar is written with recursive functions on the indices of a line, each
value computed from one at a later index. The prover has no induction over data, so the
lemmas do without: an index at which a scan were not defined, or not as claimed, would have a
greatest one (`HasGreatest`), which the equation at that index refutes (`Downward`,
`ScanExists`, `WalkExists`). `SegmentInLine`, `SegmentPlaced` and `TokensPlaced` say where segments and
tokens lie; the lemmas from `NothingRead` on say how what has been read grows with each token.

**CompletionProofs.** `CompletionFits` is `LineSpec => []TypeOK`: the completed line and its terminator
fit. `HelpKnowsWhatRuns` and `CompletedCommandIsFound` are `HelpAgreesWithDispatch` and
`CompletedCommandRuns` for tables in which every command has a name of its own (`NamedOnce`,
which nothing in the code enforces). Then a name finds one descriptor or none (`NamedIs`),
whatever else has its hash, so that help, which takes the first of that name, and dispatch, which takes
the first that is not hidden, look at the same one; and a sole candidate of completion, being
available, is not hidden.

**BasicShellProofs.** `SudoRestoresMode` is `Spec => []ElevationEnds`. The invariant is that
every call but the innermost waits for the next (`Frames`), so that the outermost call is
the first that elevated, and that `granted` is what that call saved or, if it does
not wait, the current mode (`GrantedOutside`). `StatusIsOfTheTypedLine` is
`Spec => OneStatusPerLine`. Its invariant `SInv` says that each call's result is that of the last
command *it* ran, that only the outermost line was typed, and that nothing is sent before
the outermost call returns; only the return of that call empties the stack
(`OnlyReturnEnds`). Both rest on three lemmas about a stack whose top is replaced, pushed
on or popped off, and none looks into the bytes: they hold however lines are parsed.

The other two do look. `ShellTypeCorrect` needs that every call's line lies in the array and the
offsets of its segments in the line (`Fits`), with what ScanFacts says of a segment.
`NestedLinesStayInside` is `Spec /\ []NoEmptyToken => []NestedLineInItsSegment`. By `NInv` each
nested line ends within what every caller has parsed, so that parsing it, and turning its NULs
back into blanks, leaves the callers' later segments alone; by `AInv` the arguments that were
counted begin inside the segment, which gives the line that `sudo` builds its end. The hypothesis
is needed: an empty quoted argument is counted but overwritten whole, so `operator[]`
goes on past the end of the segment, as `sudo echo "" ; whoami` does in `MCShellSwallow`.

**ReadingProofs.** `ReadTypeCorrect`, `ReadIsNeverEarly` and `ReadIsNeverLate` are about
SerialRead. The inductive invariant adds to `ReadTypeOK` and `NeverEarly` that, while a read runs,
`elapsed` is what the code computes
from the clock (`Since(start, millis)`) and is bounded at each of the two places of the loop
by the timeout and the lag (`Measured`); it needs that `elapsed` stays below one turn of the
clock, which is what `ClockAssumption` gives.

`LoginTypeCorrect`, `ModeIsEarned` and `ReadersShareTheInput` are about Login. The invariant says
which byte of which typed line each byte still to be read is (`Aligned`), and where each reader
therefore stands (`Place`): a user name is read from the beginning of a line; a password is
too if the name is a user's, and that name was the line before, whatever was left over of
longer lines and whichever byte ends them. Where enter is one byte and all lines fit the prompts,
the k-th reading is the k-th line.

Only model-checked:

* `CompletesLastCommand`, which relates two scans of one line, completion's and the parser's;
* `ImplementsChain`, the refinement of Chain by the shell;
* `ParsingEnds`, `DispatchEnds`, `ReadReturns` and `ByteEndsRead`: liveness is beyond the prover.

## Plan

Built so far, in this order because each is used by the next: the line and its proof, history,
the editor on the two abstract models, the parser and its proof, the table, completion; then
the shell on one array with the chain it implements, the example's handlers, the adapter
and its proof, login; then the proofs about nested lines, history, the editor, login and
what the parser reads.

Next:

1. Prove: `ImplementsChain`, for lines without empty tokens (from `NInv`, `AInv` and what
   `ScanFacts` says of segments, every step of `BasicShell` is one of Chain or a stutter);
   `CompletesLastCommand`, for lines without quotes (the separators that completion and the
   parser see are the same, and a segment depends on the bytes before the next one only).
2. Model: quotes in the lines of `Completion`, duplicate names in a table, user names as
   long as the prompt (with one, `LoggedInAsTyped` would have to speak of cut lines).

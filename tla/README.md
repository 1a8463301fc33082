# Crustty in TLA+

Crustty is a terminal emulator for macOS: a Rust engine (`crates/`) behind a C
interface, and an AppKit frontend (`native/macos/`). This directory holds a
TLA+ model of the engine and of what the frontend does with it, the TLC runs
that check it on small instances, and TLAPS proofs about its core. Every
definition is a translation of code; `PROJECT.json` ("map") names the lines.

Run everything from this directory:

    tlc -workers 2 -config Terminal_run.cfg MCTerminal
    tlapm TerminalProofs.tla

## 1. The system

Bytes flow one way and input the other:

    shell --pty--> pty-reader thread --Session::feed--> VtParser --> Screen --> Scrollback
      ^                |                                              |
      |                +--replies--+             render_into, terminal_copy_frame
      |                            v                                  v
      +-------pty <-- keys, text, sizes <-- main thread (TerminalView) --> window

| Component | Source | State | Operations | Module |
|---|---|---|---|---|
| Session | `terminal-core/session.rs` | mutex around screen and parser, `dirty`, `running` | `feed`, `update`, `resize`, `mark_dirty`, `render_into`, `shutdown` | `Session`, `LatestFrame` |
| Terminal, Pty, Interrupt | `terminal-pty/*.rs` | reader thread, `hung_up`, interrupt pipe, child | reader loop, `send`, `resize`, `child_outcome`, `shutdown`, `hang_up` | `Terminal` |
| Screen | `terminal-core/screen.rs`, `cursor.rs` | rows, cursor, margins, pen, alternate buffer, frozen head, ids | one per command, `resize` | `Screen` |
| Logical lines | `logical_line.rs`, `cell.rs`, `text.rs` | packed text of one line | `push_cells`, `render_rows` | `LogicalLine`, `Reflow` |
| Scrollback | `scrollback.rs` | frozen lines, byte count | `push`, `evict` | `Scrollback` |
| VT parser | `parsers/vt.rs` | bytes not consumed yet | `feed` | `VtParser`, `CsiParams` |
| Settings | `screen.rs` | pen, modes | SGR, DEC modes, RIS | `Settings`, `Dialogue` |
| Keys | `keys.rs`, `KeyMap.cpp`, `terminal-ffi`, `TerminalView.mm` | none; reads the modes | `keyDown:`, `map_key`, `encode_key` | `Keys`, `Dialogue` |
| Frame copy-out | `Glue/FrameBuffers.cpp`, `terminal-ffi`, `TerminalView.mm` | buffers, last good info | `copy`, `drawRect:`, `syncTerminalSize` | `FrameCopy` |
| Render | `render.rs`, `TerminalView.mm` | none | `build_row`, `drawRun:` | `Render`, `Reflow` |
| Replies | `screen.rs` | one buffer, capped | `reply`, `take_replies` | `Replies`, `Dialogue` |
| C boundary and its caller | `terminal-ffi`, `pty.rs`, `Session.cpp`, `Diagnostics.cpp`, `TerminalView.mm`, `AppDelegate.mm` | handle, last error, place of the last panic, window title | `terminal_create` .. `terminal_destroy`, `guard`, `startSession`, `windowTitle`, `checkChildStatus`, `close` | `Boundary`, `Spawn` |
| Config, palette, metrics, menus, logging, `grid.rs` | `Glue/*`, `Sources/*` | none that the rest depends on | -- | not modelled |

Three processes run at once: the **reader thread** (reads the pty, feeds the
session, answers queries), the **main thread** (wake-ups posted to its queue,
`drawRect:`, keys, resizes, closing the window) and the **shell**. They meet in
the session's mutex and two atomics, in the kernel's two bounded pty queues, in
the main queue and in the `hung_up` flag.

What is hard here, and what each part must get right:

* *Session*: the dirty flag is cleared, the lock taken and the copy made in three
  steps beside threads that set the flag in three others. No frame may be torn,
  no change lost, no wake-up forgotten, and the main queue must not fill up.
* *Terminal*: the shell can end, block or flood at any moment, and so can the user
  close the window. Nothing may outlive the session, no child may be left, a
  crash must not look like a clean exit, and closing must end.
* *Screen*: soft-wrap flags, line ids, the line that has scrolled off by halves and
  the cursor's byte offset are kept by some thirty commands separately and are
  trusted together by the reflow. No sequence of commands and resizes may lose
  text.
* *Scrollback, logical lines*: two caps, kept by difference; wrapping must be
  greedy, lossless and stable under any series of widths.
* *Render*: the frontend finds the column of a glyph by counting the clusters of a run,
  so a run must hold one cluster for every column.
* *Parser*: a chunk ends anywhere; what reaches the screen must not depend on where.
* *Settings, keys*: one parameter too many or too few turns the rest of an SGR sequence
  into other attributes; what a key sends depends on modes that a program set in
  chunks that end anywhere, and the program must be able to tell the keys apart.
* *Replies*: a chunk may ask more than the buffer holds; an answer must arrive whole or
  not at all, and in the order of the questions, though it is written while the
  rest of the chunk still changes what it tells of.
* *C boundary*: three owners may end a session, in any order; any call may panic, and so
  may the reader thread meanwhile; a title is copied in two calls. A session is
  used while it lives and freed once, and the window says how its shell ended.
* *Frame copy-out*: two calls, between which the frame may outgrow the buffers
  again; a copied size that stands in for the size last told to the engine.

`PROJECT.json` ("hazards") lists each of these at its line with the properties
that would catch it.

## 2. The modules and the code

**`LatestFrame`** is the promise of a session with no mechanism in it: screens
change, frames show the latest one, and a live session eventually shows the
last change.

**`Session`** has one step for every atomic operation and every end of a critical
section of `feed`/`update`, `mark_dirty` and `render_into`. The emulator is
abstracted to two counters, one per half of a change, so that a torn frame is
visible as two halves that differ. A panic under the lock ends its thread and
leaves half a change. `Session` implements `LatestFrame` under
`latest <- screen.cursor, shown <- frame.cursor, live <- running`.

**`Terminal`** runs the reader loop of `Terminal::spawn`, the main thread and the
shell beside one another, over an instance `S` of `Session`: every step the two
threads take inside the session is a step of that module. `reader` is the
reader's place in its loop, `ui` the main thread's place in a draw, a write, a
resize or the ordered shutdown. The kernel is external and is modelled by what
the code relies on: two bounded queues, a write that waits for room, end of
file once the far end is gone, a child reapable some time later. Only the main
thread takes `Mutex<Pty>`, so that lock is `ui` itself. Each write of the shell
carries the size the shell saw and whether it asks for a reply.

**`LogicalLine`** holds the pure operators on cells: packing a row into text,
where display rows begin, laying text out again. Graphemes are one of a few
representatives that differ in width and in length.

**`Scrollback`** holds `Pushed` and `Evicted` as operators on a store. `Gotten` is the
binary search of `get` with its probes left open: a line counts as found when
every choice of the next line to look at comes upon it.

**`Screen`** has one action for every command that touches the grid, `Resize` and
`ResizeAlternate`. `grid` is the whole of what is showing: rows with their
`line_id` and `wrapped`, cursor with its deferred wrap, margins, `pending` (the
frozen head), scrollback and the next id. `stash` is the primary buffer
while the alternate one shows. `AnchorAligned` is the condition under which the
slice in `reflow_lines` does not panic: the offset is on a character boundary of the text,
which a place between a base and its combining mark is too. When it fails, the action
leaves behind what the caught panic leaves behind. A *program* is a choice of commands,
glyphs and window sizes: the actions offered are those the program sends. `Spec` is all
programs; `OrderedSpec` is those that write forward on the primary screen and do as they
like on the alternate one: no step is one of `Disorders`, which opens rows among the others
(`OpensRows`), scrolls within margins (`ScrollsWithin`) or wraps a line over its own
later rows (`WrapsOver`). The promises about lines, history and
anchor hold for them only (section 6).

**`Render`** holds `build_row`, which coalesces a row of cells into runs of one style, and
the rule by which `drawRun:` and `drawRect:` put glyphs and backgrounds into columns
again. A style is one of three: plain, coloured text, coloured background.

**`Reflow`** is one line through any series of widths, with the operators of
`LogicalLine` that `Screen::resize` uses; every row of it goes through `Render`.

**`VtParser`** is the streaming loop and the grammar: every CSI final and ESC sequence the
code knows, with its defaults, and of the bytes of text and the C0 controls one
for each class the grammar tells apart. It is checked against itself on the
whole stream at once. **`CsiParams`** are the parameters of a CSI sequence: numbers,
SGR with its extended colours, private modes, erase modes, margins.

**`Replies`** answers the queries among the commands: the cursor report and the device
attributes into one capped buffer, which the session hands over after each chunk.
It keeps of the screen what an answer tells, the cursor.

**`Settings`** folds the commands that came out into the pen and the modes, and **`Keys`**
takes a key press from AppKit's event through `map_key` and the C interface to the bytes
of `encode_key`. **`Dialogue`** puts a program around them: it says sentences, each with
its bytes and with the words meant by them. The meaning of a script is stated
without any parsing, as the last word on each attribute, colour and mode; this is
what the parser, the pen and the keys are compared with.

**`Boundary`** is the life of one window over the C interface. `main` is the call the main
thread is in; each call into the engine is a step that may panic instead
(`PanicInCall`), and `Caught` is `guard`, a step later. `handle`, `session` and `freed`
follow `glue::Session` and the box behind it through the window closing, the shell ending
and the application terminating. Titles are numbers with a length. **`Spawn`** is what is
made of a configuration: the checks of `terminal_create`, and the environment and
directory of `Pty::spawn_with`.

**`FrameCopy`** is `FrameBuffers::copy` and `terminal_copy_frame` with the reader
beside them, `drawRect:` and `syncTerminalSize`. Session's locking is not
repeated: one `render_into` is two steps here, flag and copy.

`MC*` modules give the constants their values. The definitions with "Mutant" in
their comment are plausible mistakes in one definition. They are part of no
behaviour; each property is shown to fail when one of them takes the place of
the code's version (`PROJECT.json`, "mutants").

## 3. The runs

Passing runs; state counts are distinct states.

| Run | States | What it shows |
|---|---|---|
| `session` | 18 thousand | Two writers, a drawer, a panic, a shutdown anywhere. The lock is let go of before anyone is marked or woken, after a panic too (`LockDiscipline`); `NoTornFrame`, `NoLostChange`, `WakeUpOwed`, `QueueBounded`, and the refinement `PromiseKept` with its liveness. |
| `terminal` | 455 thousand | Output, a reply, one of a key, a resize or a redraw, the end of the shell and of the window in any order. `NoOrphan`, `OnlyCleanExitCloses`, `OutputFitsEngine`, `NothingAfterClose`; a shell that goes is noticed (`ShellGoneReported`) and, with a shell that reads its input, closing ends (`ShutDownCompletes`). |
| `screen_programs` | 216 thousand | `OrderedSpec`: seven programs that between them send every command, over a scrollback of two lines and six bytes: writing forward, the same under resizes, anywhere under resizes (also to nothing), row moves between margins, edits in a row with DECAWM off, the alternate screen with DECSC and RIS, and an alternate screen that does as it likes. Wrap flags, ids and frozen head tell the same lines (`LinesContinue`), every line of the history is found by its id whatever the search probes (`HistoryFound`), the cursor's anchor is between graphemes (`AnchorOnGrapheme`), history only slides and drops what the caps ask for and no more (`HistorySlides`), no scroll loses text (`ScrollKeepsText`) and no resize does that finds the frozen head above its own line (`ResizeKeepsText`). Both buffers stay rectangles of the current size with cursor and margins inside (`ScreenTypeOK`), no id is used twice (`IdsNeverReused`), the alternate screen leaves the primary one alone (`PrimaryUntouched`); of these three section 7 proves what holds of every program. |
| `reflow` | 27 thousand | Every line of up to four graphemes, every series of widths 1 to 4. Rows break greedily and never inside a wide grapheme (`WrapsGreedily`), no text is lost or made up but the padding before a wide grapheme, and lines without wide graphemes come back unchanged (`TextKept`), and a frame shows each row in its columns (`FrameShowsRows`). |
| `dialogue` | 136 thousand | Every stream of six bytes over three alphabets and 2.7 thousand scripts of escape sequences and queries, in every division into chunks. The commands do not depend on the division (`ChunksDoNotMatter`), only what is unfinished waits (`HeldBackUnfinished`), pen and modes are what was asked for (`SettingsAsAsked`), the shell reads the same bytes of two presses exactly when they tell it the same (`KeysTold`), and answers come in the order of the questions, none in part, none dropped that had room (`AnswersInOrder`). |
| `frame_copy` | 447 thousand | Output and a resize between any two steps of the two-call copy. A copy can fail twice, but a redraw is always on its way (`FailureIsRetried`) and in the end the window shows the screen (`Settles`). |
| `boundary` | 125 thousand | A window from launch to the end of the application, for twelve configurations, two titles, two panics in any call or on the reader. A session is used while it lives and freed once (`OwnedOnce`), a shell is started with all of its configuration or not at all (`StartTold`), how it ended is in the title after the same redraw (`EndIsShown`), an error never names the place of an older panic (`PlaceNotStale`), the last title set is the one shown in the end (`TitleSettles`). |

Violations: what a comment says and the code does not do (section 6).

| Run | Property | Source of the claim |
|---|---|---|
| `terminal_deadlock` | `ShutDownCompletes` | `terminal-pty/src/pty.rs:175` |
| `terminal_notice` | `HangUpNoticed` | `Sources/TerminalView.mm:267` |
| `screen_anchor` | `AnchorOnGrapheme` | `terminal-core/src/logical_line.rs:11` |
| `screen_head` | `HeadFoldedBackIn` | `terminal-core/src/screen.rs:625` |
| `frame_grid` | `GridFollowsWindow` | `Sources/TerminalView.mm:224` |

## 4. Bounds, and why they are enough

* `session`: two writers are what the program has (reader and main thread); four
  changes are enough for a change before, in and after each of two redraws.
  The proofs (section 7) remove these bounds.
* `terminal`: two writes of the shell against queues of one entry: one in the queue
  and one being fed, so that every wait on a full or empty queue occurs.
  `MaxEvents` = 1 lets one keystroke, one resize **or** one redraw of AppKit's
  own meet every state of the rest; pairs of them are left to later work.
* `screen_*`: `graphemes` (glyphs printed) and `ids` (line ids used) bound each
  program. Screens of 2x2, 1x3, 3x1, 1x1 and 0x2 reach the last column, a wide glyph
  with one column left, a one-column screen and no screen; up to six glyphs and
  eight ids are three screens of text. The caps of `screen_programs` are
  reached by both kinds of line; the two violation runs set them out of reach.
* `screen_programs`: a line laid out over three rows (3x1) is the shortest that can be
  written over into its own second row. TLC counts the steps of `OrderedSpec` as one
  action, `Next /\ ~Disorders`; each command is taken, those that open rows or
  scroll within margins on the alternate screen.
* `reflow`: at width 4 with wide graphemes every remainder occurs; lines that do not
  end in a blank, since a trailing blank is trimmed when a row is packed.
* `dialogue`: six bytes hold the longest beginning of a sequence with one parameter
  and one intermediate, its end, and a byte beyond; three alphabets because
  text, CSI and OSC bytes do not interact within one sequence. Scripts are one SGR
  sequence of up to three parts (a part may be five parameters), three changes
  of modes, or four of the pen with DECSC, DECRC and RIS: an attribute is set, unset
  and saved in every order; or a cursor report after up to two of 21 movements, or
  after one of six longer ones (margins, deferred wrap, the alternate screen); or four
  queries. At the end of each, 288 presses: 28 keys of every family
  and four characters, with all sets of modifiers.
* `frame_copy`: room from 0 to 2 of either kind lets a frame grow twice and shrink
  in between; three outputs fit one before, between and after the two calls.

* `dialogue`, replies: a cap of 16 bytes, where a third report no longer fits and a
  shorter answer still does; the code's cap differs in its size only.
* `boundary`: titles of length 0 to 2, two of them, so that one grows, shrinks or goes
  between the two calls; two panics, so that one falls between another and its
  error text. Each configuration differs from a plain one in one thing: a check
  that fails, or a variable that is set twice, over a default, over an inherited one.

Deadlock is checked in `session`, `terminal`, `terminal_*` and `reflow`. The
screens, the parser and the frame copy stop at their bounds, the boundary at the end
of the application.

## 5. Fairness

* A thread inside `feed`, `update` or `mark_dirty` goes on (`WF` on its steps): the
  operating system schedules it. Beginning another change is never due, nor is
  a panic, a write of the shell or anything the user does.
* `WF` on the main thread: its run loop serves the queue and AppKit calls
  `drawRect:` for a view that asked for it. Weak fairness suffices for the lock
  because the changes are bounded. With endless output a mutex that is not fair
  could starve the drawer; that is outside the model.
* `Terminal`: in addition an ended child becomes reapable and a killed one ends (the
  kernel), and a `Patient` shell reads its input. Without that last assumption closing
  does not end: `terminal_deadlock` is the run without it.
* `Boundary`: weak fairness on the steps of a call the main thread is in, and strong
  fairness on the title timer: a timer that is due fires between two other
  events of the run loop, though each of them makes the thread busy for a while.
  Nothing the user, the shell or the reader does is due.
* Settling properties (`Settles`, `PromiseKept`, `TitleSettles`) are about a system that is left alone
  in the end, which the bounds on output bring about.

## 6. Where the code and its comments part

Shown by a run:

1. `terminal_deadlock`: the reader writes replies with a blocking `write_all`
   (`terminal.rs:94`) that the interrupt does not reach. A program that asks
   without reading fills both queues; `shutdown` then joins a reader that
   waits for a program that waits for the reader.
2. `terminal_notice`: `drawRect:` asks for the child's status first and clears the
   dirty flag after. A reader that stores `hung_up` and marks in between finds
   the flag set, wakes nobody, and the mark is cleared unseen.
3. `screen_anchor`: after an insertion splits a wrapped line, two runs of rows have one
   id. The cursor's byte offset is counted in one run and clamped and sliced in
   the text of the other, inside a character of it: the resize panics half-way.
4. `screen_head`: the frozen head is taken out on every resize (`screen.rs:783`) but folded
   back only when the top row continues it (`screen.rs:625`: "with the straddling head
   folded back in"). On a 2x2 screen: print, narrow the window to one column, so that the
   line's first row freezes; RI opens a row above the rest of the line; the next resize
   drops the head, and the glyph in it is gone. IL and SD do the same.
   `ResizeKeepsText` names the condition (`HeadGoesOn`), which `OrderedSpec` keeps;
   `HeadFoldedBackIn` is the same promise without it.
5. `frame_grid`: `syncTerminalSize` compares with the last frame copied. A size that
   changes and changes back before a redraw is told once, and stays wrong.

Met while modelling, without a run of their own:

* `session.rs:218`: `is_running()` is asked before the callback is made, so one wake-up
  per thread can still fire after `shutdown()` returns (`session.rs:200` says
  none). `Terminal` shows that the join makes this harmless (`NothingAfterClose`).
* `docs/PRD.md:339` says that the queue never holds more than one pending redraw;
  with redraws of AppKit's own it may hold one more for each
  (`QueueBounded` is the bound that holds).
* `terminal.rs:99`: after a clean exit the pty may hang up before the child is reapable.
  Who asks then gets no outcome and the view says "disconnected" for good; the test at
  `terminal.rs:360` assumes the opposite.
* `terminal.rs:122`: `send` blocks under the pty's lock when the shell does not read;
  `terminal.rs:35` says that nothing blocks under it.
* `terminal.rs:94`: a failed reply ends the reader with output unread; `pty.rs:203`
  says that what the child left is drained first.
* `screen.rs:1038`: DECRC re-arms a wrap at a column that a resize has moved away from
  the margin.
* `screen.rs:1156`, `:1171`, `:499`: inserting and deleting lines split a wrapped line, or
  bring a row under another whose wrap flag says that it continues
  (`screen.rs:44`).
* `screen.rs:431`: a line that is written over from above wraps into its own second row.
  `autowrap` marks the first row and blanks nothing, but the second row's mark is cleared
  though its line goes on in the third: "whether a logical line continues onto
  the following grid row" (`screen.rs:44`) is then wrong. A line of three rows, CR, and two
  glyphs show it (`WrapsOver`). A resize joins the rows by their ids all the same; if they
  scroll off first, the history gets two lines of one id.
* `screen.rs:544`: a row opened by RI, IL or SD has a later id than the rows below it, and
  enters history first. `Scrollback::get` searches by ascending id
  (`scrollback.rs:10`, `:96`). `HistoryFound` holds for programs that never
  do this.
* `screen.rs:708`: a cursor above the rows that survive a smaller height is put on the
  first of them.
* `screen.rs:556`: one endless line grows outside both caps as frozen head (the
  logical-line ADR of 2026-08-27, point 7).
* `logical_line.rs:209`: the padding before a wrapped wide glyph becomes text at the
  next width. Only lines without wide glyphs round-trip (`TextKept`,
  `docs/PRD.md:896`).
* `TerminalView.mm:361` relies on runs of clusters one column wide, apart from a run that is one
  wide cluster. A glyph, an erase or a shift that takes one half of a wide glyph
  leaves the other behind (`screen.rs`, `put`); an orphan spacer adds a column to its
  run but no cluster, and what follows is drawn a column too far left.
  `FrameShowsRows` is about the rows a reflow lays out, which have no orphans.
* `vt.rs:537`: a colour cut short (`38;2;1;22`) leaves its parameters to be read as attributes,
  and a component above 255 keeps its low eight bits. Nothing promises more.
* `screen.rs:297`: the cursor report of row 1 has the bytes of F3 with a modifier, as in xterm.
* `KeyMap.cpp:188`: Control with Option sends an event whose Option is Meta also when
  `option_is_meta` is off (`KeyMap.h`: false is for someone who types Norwegian).
* `FrameBuffers.cpp:19` says that the second call always fits; it does not when the
  reader ran in between, and the window is empty until the redraw that is
  already on its way.
* `vt.rs:251`: bytes that are not UTF-8 give a different number of replacement characters
  depending on where the chunk ends.
* `vt.rs:325`: an OSC that never ends holds back all that follows.
* `lib.rs:443`: `terminal_create` refuses a configuration it cannot use without setting an
  error, so a Debug build shows an empty overlay, or the error of a logging
  directory before it; `AppDelegate.mm:32` says that "a Debug build has the
  engine's own complaint on screen". The status `SpawnFailed` is returned by no function.
* `terminal.rs:70`: when cloning the pty or starting the thread fails after the spawn, the
  `Pty` is dropped, which hangs the shell up but reaps nothing ("abandoned" in
  `Boundary`).
* `terminal.rs:85`: a panic on the reader thread ends it with `hung_up` unset, so the view
  keeps waiting; `terminal.rs:38` says that the flag is "Set when the reader thread
  stops".
* `lib.rs:297`: `PANIC_LOCATION` is one for the process. A panic on the reader between the
  hook and the catch puts its own place into the error text of the call
  (`PlaceNotStale` is what holds).
* `Session.cpp:88`: a title that shrinks between the two calls leaves zeros in its string,
  where the C string ends: before the suffix. It is set right by the next tick,
  and the suffix is first shown when the reader can no longer change the title.

## 7. What is proved

Each theorem is about every value of the constants that the module's assumption
allows: any finite set of threads, any queue sizes, any number of writes, events,
titles and panics.

`SessionProofs` (`SessionAssumption`):

| Theorem | Statement | Argument |
|---|---|---|
| `TypeCorrect` | `[]TypeOK` | inductive |
| `LockKept` | `[]LockDiscipline` | `LockInv` |
| `FramesWhole` | `[]NoTornFrame` | `LockInv` |
| `WakeUpsWithoutLock` | `[]WakeUpWithoutLock` | `LockInv` |
| `ChangesNotLost` | `[]NoLostChange` | inductive with `TypeOK` |
| `WakeUpsOwed` | `[]WakeUpOwed` | inductive with `TypeOK` |
| `QueuesBounded` | `[]QueueBounded` | `QueueInv`, by counting |
| `PromiseSafe` | `Promise!Safety`: each step is a step of `LatestFrame` or a stutter | from `TypeOK` |

`NoTornFrame` is not inductive: nothing in it says why the screen does not
change in the middle of a copy. `LockInv` adds that the lock is held exactly by
the thread in the middle of a change or by the UI in the middle of a copy
(`LockDiscipline`), that the halves of the screen agree outside a change
(`ScreenWhole`), and that the half already copied is the screen's (`CopyWhole`).
`QueueBounded` needs a count: every wake-up decided on or posted, and the redraw
it asks for, is paid for by the one dirty flag or by one of AppKit's own
redraws; the cardinality of the set of deciding threads goes up and down by one,
which three lemmas establish from `FiniteSetTheorems`.

The second part of `SessionProofs` is about the parser that the session feeds
(`VtParserAssumption`: shells write the bytes of the grammar):

| Theorem | Statement | Argument |
|---|---|---|
| `ChunksJoin` | `[]ChunksDoNotMatter` | `FeedInv`, `ChunkComposes` |
| `HeldBack` | `[]HeldBackUnfinished` | `FeedInv`, `CommandIs` |

`HeldBackUnfinished` says what a buffer looks like, not why; `FeedInv` says it: between two
chunks nothing can be parsed of what is held back (`ParseCommand(buf).used = 0`), which a round
of `feed`'s loop ends with for any bytes (`DecodeSettles`). That each of the grammar's scans
waits only for what is not there yet is `CommandIs`, one lemma for each kind of sequence.
`ChunksDoNotMatter` is then a statement about `Decoded` alone, `ChunkComposes`: decoding the
rest of `s` with `c` behind it gives what is left to give of `s \o c`. It goes by induction
on the length of `s`. A sequence that is finished stays the same command with more
bytes behind it (`EscapeIs`); a run of text does not, it grows, which is why runs are
compared as their characters (`TextStep`) and why the stream has to be UTF-8: in another one the
number of replacements depends on the cut (`vt.rs:251`, section 6). UTF-8 is told from the
stream's end, so it must be shown of what is left of one (`SuffixWell`), and of what came
before (`PrefixWell`).

`TerminalProofs` (`TerminalAssumption`):

| Theorem | Statement | Argument |
|---|---|---|
| `TypeCorrect` | `[]TypeOK` | `Inv` |
| `NoChildLeft` | `[]NoOrphan` | `Inv`, from the kill to the close |
| `OnlyCleanCloses` | `[]OnlyCleanExitCloses` | `Inv` |
| `OutputFits` | `[]OutputFitsEngine` | `SizesOrdered`: the kernel never knows a size the engine does not |
| `ClosedForGood` | `NothingAfterClose` | `Joined` and `Positions`: no thread is left that could act |
| `FramesWhole` | `[]S!NoTornFrame` of the session inside | `LockHeld` |
| `ChangesOwed` | `[](S!NoLostChange /\ S!WakeUpOwed)` of the session inside | inductive with `TypeOK` |

`Inv` ties what each thread is doing (`reader`, `ui`) to where it is in the session
(`pc`), which is `Positions`; says that there is no reader from the join on (`Joined`); and
orders the sizes told (`SizesOrdered`). The session inside the terminal is not literally a
behaviour of `Session`: `ResizePty` asks AppKit for a redraw of its own. `StepOfSession`
lists what a step can do to it, and the last two theorems carry the session's
invariants over such steps.

`BoundaryProofs`, about `Boundary`: `SessionOwnedOnce` from `Ownership` (the handle is there exactly while the
session lives, and while a call is made); `NoStalePlace` from `Noted` (the place is always
the last panic's); `SuffixReachesTitle` from `Presented`: once there is a suffix the reader has
hung up, so the title cannot change between its two calls. `StartsWhole` (`[]StartTold`) from
`Begun`, what the shell was started with and what the view shows when there is none; that
each variable has the last word said of it is an induction over the caller's pairs
(`SetOver`), for any list of them.

About `FrameCopy` it proves `BuffersAlwaysWhole` and `FailuresRetried`. A failed copy is retried
because a set flag always has its redraw (`DirtyOwed`) and because a second call
finds too little room only after output that came since the first (`OvertakenOwed`), whose
own wake-up the draw in progress cannot have consumed.

`LoopLemmas` is about loops. Nearly every operator on rows, text and lines is a fold
(`FoldLeft` and its kin) or a recursive function, and what such a definition computes
for every input needs an induction. The library's induction theorems take the
predicate as an operator, which the provers here cannot instantiate; so
`LoopLemmas` states induction for *sets* of numbers (`Induction`, from the least
number of the complement), and takes the loop's step as a constant operator `Body` that a
proof module instantiates with one named step: `FoldTrace` (a fold is the last state of
a trace with one state per element), `FoldIn` (what the start has and the step keeps, the
result has), `FoldConcat` (a fold that only appends splits where its input does), `FoldAlong` (the same
for what holds after so many elements). For
functions that recur on what lies ahead, as a parser's loops do, `AheadDefined` (there is
such a function, if the body looks ahead only) and `Shifted` (over a suffix it has the values
it has over the whole, from there on).

`LineProofs`, about `LogicalLine` (no assumption): `WrapIsGreedy`, that the place a row
begins at is the first grapheme that did not fit, for every text and width, by
induction along the loop of `compute_continuation_starts` with `Placed` as its
invariant. The lemmas on packing, laying out and widths are those the next two modules use.

`ReflowProofs` (`ReflowAssumption`: widths are positive, lines hold no spacers and do
not end in a blank, which `push_cells` sees to):

| Theorem | Statement | Argument |
|---|---|---|
| `LineKept` | `[]TextKept` | `ReflowInv` |
| `WrapsKept` | `[]WrapsGreedily` | `ReflowInv`, `WrapIsGreedy` |
| `FramesTrue` | `[]FrameShowsRows` | `ReflowInv`, `RowShown` |

None is inductive: rows that show the right ink could still be broken anywhere.
`ReflowInv` says that the rows are the layout of *some* text with the ink of the
first one, and of that very text if it is narrow. It cannot be the first text
itself: the blanks left before a wide grapheme are text to the next layout. The
step rests on `LayoutInk` (laying out keeps the ink), `PackingInk` (so does packing)
and `NarrowKept` (packing undoes the layout of a narrow text: every row but the last is
full, and the last ends where the text does). `RowShown` is about `build_row` alone, for any row
whose spacers stand behind wide graphemes (`Spaced`, which every layout keeps): by
induction along its columns (`RunsAt`), each run tells the graphemes and the style of
the cells it covers, every column up to the last visible one is covered, and a run that
changes its style covers blanks only.

`ScreenProofs`, first about the store's operators alone (`Scrollback`): `EvictsLeast`, that
the number of lines to drop exists and is the least one that helps;
`PushKeepsNewest`, that after a push both caps hold and the lines are an end of the
old ones followed by the new line; `PushKeepsStore`, that the byte count stays the sum
over the lines. A cap of zero lines is left out, where the new line is dropped at once.
At its end it says what one push and one frozen row leave of lines in order
(`PushAscends`, `PushSlides`, `FreezeNext`), which `OrderProofs` rests on.
Then about the screen (`ScreenAssumption`), for all programs, sizes and caps:

| Theorem | Statement | Argument |
|---|---|---|
| `ScreenTyped` | `[]ScreenInv` | inductive, one lemma for each group of commands |
| `NoIdTwice` | `[]IdsNeverReused` | `ScreenInv`: every id is below the next one |
| `HistoryKept` | `[]StoreKept`: caps kept, bytes counted, on either buffer | `ScreenInv`, `PushKeepsStore` |
| `PrimaryKept` | `PrimaryUntouched` | `ScreenInv`; each command's lemma says what it leaves alone |
| `ShapeKept` | `Spec /\ [][~LosesShape]_vars => []ScreenTypeOK` | `ScreenInv` with `ShapeInv` |

`ScreenInv` says of every row, line, cell, cursor and id what type it has, with ids
below the next one wherever they are kept (rows, frozen head, history, the buffer set
aside), and that the store is within its caps and counted. It holds after a caught
panic too, which is why it says nothing of the shape. `ShapeInv` adds that both buffers
are rectangles of the window's size with cursor and margins inside. Each command is
shown to lead from a grid to one in `After(grid)`: same size, ids only handed out,
shape kept, on the alternate buffer the history untouched; being transitive, this
also carries commands made of several edits.

`ScreenTypeOK` itself is not a theorem of `Spec`, and the proof says where it ends:
`LosesShape` names the two steps that lose the shape. One is the panic of
`screen_anchor` (section 6). The other turned up in the proof: with a window of no
rows, `insert_lines` takes out no row and puts one in (`screen.rs:1156`), so that there is
a row on a screen of none until the next resize; no program of `screen_programs` sends IL
at that size. Every other step keeps it, whatever the program. For programs that write
forward the first of the two cannot happen, which is `OrderKeepsShape`.

`OrderProofs` goes on from there (`ScreenAssumption`):

| Theorem | Statement | Argument |
|---|---|---|
| `LinesInOrder` | `OrderedSpec => [](ScreenInv /\ InOrder(PrimaryGrid))` | inductive, one lemma for each command |
| `WrapsAgree` | `OrderedSpec => []LinesContinue` | `LinesInOrder` |
| `LinesFound` | `OrderedSpec => []HistoryFound` | `LinesInOrder` |
| `AnchorFound` | `OrderedSpec => []AnchorOnGrapheme` | `LinesInOrder`, `AnchorFalls` |
| `HistorySlidesOn` | `OrderedSpec => HistorySlides` | `LinesInOrder`, `PushSlides` |
| `OrderKeepsShape` | `OrderedSpec /\ [][~EditsNoRows]_vars => []ScreenTypeOK` | `ShapeKept`'s lemmas, `AnchorFound` |

`LinesContinue`, `HistoryFound` and `AnchorOnGrapheme` are about three records of the same
thing, what is a line, and none is inductive: a history whose ids ascend stays so only if
what is frozen next is newer, which is a matter of the rows. `InOrder` says it of all at once. The
rows ascend by line id, and one is marked as wrapped exactly if the next is of its line
(`RowsInOrder`); the lines of the history ascend and are older than every row, and the frozen
head is of the first row's line (`FrozenUpTo`). It is kept by whatever `Orderly` says of two
grids, which holds of each command that is not one of `Disorders`: rows go at the top into the
history and come in at the bottom with the next id or the last one's. A reflow takes the rows apart into
lines by their ids and lays these out again; that the lines it takes ascend and hold each id
once is `ActiveLinesAscend`, and the layout of one line has one id and is wrapped but
for its last row.

`HistorySlidesOn` is about a step that may freeze many rows, as a reflow does, where
`PushKeepsNewest` is about one push. What carries over from push to push is `Slid`: the
store is the old one without its `n` oldest lines and with lines behind it that are no
older than some id `f`; and if a line went, then the last to go would not fit back in, or
the oldest line left is itself newer than `f` (`MakesRoom`). The last case is why the
screen is needed: when one step pushes so much that its own first line is dropped again, the
caps alone no longer tell why the last *old* line had to go. With `f` the id of the screen's
first row, that case is `TopDropped` of the property. `PushSlides` keeps `Slid` by cases on how
far the eviction went; the sum over the lines that `EvictsLeast` speaks of is split at the
line dropped last (`PoppedBytes`). `Orderly` carries it through the commands and
`HistoryGrows` through a resize.

`AnchorFound` is about text. The offset is counted in the rows above the cursor that have its
id; the place it is sliced at is in the text of the line that the reflow put together.
`LinesGoThrough` shows the two to be the same text: of rows in order, those of one id are one run
of rows, and their line is their cells, in order, behind the frozen head (`RegroupAt`). So the
offset is the length of a beginning of that text that ends at a row, and then at a cell of
the cursor's row (`PartsOfText`), and the clamp to a trailing blank that was trimmed moves it to the
text's end (`OffsetFalls`); in both cases it is where a grapheme begins.

Only model-checked: every liveness property, which needs fairness; `ScrollKeepsText` and
`ResizeKeepsText`, which compare all the text of the screen before and after a step: they are
stated for every cap, and checked for those of the run; and `SettingsAsAsked`, `KeysTold`
and `AnswersInOrder` of `Dialogue`, whose scripts are read byte by byte through five
modules.

## 8. What is left

* A run for `terminal.rs:85` (the reader's panic that nobody notices), described in
  section 6.
* Two events of the user in one behaviour of `Terminal`: state counts grow beyond
  what a run of minutes explores.
* Programs that leave half a wide glyph behind, drawn by `Render`; it needs a promise
  that holds, and the code makes none.

Not modelled: the colour theme, fonts, menus, configuration parsing, logging
(no state that the rest depends on); null checks of arguments that the frontend
never passes; `encode_paste`, which replaces text by text and keeps no state; the `Grid` trait
of `grid.rs`, which nothing uses; grapheme segmentation across cells and the
replacement of bytes that are not UTF-8, which need Unicode's tables.

------------------------------ MODULE Terminal ------------------------------
(***************************************************************************)
(* A shell on a pty with the engine attached: crates/terminal-pty/src, and *)
(* the main thread of the frontend that drives it.  Three processes run    *)
(* beside one another: the pty-reader thread, the main thread (draws,      *)
(* keys, resizes, closing the window), and the shell.  The engine they     *)
(* meet in is an instance of Session, step for step.                       *)
(*                                                                         *)
(* The kernel's side of the pty is external: two bounded queues, a write   *)
(* that waits for room, EIO once the far end is gone, and a child that is  *)
(* reapable some time after that.  The main thread is the only caller of   *)
(* the Mutex<Pty>, so the lock is held exactly while it writes, sets the   *)
(* size or reaps.                                                          *)
(***************************************************************************)
EXTENDS Integers, Sequences

CONSTANTS Reader,       \* the pty-reader thread
          Resizer,      \* the main thread while it is inside Session::resize
          UI,           \* the main thread otherwise
          NoThread,
          MaxWrites,    \* bound: chunks the shell writes
          MaxEvents,    \* bound: keystrokes, changes of the grid, and redraws
                        \* AppKit asks for by itself, together
          InCap,        \* room in the kernel's queue towards the shell
          OutCap,       \* room in the queue towards the reader
          Patient       \* the shell reads its input while it has output left

ASSUME TerminalAssumption ==
    /\ Reader # Resizer /\ UI \notin {Reader, Resizer}
    /\ NoThread \notin {Reader, Resizer, UI}
    /\ MaxWrites \in Nat /\ MaxEvents \in Nat
    /\ InCap \in Nat \ {0} /\ OutCap \in Nat \ {0}
    /\ Patient \in BOOLEAN

VARIABLES
    pc, lock, screen, dirty, running, draw, frame, posted, needsDisplay, exposes, panics,
    reader,      \* where the reader thread is in its loop
    chunk,       \* the chunk it is feeding: [query, size]
    hungUp,      \* Terminal.hung_up
    interrupt,   \* the interrupt pipe has a byte in it
    ui,          \* what the main thread is doing
    ended,       \* _hungUp of the view: it knows that the shell has gone
    suffix,      \* what the window says of it
    outq,        \* the shell's output, not read yet
    inq,         \* how much input the shell has not read yet
    child,       \* the life of the shell
    outcome,     \* how it ended
    signalled,   \* signals sent to it
    gridSize,    \* the engine's size, as a count of resizes
    winSize,     \* the kernel's size for the pty, likewise
    writes, keys

sessionVars == <<pc, lock, screen, dirty, running, draw, frame, posted, needsDisplay,
                 exposes, panics>>
readerVars == <<reader, chunk, hungUp>>
uiVars == <<ui, ended, suffix, interrupt, keys>>
shellVars == <<child, outcome, writes>>
queueVars == <<outq, inq>>
sizeVars == <<gridSize, winSize>>
vars == <<sessionVars, readerVars, uiVars, shellVars, queueVars, sizeVars, signalled>>

\* The last change is the empty update the reader makes on its way out.
S == INSTANCE Session WITH Threads <- {Reader, Resizer},
                           MaxChanges <- MaxWrites + MaxEvents + 1,
                           MaxExposes <- MaxEvents,
                           MaxPanics <- 0

Chunks == [query : BOOLEAN, size : 0..MaxEvents]

TypeOK ==
    /\ S!TypeOK
    /\ reader \in {"polling", "feeding", "fed", "replying", "leaving", "farewell",
                   "farewelled", "stopped"}
    /\ chunk \in Chunks
    /\ hungUp \in BOOLEAN /\ interrupt \in BOOLEAN /\ ended \in BOOLEAN
    /\ ui \in {"idle", "asking", "reaping", "reapingHungUp", "copying", "writing", "resizing",
               "resized", "winching", "closing", "interrupting", "joining", "hangingUp",
               "grace", "waiting", "closed"}
    /\ suffix \in {"none", "clean", "failed", "disconnected"}
    /\ outq \in Seq(Chunks) /\ Len(outq) <= OutCap
    /\ inq \in 0..InCap
    /\ child \in {"running", "gone", "zombie", "reaped"}
    /\ outcome \in {"none", "clean", "failed"}
    /\ signalled \in SUBSET {"HUP", "KILL"}
    /\ gridSize \in 0..MaxEvents /\ winSize \in 0..MaxEvents
    /\ writes \in 0..MaxWrites /\ keys \in 0..MaxEvents

Init ==
    /\ S!Init
    /\ reader = "polling" /\ chunk = [query |-> FALSE, size |-> 0]
    /\ hungUp = FALSE /\ interrupt = FALSE
    /\ ui = "idle" /\ ended = FALSE /\ suffix = "none"
    /\ outq = <<>> /\ inq = 0
    /\ child = "running" /\ outcome = "none" /\ signalled = {}
    /\ gridSize = 0 /\ winSize = 0
    /\ writes = 0 /\ keys = 0

-----------------------------------------------------------------------------
(* The pty, as the code meets it.                                           *)

FarEndGone == child # "running"

\* write_all: waits for room, and fails once the far end is gone.
CanWrite == FarEndGone \/ inq < InCap
Written == inq' = IF FarEndGone THEN inq ELSE inq + 1

-----------------------------------------------------------------------------
(* The shell.                                                               *)

ShellWrite ==
    /\ child = "running"
    /\ writes < MaxWrites
    /\ Len(outq) < OutCap
    /\ writes' = writes + 1
    /\ \E query \in BOOLEAN : outq' = Append(outq, [query |-> query, size |-> winSize])
    /\ UNCHANGED <<sessionVars, readerVars, uiVars, sizeVars, signalled, child, outcome, inq>>

ShellRead ==
    /\ child = "running"
    /\ inq > 0
    /\ Patient \/ writes = MaxWrites
    /\ inq' = inq - 1
    /\ UNCHANGED <<sessionVars, readerVars, uiVars, shellVars, sizeVars, signalled, outq>>

\* It ends: by itself, or by a signal it does not or cannot ignore.
ShellEnd ==
    /\ child = "running"
    /\ child' = "gone"
    /\ outcome' \in IF signalled = {} THEN {"clean", "failed"} ELSE {"failed"}
    /\ UNCHANGED <<sessionVars, readerVars, uiVars, queueVars, sizeVars, signalled, writes>>

\* The kernel makes it reapable, after the pty has been hung up.
ShellReapable ==
    /\ child = "gone"
    /\ child' = "zombie"
    /\ UNCHANGED <<sessionVars, readerVars, uiVars, queueVars, sizeVars, signalled, outcome,
                   writes>>

Shell == ShellWrite \/ ShellRead \/ ShellEnd \/ ShellReapable

-----------------------------------------------------------------------------
(* The reader thread.                                                       *)

\* read_interruptible: the interrupt is looked at first, what the shell left is
\* read before its going is reported.
ReadChunk ==
    /\ reader = "polling"
    /\ ~interrupt
    /\ outq # <<>>
    /\ chunk' = Head(outq)
    /\ outq' = Tail(outq)
    /\ reader' = "feeding"
    /\ UNCHANGED <<sessionVars, uiVars, shellVars, sizeVars, signalled, hungUp, inq>>

\* Mutant: a hang-up with nothing left to read is not taken for an end.
ReadNothing_InterruptOnly ==
    /\ reader = "polling"
    /\ interrupt
    /\ reader' = "leaving"
    /\ UNCHANGED <<sessionVars, uiVars, shellVars, queueVars, sizeVars, signalled, chunk, hungUp>>

ReadNothing ==
    /\ reader = "polling"
    /\ interrupt \/ (FarEndGone /\ outq = <<>>)
    /\ reader' = "leaving"
    /\ UNCHANGED <<sessionVars, uiVars, shellVars, queueVars, sizeVars, signalled, chunk, hungUp>>

\* session.feed: a change of the session, begun here and carried through there.
Feed ==
    /\ reader = "feeding"
    /\ S!BeginChange(Reader)
    /\ reader' = "fed"
    /\ UNCHANGED <<uiVars, shellVars, queueVars, sizeVars, signalled, chunk, hungUp>>

Fed ==
    /\ reader = "fed"
    /\ pc[Reader] = "idle"
    /\ reader' = IF chunk.query THEN "replying" ELSE "polling"
    /\ UNCHANGED <<sessionVars, uiVars, shellVars, queueVars, sizeVars, signalled, chunk, hungUp>>

\* Mutant: the reply does not wait for room.
Reply_NoRoom ==
    /\ reader = "replying"
    /\ Written
    /\ reader' = IF FarEndGone THEN "leaving" ELSE "polling"
    /\ UNCHANGED <<sessionVars, uiVars, shellVars, sizeVars, signalled, chunk, hungUp, outq>>

\* reader_handle.write_all(&replies), which nothing interrupts.
Reply ==
    /\ reader = "replying"
    /\ CanWrite
    /\ Written
    /\ reader' = IF FarEndGone THEN "leaving" ELSE "polling"
    /\ UNCHANGED <<sessionVars, uiVars, shellVars, sizeVars, signalled, chunk, hungUp, outq>>

HangUp ==
    /\ reader = "leaving"
    /\ hungUp' = TRUE
    /\ reader' = "farewell"
    /\ UNCHANGED <<sessionVars, uiVars, shellVars, queueVars, sizeVars, signalled, chunk>>

\* session.update(|_| {}), so that the UI redraws once more.
Farewell ==
    /\ reader = "farewell"
    /\ S!BeginChange(Reader)
    /\ reader' = "farewelled"
    /\ UNCHANGED <<uiVars, shellVars, queueVars, sizeVars, signalled, chunk, hungUp>>

Stop ==
    /\ reader = "farewelled"
    /\ pc[Reader] = "idle"
    /\ reader' = "stopped"
    /\ UNCHANGED <<sessionVars, uiVars, shellVars, queueVars, sizeVars, signalled, chunk, hungUp>>

\* The reader inside feed or update.
InSession ==
    /\ \/ S!FinishChange(Reader) \/ S!SwapDirty(Reader)
       \/ S!CheckRunning(Reader) \/ S!WakeUp(Reader)
    /\ UNCHANGED <<readerVars, uiVars, shellVars, queueVars, sizeVars, signalled>>

ReaderStep == ReadChunk \/ ReadNothing \/ Feed \/ Fed \/ Reply \/ HangUp \/ Farewell \/ Stop
                \/ InSession

-----------------------------------------------------------------------------
(* The main thread: the posted wake-ups, and drawRect:.                     *)

MoreEvents == keys + gridSize + exposes < MaxEvents

RunPosted ==
    /\ ui = "idle"
    /\ S!RunPosted
    /\ UNCHANGED <<readerVars, uiVars, shellVars, queueVars, sizeVars, signalled>>

Expose ==
    /\ ui = "idle"
    /\ MoreEvents
    /\ S!Expose
    /\ UNCHANGED <<readerVars, uiVars, shellVars, queueVars, sizeVars, signalled>>

\* drawRect: begins with checkChildStatus, which asks nothing once it knows.
DrawRect ==
    /\ ui = "idle"
    /\ needsDisplay
    /\ ui' = IF ended THEN "copying" ELSE "asking"
    /\ UNCHANGED <<sessionVars, readerVars, shellVars, queueVars, sizeVars, signalled, ended,
                   suffix, interrupt, keys>>

\* terminal_child_status: has_hung_up() first...
AskHungUp ==
    /\ ui = "asking"
    /\ ui' = IF hungUp THEN "reapingHungUp" ELSE "reaping"
    /\ UNCHANGED <<sessionVars, readerVars, shellVars, queueVars, sizeVars, signalled, ended,
                   suffix, interrupt, keys>>

\* try_wait, which reaps a child that can be reaped and remembers its status.
Reap == child' = IF child = "zombie" THEN "reaped" ELSE child

\* Mutant: an unexplained hang-up is taken for a clean exit.
Presented_Optimistic == IF child' = "reaped" THEN outcome ELSE "clean"

\* What present_exit makes of the answer.
Presented == IF child' = "reaped" THEN outcome ELSE "disconnected"

\* ... then child_outcome(), and what the view makes of the two: a clean exit
\* closes the window, anything else keeps it and says so.
AskOutcome ==
    /\ ui \in {"reaping", "reapingHungUp"}
    /\ Reap
    /\ IF ui = "reapingHungUp"
       THEN /\ ended' = TRUE
            /\ suffix' = Presented
            /\ ui' = IF Presented = "clean" THEN "closing" ELSE "copying"
       ELSE /\ ui' = "copying"
            /\ UNCHANGED <<ended, suffix>>
    /\ UNCHANGED <<sessionVars, readerVars, queueVars, sizeVars, signalled, outcome, writes,
                   interrupt, keys>>

\* The rest of drawRect: copies one frame.
Draw ==
    /\ ui = "copying"
    /\ S!DrawStep
    /\ ui' = IF draw = "copying" THEN "idle" ELSE "copying"
    /\ UNCHANGED <<readerVars, shellVars, queueVars, sizeVars, signalled, ended, suffix,
                   interrupt, keys>>

-----------------------------------------------------------------------------
(* The main thread: keys and resizes.                                       *)

\* send_key, send_text, paste: takes the pty's lock, then write_all.
PressKey ==
    /\ ui = "idle"
    /\ MoreEvents
    /\ keys' = keys + 1
    /\ ui' = "writing"
    /\ UNCHANGED <<sessionVars, readerVars, shellVars, queueVars, sizeVars, signalled, ended,
                   suffix, interrupt>>

WriteKey ==
    /\ ui = "writing"
    /\ CanWrite
    /\ Written
    /\ ui' = "idle"
    /\ UNCHANGED <<sessionVars, readerVars, shellVars, sizeVars, signalled, ended, suffix,
                   interrupt, keys, outq>>

\* Mutant: the kernel hears of the new size before the engine does.
BeginResize_PtyFirst ==
    /\ ui = "idle"
    /\ MoreEvents
    /\ S!BeginChange(Resizer)
    /\ winSize' = gridSize + 1
    /\ ui' = "resizing"
    /\ UNCHANGED <<readerVars, shellVars, queueVars, gridSize, signalled, ended, suffix,
                   interrupt, keys>>

\* syncTerminalSize with a new grid, Terminal::resize: the engine first.
BeginResize ==
    /\ ui = "idle"
    /\ MoreEvents
    /\ S!BeginChange(Resizer)
    /\ ui' = "resizing"
    /\ UNCHANGED <<readerVars, shellVars, queueVars, sizeVars, signalled, ended, suffix,
                   interrupt, keys>>

ResizeEngine ==
    /\ ui = "resizing"
    /\ S!FinishChange(Resizer)
    /\ gridSize' = gridSize + 1
    /\ ui' = "resized"
    /\ UNCHANGED <<readerVars, shellVars, queueVars, winSize, signalled, ended, suffix,
                   interrupt, keys>>

ResizeMarked ==
    /\ ui = "resized"
    /\ S!SwapDirty(Resizer) \/ S!CheckRunning(Resizer) \/ S!WakeUp(Resizer)
    /\ ui' = IF pc'[Resizer] = "idle" THEN "winching" ELSE "resized"
    /\ UNCHANGED <<readerVars, shellVars, queueVars, sizeVars, signalled, ended, suffix,
                   interrupt, keys>>

\* Then the kernel, whose SIGWINCH makes the shell redraw; the view redraws too.
ResizePty ==
    /\ ui = "winching"
    /\ winSize' = gridSize
    /\ needsDisplay' = TRUE
    /\ ui' = "idle"
    /\ UNCHANGED <<pc, lock, screen, dirty, running, draw, frame, posted, exposes, panics,
                   readerVars, shellVars, queueVars, gridSize, signalled, ended, suffix,
                   interrupt, keys>>

-----------------------------------------------------------------------------
(* The main thread: windowWillClose, Session::close, Terminal::shutdown.    *)

CloseWindow ==
    /\ ui = "idle"
    /\ ui' = "closing"
    /\ UNCHANGED <<sessionVars, readerVars, shellVars, queueVars, sizeVars, signalled, ended,
                   suffix, interrupt, keys>>

\* Silence the wake-up,
Silence ==
    /\ ui = "closing"
    /\ S!ShutDown
    /\ ui' = "interrupting"
    /\ UNCHANGED <<readerVars, shellVars, queueVars, sizeVars, signalled, ended, suffix,
                   interrupt, keys>>

\* Mutant: the interrupt is never fired.
Interrupt_NotFired ==
    /\ ui = "interrupting"
    /\ ui' = "joining"
    /\ UNCHANGED <<sessionVars, readerVars, shellVars, queueVars, sizeVars, signalled, ended,
                   suffix, interrupt, keys>>

\* interrupt the reader,
Interrupt ==
    /\ ui = "interrupting"
    /\ interrupt' = TRUE
    /\ ui' = "joining"
    /\ UNCHANGED <<sessionVars, readerVars, shellVars, queueVars, sizeVars, signalled, ended,
                   suffix, keys>>

\* Mutant: the reader is not waited for.
Join_NotWaited ==
    /\ ui = "joining"
    /\ ui' = "hangingUp"
    /\ UNCHANGED <<sessionVars, readerVars, shellVars, queueVars, sizeVars, signalled, ended,
                   suffix, interrupt, keys>>

\* join it,
Join ==
    /\ ui = "joining"
    /\ reader = "stopped"
    /\ ui' = "hangingUp"
    /\ UNCHANGED <<sessionVars, readerVars, shellVars, queueVars, sizeVars, signalled, ended,
                   suffix, interrupt, keys>>

\* and only then hang up the child, unless it has gone already,
HangUpChild ==
    /\ ui = "hangingUp"
    /\ Reap
    /\ IF child' = "reaped"
       THEN ui' = "closed" /\ UNCHANGED signalled
       ELSE ui' = "grace" /\ signalled' = signalled \cup {"HUP"}
    /\ UNCHANGED <<sessionVars, readerVars, queueVars, sizeVars, outcome, writes, ended, suffix,
                   interrupt, keys>>

\* and reap it: within the grace period,
ReapInTime ==
    /\ ui = "grace"
    /\ child = "zombie"
    /\ Reap
    /\ ui' = "closed"
    /\ UNCHANGED <<sessionVars, readerVars, queueVars, sizeVars, signalled, outcome, writes,
                   ended, suffix, interrupt, keys>>

\* Mutant: the child is killed and not waited for.
Kill_NotReaped ==
    /\ ui = "grace"
    /\ signalled' = signalled \cup {"KILL"}
    /\ ui' = "closed"
    /\ UNCHANGED <<sessionVars, readerVars, shellVars, queueVars, sizeVars, ended, suffix,
                   interrupt, keys>>

\* or, when that is over, after killing it.
Kill ==
    /\ ui = "grace"
    /\ signalled' = signalled \cup {"KILL"}
    /\ ui' = "waiting"
    /\ UNCHANGED <<sessionVars, readerVars, shellVars, queueVars, sizeVars, ended, suffix,
                   interrupt, keys>>

ReapKilled ==
    /\ ui = "waiting"
    /\ child = "zombie"
    /\ Reap
    /\ ui' = "closed"
    /\ UNCHANGED <<sessionVars, readerVars, queueVars, sizeVars, signalled, outcome, writes,
                   ended, suffix, interrupt, keys>>

\* Nothing of the terminal is left to run.
Closed == ui = "closed" /\ UNCHANGED vars

-----------------------------------------------------------------------------
\* What the main thread does of its own accord once it has begun something.
MainStep ==
    \/ RunPosted \/ DrawRect \/ AskHungUp \/ AskOutcome \/ Draw
    \/ WriteKey
    \/ ResizeEngine \/ ResizeMarked \/ ResizePty
    \/ Silence \/ Interrupt \/ Join \/ HangUpChild \/ ReapInTime \/ Kill \/ ReapKilled

User == Expose \/ PressKey \/ BeginResize \/ CloseWindow

Next == Shell \/ ReaderStep \/ MainStep \/ User \/ Closed

\* The two threads are scheduled, the kernel makes an ended child reapable and
\* a killed one end, and the shell reads its input when it can.  Nothing else
\* the shell or the user may do is ever due.
Fairness ==
    /\ WF_vars(ReaderStep)
    /\ WF_vars(MainStep)
    /\ WF_vars(ShellReapable)
    /\ WF_vars("KILL" \in signalled /\ ShellEnd)
    /\ WF_vars(ShellRead)

Spec == Init /\ [][Next]_vars
FairSpec == Spec /\ Fairness

\* A program that keeps writing for as long as there is room.
EagerSpec == FairSpec /\ WF_vars(ShellWrite)

-----------------------------------------------------------------------------
(* Properties.                                                              *)

\* Once shutdown has returned nothing happens to the session any more, and in
\* particular no wake-up is fired into a view that may be gone.
NothingAfterClose ==
    [][ui = "closed" => UNCHANGED sessionVars]_vars

\* Closing the window never leaves a child behind, running or unreaped.
NoOrphan == ui = "closed" => child = "reaped"

\* The window closes by itself only after a clean exit: a crash, and a reader
\* that stopped for reasons of its own, are never read as one.
OnlyCleanExitCloses == suffix = "clean" => outcome = "clean" /\ child = "reaped"

\* What the shell writes for a new size never meets an engine still laid out
\* for the old one.
OutputFitsEngine ==
    /\ \A i \in DOMAIN outq : outq[i].size <= gridSize
    /\ reader = "feeding" => chunk.size <= gridSize

\* When the shell goes, the reader notices and says so.
ShellGoneReported == FarEndGone ~> hungUp

\* Closing the window ends, whatever the shell is doing.
ShutDownCompletes == ui = "closing" ~> ui = "closed"

-----------------------------------------------------------------------------
(* What comments say of the program that it does not do.                    *)

\* drawRect: "the engine marks the screen dirty one last time on its way out,
\* so this always runs": once the reader has hung up, the view notices.
HangUpNoticed == hungUp ~> (ended \/ ~running)
=============================================================================

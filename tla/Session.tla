------------------------------ MODULE Session ------------------------------
(***************************************************************************)
(* The synchronised terminal of crates/terminal-core/src/session.rs: one   *)
(* mutex around the emulator, a dirty flag whose clean-to-dirty edge fires *)
(* the wake-up, and a running flag that silences it.  Every thread that    *)
(* changes the screen runs feed or update, then mark_dirty; the UI thread  *)
(* takes frames with render_into.  Each atomic operation and each critical *)
(* section boundary is a step of its own.                                  *)
(*                                                                         *)
(* The wake-up is the frontend's: it posts a block to the main queue,      *)
(* which asks AppKit for a redraw (native/macos/Sources/TerminalView.mm).  *)
(*                                                                         *)
(* What the screen holds is abstracted to two counters, one for each half  *)
(* a change writes and a copy reads: they differ in the middle of a change *)
(* and agree at its end, which is all a torn frame needs to show.          *)
(***************************************************************************)
EXTENDS Integers, FiniteSets

CONSTANTS Threads,      \* the threads that change the screen
          UI,           \* the thread that draws
          NoThread,     \* the holder of a free lock
          MaxChanges,   \* bound: changes made to the screen
          MaxExposes,   \* bound: redraws AppKit asks for by itself
          MaxPanics     \* bound: panics while the lock is held

ASSUME SessionAssumption ==
    /\ IsFiniteSet(Threads)
    /\ UI \notin Threads
    /\ NoThread \notin Threads \cup {UI}
    /\ MaxChanges \in Nat
    /\ MaxExposes \in Nat
    /\ MaxPanics \in Nat

VARIABLES pc,            \* where each thread is in feed or update
          lock,          \* who holds the emulator's mutex
          screen,        \* the emulator: [cells, cursor], changed in that order
          dirty,         \* Shared.dirty
          running,       \* Shared.running
          draw,          \* where the UI thread is in render_into
          frame,         \* the frame it copies into
          posted,        \* wake-up blocks on the main queue
          needsDisplay,  \* AppKit owes the view a drawRect:
          exposes,       \* counts AppKit's own redraws
          panics         \* counts panics

vars == <<pc, lock, screen, dirty, running, draw, frame, posted, needsDisplay,
          exposes, panics>>

Steps == {"idle", "changing", "marking", "checking", "waking", "dead"}
Halves == [cells : Nat, cursor : Nat]

TypeOK ==
    /\ pc \in [Threads -> Steps]
    /\ lock \in Threads \cup {UI, NoThread}
    /\ screen \in Halves
    /\ frame \in Halves
    /\ dirty \in BOOLEAN
    /\ running \in BOOLEAN
    /\ draw \in {"no", "claimed", "copying"}
    /\ posted \in Nat
    /\ needsDisplay \in BOOLEAN
    /\ exposes \in Nat
    /\ panics \in Nat

Init ==
    /\ pc = [t \in Threads |-> "idle"]
    /\ lock = NoThread
    /\ screen = [cells |-> 0, cursor |-> 0]
    /\ frame = [cells |-> 0, cursor |-> 0]
    /\ dirty = FALSE
    /\ running = TRUE
    /\ draw = "no"
    /\ posted = 0
    /\ needsDisplay = FALSE
    /\ exposes = 0
    /\ panics = 0

-----------------------------------------------------------------------------
(* A thread changing the screen: feed, update, resize.                      *)

Goto(t, step) == pc' = [pc EXCEPT ![t] = step]

\* self.lock(), and the first half of what is done under it.  A poisoned lock
\* is taken like any other.
BeginChange(t) ==
    /\ pc[t] = "idle"
    /\ lock = NoThread
    /\ screen.cells < MaxChanges
    /\ lock' = t
    /\ screen' = [screen EXCEPT !.cells = @ + 1]
    /\ Goto(t, "changing")
    /\ UNCHANGED <<dirty, running, draw, frame, posted, needsDisplay, exposes, panics>>

\* Mutant: the guard lives on while mark_dirty and the wake-up run.
FinishChange_GuardLivesOn(t) ==
    /\ pc[t] = "changing"
    /\ screen' = [screen EXCEPT !.cursor = @ + 1]
    /\ Goto(t, "marking")
    /\ UNCHANGED <<lock, dirty, running, draw, frame, posted, needsDisplay, exposes, panics>>

\* The second half; the guard goes out of scope before mark_dirty is called.
FinishChange(t) ==
    /\ pc[t] = "changing"
    /\ screen' = [screen EXCEPT !.cursor = @ + 1]
    /\ lock' = NoThread
    /\ Goto(t, "marking")
    /\ UNCHANGED <<dirty, running, draw, frame, posted, needsDisplay, exposes, panics>>

\* A panic under the lock: unwinding releases it, poisoned, and nothing marks
\* the half-made change dirty.
Panic(t) ==
    /\ pc[t] = "changing"
    /\ panics < MaxPanics
    /\ panics' = panics + 1
    /\ lock' = NoThread
    /\ Goto(t, "dead")
    /\ UNCHANGED <<screen, dirty, running, draw, frame, posted, needsDisplay, exposes>>

\* Mutants: the wake-up on the wrong edge, and on every change.
SwapDirty_WrongEdge(t) ==
    /\ pc[t] = "marking"
    /\ dirty' = TRUE
    /\ Goto(t, IF dirty THEN "checking" ELSE "idle")
    /\ UNCHANGED <<lock, screen, running, draw, frame, posted, needsDisplay, exposes, panics>>

SwapDirty_EveryChange(t) ==
    /\ pc[t] = "marking"
    /\ dirty' = TRUE
    /\ Goto(t, "checking")
    /\ UNCHANGED <<lock, screen, running, draw, frame, posted, needsDisplay, exposes, panics>>

\* mark_dirty: dirty.swap(true), and on to the wake-up on the edge only.
SwapDirty(t) ==
    /\ pc[t] = "marking"
    /\ dirty' = TRUE
    /\ Goto(t, IF dirty THEN "idle" ELSE "checking")
    /\ UNCHANGED <<lock, screen, running, draw, frame, posted, needsDisplay, exposes, panics>>

\* mark_dirty: is_running().
CheckRunning(t) ==
    /\ pc[t] = "checking"
    /\ Goto(t, IF running THEN "waking" ELSE "idle")
    /\ UNCHANGED <<lock, screen, dirty, running, draw, frame, posted, needsDisplay,
                   exposes, panics>>

\* mark_dirty: (wake_up)(), which posts a block to the main queue.
WakeUp(t) ==
    /\ pc[t] = "waking"
    /\ posted' = posted + 1
    /\ Goto(t, "idle")
    /\ UNCHANGED <<lock, screen, dirty, running, draw, frame, needsDisplay, exposes, panics>>

-----------------------------------------------------------------------------
(* The UI thread: the main queue, then render_into.                         *)

\* The posted block: [view setNeedsDisplay:YES].
RunPosted ==
    /\ draw = "no"
    /\ posted > 0
    /\ posted' = posted - 1
    /\ needsDisplay' = TRUE
    /\ UNCHANGED <<pc, lock, screen, dirty, running, draw, frame, exposes, panics>>

\* AppKit wants the view drawn for a reason of its own (exposed, resized, ...).
Expose ==
    /\ draw = "no"
    /\ exposes < MaxExposes
    /\ exposes' = exposes + 1
    /\ needsDisplay' = TRUE
    /\ UNCHANGED <<pc, lock, screen, dirty, running, draw, frame, posted, panics>>

\* drawRect:, up to and including render_into's dirty.swap(false).
ClearDirty ==
    /\ draw = "no"
    /\ needsDisplay
    /\ needsDisplay' = FALSE
    /\ dirty' = FALSE
    /\ draw' = "claimed"
    /\ UNCHANGED <<pc, lock, screen, running, frame, posted, exposes, panics>>

\* Mutant: the copy does not take the lock.
BeginCopy_Unlocked ==
    /\ draw = "claimed"
    /\ frame' = [frame EXCEPT !.cells = screen.cells]
    /\ draw' = "copying"
    /\ UNCHANGED <<pc, lock, screen, dirty, running, posted, needsDisplay, exposes, panics>>

\* The copy, under the lock, one half at a time.
BeginCopy ==
    /\ draw = "claimed"
    /\ lock = NoThread
    /\ lock' = UI
    /\ frame' = [frame EXCEPT !.cells = screen.cells]
    /\ draw' = "copying"
    /\ UNCHANGED <<pc, screen, dirty, running, posted, needsDisplay, exposes, panics>>

\* Mutant: the flag is cleared (again) once the copy is done.
FinishCopy_ClearsAfter ==
    \/ /\ draw = "copying"
       /\ frame' = [frame EXCEPT !.cursor = screen.cursor]
       /\ lock' = NoThread
       /\ draw' = "clearing"
       /\ UNCHANGED <<pc, screen, dirty, running, posted, needsDisplay, exposes, panics>>
    \/ /\ draw = "clearing"
       /\ dirty' = FALSE
       /\ draw' = "no"
       /\ UNCHANGED <<pc, lock, screen, running, frame, posted, needsDisplay, exposes, panics>>

FinishCopy ==
    /\ draw = "copying"
    /\ frame' = [frame EXCEPT !.cursor = screen.cursor]
    /\ lock' = NoThread
    /\ draw' = "no"
    /\ UNCHANGED <<pc, screen, dirty, running, posted, needsDisplay, exposes, panics>>

\* Session::shutdown, by any thread at any moment.
ShutDown ==
    /\ running
    /\ running' = FALSE
    /\ UNCHANGED <<pc, lock, screen, dirty, draw, frame, posted, needsDisplay, exposes, panics>>

-----------------------------------------------------------------------------
ThreadStep(t) ==
    \/ BeginChange(t) \/ FinishChange(t) \/ Panic(t)
    \/ SwapDirty(t) \/ CheckRunning(t) \/ WakeUp(t)

DrawStep == ClearDirty \/ BeginCopy \/ FinishCopy

\* The program has gone quiet and everything it wrote is on the screen: the
\* only state in which nothing is left to happen.
Quiet ==
    /\ \A t \in Threads : pc[t] \in {"idle", "dead"}
    /\ lock = NoThread
    /\ draw = "no" /\ posted = 0 /\ ~needsDisplay
    /\ UNCHANGED vars

Next ==
    \/ \E t \in Threads : ThreadStep(t)
    \/ RunPosted \/ Expose \/ DrawStep
    \/ ShutDown
    \/ Quiet

\* A thread that has begun a change carries it through (a panic is never due,
\* nor is the next change), and the main run loop keeps running.
Fairness ==
    /\ \A t \in Threads :
        /\ WF_vars(FinishChange(t))
        /\ WF_vars(SwapDirty(t))
        /\ WF_vars(CheckRunning(t))
        /\ WF_vars(WakeUp(t))
    /\ WF_vars(RunPosted)
    /\ WF_vars(DrawStep)

Spec == Init /\ [][Next]_vars
FairSpec == Spec /\ Fairness

-----------------------------------------------------------------------------
(* Properties.                                                              *)

\* A frame is never half of one screen and half of another: the copy runs
\* under the lock the change runs under.  After a panic the screen itself may
\* be damaged, which lock() accepts.
NoTornFrame ==
    panics = 0 /\ draw # "copying" => frame.cells = frame.cursor

\* A finished change that is not in the last frame is still on its way there:
\* the flag is set, or about to be, or the UI has claimed it and not copied
\* yet.  This is why render_into clears the flag before it copies.
NoLostChange ==
    frame.cursor # screen.cursor =>
        \/ dirty
        \/ draw # "no"
        \/ \E t \in Threads : pc[t] = "marking"

\* While the session runs, a dirty flag always has a redraw coming: later
\* changes rely on it, because they find the flag set and wake nobody.
WakeUpOwed ==
    dirty /\ running =>
        \/ needsDisplay
        \/ posted > 0
        \/ \E t \in Threads : pc[t] \in {"checking", "waking"}

\* The lock is held by exactly the one thread that is in the middle of a change, or
\* by the UI in the middle of a copy.  A thread that marks the screen and wakes
\* the UI has let go of it ("Outside the lock: the callback may call back into this
\* session", session.rs:133), and one that panicked has too.
LockDiscipline ==
    /\ \A t \in Threads : pc[t] = "changing" <=> lock = t
    /\ draw = "copying" <=> lock = UI

\* The wake-up runs with the lock released, so a callback that re-enters the
\* session cannot deadlock on it.
WakeUpWithoutLock ==
    \A t \in Threads : pc[t] = "waking" => lock # t

\* However many changes are made, the main queue never holds more than one
\* wake-up beyond those that AppKit's own redraws made room for.
QueueBounded == posted <= 1 + exposes

\* The session implements the abstract one: every change made while it runs
\* is eventually in a frame, and every frame is the latest screen.
Promise == INSTANCE LatestFrame
    WITH latest <- screen.cursor, shown <- frame.cursor, live <- running

PromiseKept == Promise!Spec
=============================================================================

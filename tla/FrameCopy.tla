----------------------------- MODULE FrameCopy -----------------------------
(***************************************************************************)
(* The frontend's copy of the screen: FrameBuffers::copy in the glue and   *)
(* terminal_copy_frame behind it, drawRect: and syncTerminalSize around    *)
(* them.  The copy asks once and, when the buffers are too small, grows    *)
(* them and asks again; the reader thread goes on changing the screen in   *)
(* between, and the window its size.                                       *)
(*                                                                         *)
(* Session shows the locking of one render_into; here a call is two steps, *)
(* the flag cleared and then the copy.  A frame needs room for runs and    *)
(* for text, each a small number.                                          *)
(***************************************************************************)
EXTENDS Integers, FiniteSets

CONSTANTS Grids,        \* the grids the window's bounds can come to
          MaxNeed,      \* bound: the room a frame needs, of either kind
          MaxOutputs,   \* bound: chunks of output
          MaxResizes    \* bound: times the window's bounds change

ASSUME FrameCopyAssumption ==
    /\ Grids # {} /\ MaxNeed \in Nat /\ MaxOutputs \in Nat /\ MaxResizes \in Nat

VARIABLES
    screen,       \* the engine's: [version, grid, need]
    thread,       \* the reader thread: "idle", "marking"
    dirty,        \* Shared.dirty
    posted,       \* wake-ups on the main queue
    needsDisplay, \* the view's flag
    bounds,       \* the grid the window's bounds come to
    draw,         \* drawRect: "no", "clearing" or "copying"
    attempt,      \* which of the two calls it is in
    caps,         \* the sizes of the buffers
    contents,     \* the version and need of the frame in the buffers
    info,         \* info_: the info of the last good copy
    glass,        \* the version on display, or Blank
    resizes

copyVars == <<screen, thread, dirty, posted, needsDisplay, bounds, draw, attempt, caps,
              contents, info, glass, resizes>>

Blank == -1
NoGrid == "0x0"
Needs == [runs : 0 .. MaxNeed, text : 0 .. MaxNeed]
Nothing == [runs |-> 0, text |-> 0]
NoFrame == [version |-> Blank, grid |-> NoGrid, need |-> Nothing]
MaxVersion == MaxOutputs + MaxResizes

CopyTypeOK ==
    /\ screen \in [version : 0 .. MaxVersion, grid : Grids, need : Needs]
    /\ thread \in {"idle", "marking"} /\ dirty \in BOOLEAN
    /\ posted \in Nat /\ needsDisplay \in BOOLEAN
    /\ bounds \in Grids
    /\ draw \in {"no", "clearing", "copying"} /\ attempt \in {1, 2}
    /\ caps \in Needs
    /\ {info, contents} \subseteq
            [version : 0 .. MaxVersion, grid : Grids, need : Needs] \cup {NoFrame}
    /\ glass \in Blank .. MaxVersion /\ resizes \in 0 .. MaxResizes

\* startSession: the engine begins at the window's grid, and AppKit draws a new
\* view by itself.
CopyInit ==
    /\ bounds \in Grids
    /\ screen = [version |-> 0, grid |-> bounds, need |-> Nothing]
    /\ thread = "idle" /\ dirty = FALSE /\ posted = 0 /\ needsDisplay = TRUE
    /\ draw = "no" /\ attempt = 1
    /\ caps = Nothing /\ contents = NoFrame /\ info = NoFrame
    /\ glass = Blank /\ resizes = 0

-----------------------------------------------------------------------------
(* The reader thread.                                                       *)

Output ==
    /\ thread = "idle"
    /\ screen.version - resizes < MaxOutputs
    /\ \E need \in Needs : screen' = [screen EXCEPT !.version = @ + 1, !.need = need]
    /\ thread' = "marking"
    /\ UNCHANGED <<dirty, posted, needsDisplay, bounds, draw, attempt, caps, contents, info,
                   glass, resizes>>

\* mark_dirty: only the edge wakes the UI.
Mark ==
    /\ thread = "marking"
    /\ thread' = "idle"
    /\ dirty' = TRUE
    /\ posted' = IF dirty THEN posted ELSE posted + 1
    /\ UNCHANGED <<screen, needsDisplay, bounds, draw, attempt, caps, contents, info, glass,
                   resizes>>

-----------------------------------------------------------------------------
(* The main thread.                                                         *)

RunPosted ==
    /\ draw = "no" /\ posted > 0
    /\ posted' = posted - 1
    /\ needsDisplay' = TRUE
    /\ UNCHANGED <<screen, thread, dirty, bounds, draw, attempt, caps, contents, info, glass,
                   resizes>>

\* syncTerminalSize: nothing unless the grid differs from the last good frame's.
\* The engine is resized and marks itself, and the view is marked as well.
SyncTerminalSize(grid) ==
    IF grid = info.grid THEN UNCHANGED <<screen, dirty, posted, needsDisplay>>
    ELSE /\ \E need \in Needs :
              screen' = [version |-> screen.version + 1, grid |-> grid, need |-> need]
         /\ dirty' = TRUE
         /\ posted' = IF dirty THEN posted ELSE posted + 1
         /\ needsDisplay' = TRUE

\* setFrameSize:, zoomBy: and resetZoom.
BoundsChange ==
    /\ draw = "no"
    /\ resizes < MaxResizes
    /\ \E grid \in Grids \ {bounds} : bounds' = grid /\ SyncTerminalSize(grid)
    /\ resizes' = resizes + 1
    /\ UNCHANGED <<thread, draw, attempt, caps, contents, info, glass>>

\* drawRect: begins the first call.
BeginDraw ==
    /\ draw = "no" /\ needsDisplay
    /\ needsDisplay' = FALSE
    /\ draw' = "clearing" /\ attempt' = 1
    /\ UNCHANGED <<screen, thread, dirty, posted, bounds, caps, contents, info, glass, resizes>>

\* Mutant: the second call clears the flag, the first one leaves it.
ClearDirty_SecondOnly ==
    /\ draw = "clearing"
    /\ dirty' = IF attempt = 1 THEN dirty ELSE FALSE
    /\ draw' = "copying"
    /\ UNCHANGED <<screen, thread, posted, needsDisplay, bounds, attempt, caps, contents, info,
                   glass, resizes>>

\* render_into swaps the flag,
ClearDirty ==
    /\ draw = "clearing"
    /\ dirty' = FALSE
    /\ draw' = "copying"
    /\ UNCHANGED <<screen, thread, posted, needsDisplay, bounds, attempt, caps, contents, info,
                   glass, resizes>>

Fits(need, room) == need.runs <= room.runs /\ need.text <= room.text
Larger(m, n) == IF m < n THEN n ELSE m

\* Mutants: the buffers grow by what is needed, only the text's buffer grows.
Grown_By(room, need) == [runs |-> room.runs + need.runs, text |-> room.text + need.text]
Grown_TextOnly(room, need) == [room EXCEPT !.text = Larger(@, need.text)]

\* Growth is one-way, and each buffer's own.
Grown(room, need) ==
    [runs |-> Larger(room.runs, need.runs), text |-> Larger(room.text, need.text)]

\* then it copies: everything, if there is room,
CopyFits ==
    /\ draw = "copying"
    /\ Fits(screen.need, caps)
    /\ contents' = screen /\ info' = screen
    /\ glass' = screen.version
    /\ draw' = "no"
    /\ UNCHANGED <<screen, thread, dirty, posted, needsDisplay, bounds, attempt, caps, resizes>>

\* or nothing but the sizes: the first call grows the buffers and asks again,
CopyTooSmall ==
    /\ draw = "copying" /\ attempt = 1
    /\ ~Fits(screen.need, caps)
    /\ caps' = Grown(caps, screen.need)
    /\ attempt' = 2 /\ draw' = "clearing"
    /\ UNCHANGED <<screen, thread, dirty, posted, needsDisplay, bounds, contents, info, glass,
                   resizes>>

\* Mutant: the sizes of a failed copy are kept.
CopyFails_KeepsInfo ==
    /\ draw = "copying" /\ attempt = 2
    /\ ~Fits(screen.need, caps)
    /\ info' = screen
    /\ glass' = Blank
    /\ draw' = "no"
    /\ UNCHANGED <<screen, thread, dirty, posted, needsDisplay, bounds, attempt, caps, contents,
                   resizes>>

\* the second gives up, over a background already cleared.
CopyFails ==
    /\ draw = "copying" /\ attempt = 2
    /\ ~Fits(screen.need, caps)
    /\ glass' = Blank
    /\ draw' = "no"
    /\ UNCHANGED <<screen, thread, dirty, posted, needsDisplay, bounds, attempt, caps, contents,
                   info, resizes>>

MainThread == RunPosted \/ BeginDraw \/ ClearDirty \/ CopyFits \/ CopyTooSmall \/ CopyFails

CopyNext == Output \/ Mark \/ BoundsChange \/ MainThread

\* Both threads are scheduled; the main queue and AppKit's draws are served.
CopySpec == CopyInit /\ [][CopyNext]_copyVars /\ WF_copyVars(Mark) /\ WF_copyVars(MainThread)
-----------------------------------------------------------------------------

\* What the view draws from is one whole frame within its buffers: run_count and
\* the lengths belong to the bytes that are there, after failed copies too.
BuffersWhole == contents = info /\ Fits(info.need, caps)

\* A copy that fails twice leaves an empty window only until the next redraw,
\* which is on its way already: the output that outgrew the buffers between
\* the two calls found the flag cleared.
FailureIsRetried ==
    glass # screen.version =>
        \/ needsDisplay \/ posted > 0 \/ draw # "no" \/ thread = "marking"

\* Once the shell and the window are at rest the window shows the screen.
Settles == <>[](glass = screen.version)

\* Once they are at rest the engine's grid is the window's (syncTerminalSize:
\* told "only when the grid actually changed").
GridFollowsWindow == <>[](screen.grid = bounds)
=============================================================================

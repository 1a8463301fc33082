------------------------------ MODULE Boundary ------------------------------
(***************************************************************************)
(* The C boundary and the one who calls it: terminal-ffi/src/lib.rs behind *)
(* glue::Session, driven by the life of the window in TerminalView and     *)
(* AppDelegate.  The main thread starts a session, asks for its title      *)
(* twice a second, asks how the shell ended whenever it draws, and frees   *)
(* the session once; the reader thread changes the title, hangs up or      *)
(* panics in between.                                                      *)
(*                                                                         *)
(* Every call into a live session can panic.  The hook notes where, and    *)
(* guard, a step later, makes a status and an error text of it.  Locking,  *)
(* wake-ups and the shutdown inside terminal_destroy are modelled in       *)
(* Session and Terminal, the copy of a frame in FrameCopy.                 *)
(***************************************************************************)
EXTENDS Spawn, Integers

CONSTANTS Configs,    \* what the frontend may ask for
          MaxTitles,  \* bound: titles the program sets
          MaxLen,     \* bound: the length of a title
          MaxPanics   \* bound: panics, of both threads

ASSUME BoundaryAssumption ==
    /\ MaxTitles \in Nat /\ MaxLen \in Nat /\ MaxPanics \in Nat
    /\ \A c \in Configs : /\ c.args \in Seq(STRING)
                          /\ c.env \in Seq([key : STRING, value : STRING])

VARIABLES
    config,     \* what this frontend asks for
    main,       \* the call the main thread is in, or where it is between calls
    handle,     \* Session::handle_ is not null
    session,    \* the boxed TerminalSession: "none", "live", "freed"
    freed,      \* times it was freed
    shell,      \* what the shell was started with, <<>> for none
    child,      \* the shell's life
    reader,     \* the reader thread's life
    title,      \* Screen.title: [id, len]
    lastError,  \* LAST_ERROR: [about, panic, place]
    place,      \* PANIC_LOCATION: the panic it was noted for
    panics,     \* panics so far
    caught,     \* the call that is unwinding, and its panic
    asked,      \* the length the first title call gave
    caller,     \* who asked for the title: "tick" or "draw"
    ended,      \* the view's _hungUp
    suffix,     \* the view's _titleSuffix; "noShell" for AppDelegate's own
    overlay,    \* the view's _overlay: what the error in it is about
    shown,      \* the window's title: [title, suffix]
    open        \* the window is open

engineVars == <<session, freed, shell, child, reader, title>>
errorVars == <<lastError, place, panics, caught>>
titleCall == <<asked, caller>>
viewVars == <<ended, suffix, overlay, shown, open>>
vars == <<config, main, handle, engineVars, errorVars, titleCall, viewVars>>

\* lastEngineError over terminal_copy_last_error; only the main thread sets it.
LastEngineError == lastError.about

AppName == -1       \* "Crustty", what is shown without a title
Calls == {"titleLength", "title", "status", "frame", "send"}
TitleSuffixes == {"none", "failed", "disconnected", "noShell"}
NoError == [about |-> "nothing", panic |-> 0, place |-> 0]
Error(about) == [about |-> about, panic |-> 0, place |-> 0]

TypeOK ==
    /\ config \in Configs
    /\ main \in Calls \cup {"launching", "spawning", "idle", "unwinding", "terminated"}
    /\ handle \in BOOLEAN /\ session \in {"none", "live", "freed"} /\ freed \in Nat
    /\ child \in {"none", "running", "clean", "failed", "abandoned", "reaped"}
    /\ reader \in {"none", "reading", "hungUp", "panicked", "joined"}
    /\ title \in [id : 0 .. MaxTitles, len : 0 .. MaxLen]
    /\ lastError \in [about : {"nothing", "logging", "create", "panic"}, panic : Nat, place : Nat]
    /\ place \in Nat /\ panics \in 0 .. MaxPanics
    /\ caught \in [call : Calls, panic : Nat]
    /\ asked \in 0 .. MaxLen /\ caller \in {"tick", "draw"}
    /\ ended \in BOOLEAN /\ open \in BOOLEAN
    /\ suffix \in TitleSuffixes /\ shown \in [title : AppName .. MaxTitles, suffix : TitleSuffixes]
    /\ overlay \in {"nothing", "logging", "create", "panic"}

Init ==
    /\ config \in Configs
    /\ main = "launching" /\ handle = FALSE
    /\ session = "none" /\ freed = 0 /\ shell = <<>> /\ child = "none" /\ reader = "none"
    /\ title = [id |-> 0, len |-> 0]
    /\ lastError = NoError /\ place = 0 /\ panics = 0
    /\ caught = [call |-> "send", panic |-> 0]
    /\ asked = 0 /\ caller = "tick"
    /\ ended = FALSE /\ suffix = "none" /\ overlay = "nothing"
    /\ shown = [title |-> AppName, suffix |-> "none"] /\ open = TRUE

-----------------------------------------------------------------------------
(* startSession.                                                            *)

\* terminal_init_logging, when there is a directory to log to: it may not be
\* one that can be written.  The status is not looked at.
InitLogging ==
    /\ main = "launching"
    /\ main' = "spawning"
    /\ lastError' \in {lastError, Error("logging")}
    /\ UNCHANGED <<config, handle, engineVars, place, panics, caught, titleCall, viewVars>>

\* A session that did not start: the view shows what the engine said last (a
\* Debug build), AppDelegate says it in the title and sets no timer.
NoShell(error) ==
    /\ main' = "idle" /\ lastError' = error
    /\ ended' = TRUE /\ suffix' = "noShell" /\ overlay' = LastEngineError'
    /\ shown' = [title |-> AppName, suffix |-> "noShell"]
    /\ UNCHANGED <<config, handle, session, freed, reader, title, panics, caught, titleCall, open>>

\* terminal_create refuses, and says nothing.
CreateRefused ==
    /\ main = "spawning"
    /\ ~Usable(config)
    /\ NoShell(lastError)
    /\ UNCHANGED <<place, shell, child>>

\* It cannot start the shell; or it can, and then has no descriptor or thread to
\* read it with: the pty is dropped, which hangs the shell up without reaping it.
CreateFails ==
    /\ main = "spawning"
    /\ Usable(config)
    /\ child' \in {"none", "abandoned"}
    /\ NoShell(Error("create"))
    /\ UNCHANGED <<place, shell>>

Create ==
    /\ main = "spawning"
    /\ Usable(config)
    /\ main' = "idle"
    /\ handle' = TRUE /\ session' = "live"
    /\ shell' = Started(config, Inherited)
    /\ child' = "running" /\ reader' = "reading"
    /\ UNCHANGED <<config, freed, title, errorVars, titleCall, viewVars>>

-----------------------------------------------------------------------------
(* The reader thread and the shell.                                         *)

\* OSC 0 or 2, in a chunk it feeds.
SetTitle ==
    /\ reader = "reading"
    /\ title.id < MaxTitles
    /\ \E len \in 0 .. MaxLen : title' = [id |-> title.id + 1, len |-> len]
    /\ UNCHANGED <<config, main, handle, session, freed, shell, child, reader, errorVars,
                   titleCall, viewVars>>

ShellEnds ==
    /\ child = "running"
    /\ child' \in {"clean", "failed"}
    /\ UNCHANGED <<config, main, handle, session, freed, shell, reader, title, errorVars,
                   titleCall, viewVars>>

\* The last thing it does; also when a read or a reply fails.
ReaderHangsUp ==
    /\ reader = "reading"
    /\ reader' = "hungUp"
    /\ UNCHANGED <<config, main, handle, session, freed, shell, child, title, errorVars,
                   titleCall, viewVars>>

\* Nothing catches it: the thread is gone, without a word.
ReaderPanics ==
    /\ reader = "reading"
    /\ panics < MaxPanics
    /\ panics' = panics + 1
    /\ place' = panics + 1
    /\ reader' = "panicked"
    /\ UNCHANGED <<config, main, handle, session, freed, shell, child, title, lastError, caught,
                   titleCall, viewVars>>

-----------------------------------------------------------------------------
(* windowTitle: one call for the length, one for the bytes.                 *)

\* The timer's block.
Tick ==
    /\ main = "idle"
    /\ open /\ suffix # "noShell"
    /\ caller' = "tick"
    /\ IF handle
       THEN main' = "titleLength" /\ UNCHANGED shown
       ELSE shown' = [title |-> AppName, suffix |-> suffix] /\ UNCHANGED main
    /\ UNCHANGED <<config, handle, engineVars, errorVars, asked, ended, suffix, overlay, open>>

\* The window is given a title; a redraw then goes on to the frame.
SetWindowTitle(text) ==
    /\ shown' = text
    /\ main' = IF caller = "tick" THEN "idle" ELSE "frame"

Untitled == [title |-> AppName, suffix |-> suffix]

\* Mutant: the length includes a terminating zero.
TitleLength_Terminated ==
    /\ main = "titleLength"
    /\ asked' = title.len + 1
    /\ main' = "title"
    /\ UNCHANGED <<config, handle, engineVars, errorVars, caller, ended, suffix, overlay, shown,
                   open>>

\* Mutant: a title of the length of the last one is taken for it.
TitleLength_SameLength ==
    /\ main = "titleLength"
    /\ asked' = title.len
    /\ IF title.len = asked
       THEN SetWindowTitle(shown)
       ELSE main' = "title" /\ UNCHANGED shown
    /\ UNCHANGED <<config, handle, engineVars, errorVars, caller, ended, suffix, overlay, open>>

TitleLength ==
    /\ main = "titleLength"
    /\ asked' = title.len
    /\ IF title.len = 0
       THEN SetWindowTitle(Untitled)
       ELSE main' = "title" /\ UNCHANGED shown
    /\ UNCHANGED <<config, handle, engineVars, errorVars, caller, ended, suffix, overlay, open>>

\* A title that has grown is not copied.  One that has shrunk leaves the buffer
\* zeros at the end, where the C string stops: before the suffix.
Title ==
    /\ main = "title"
    /\ SetWindowTitle(CASE title.len > asked -> Untitled
                        [] title.len = asked -> [title |-> title.id, suffix |-> suffix]
                        [] title.len < asked -> [title |-> title.id, suffix |-> "none"])
    /\ UNCHANGED <<config, handle, engineVars, errorVars, titleCall, ended, suffix, overlay, open>>

-----------------------------------------------------------------------------
(* drawRect:, and the other calls.                                          *)

Draw ==
    /\ main = "idle"
    /\ open /\ handle
    /\ main' = IF ended THEN "frame" ELSE "status"
    /\ UNCHANGED <<config, handle, engineVars, errorVars, titleCall, viewVars>>

\* terminal_destroy: the reader joined and the shell reaped first, as in Terminal.
Destroy ==
    /\ session' = "freed" /\ freed' = freed + 1
    /\ child' = "reaped" /\ reader' = "joined"

\* Mutant: the handle is kept.
Close_KeepsHandle ==
    /\ IF handle THEN Destroy ELSE UNCHANGED <<session, freed, child, reader>>
    /\ UNCHANGED <<config, handle, shell, title, errorVars, titleCall, ended, overlay, shown>>

\* Session::close.
Close ==
    /\ handle' = FALSE
    /\ IF handle THEN Destroy ELSE UNCHANGED <<session, freed, child, reader>>
    /\ UNCHANGED <<config, shell, title, errorVars, titleCall, ended, overlay, shown>>

\* terminal_child_status while there is more to come.
StatusRunning ==
    /\ main = "status"
    /\ reader # "hungUp"
    /\ main' = "frame"
    /\ UNCHANGED <<config, handle, engineVars, errorVars, titleCall, viewVars>>

\* checkChildStatus on the ordinary end: present_exit has the window closed, and
\* windowWillClose the session with it.
StatusClean ==
    /\ main = "status"
    /\ reader = "hungUp" /\ child = "clean"
    /\ main' = "idle"
    /\ handle' = FALSE /\ Destroy
    /\ ended' = TRUE /\ overlay' = "nothing" /\ open' = FALSE
    /\ UNCHANGED <<config, shell, title, errorVars, titleCall, suffix, shown>>

\* Mutant: the new title is left to the timer.
StatusTrouble_NoTitle ==
    /\ main = "status"
    /\ reader = "hungUp" /\ child # "clean"
    /\ ended' = TRUE
    /\ suffix' = IF child = "failed" THEN "failed" ELSE "disconnected"
    /\ overlay' = LastEngineError
    /\ main' = "frame" /\ caller' = "draw"
    /\ UNCHANGED <<config, handle, engineVars, errorVars, asked, shown, open>>

\* On any other end, the title says which; a Debug build says what went wrong.
StatusTrouble ==
    /\ main = "status"
    /\ reader = "hungUp" /\ child # "clean"
    /\ ended' = TRUE
    /\ suffix' = IF child = "failed" THEN "failed" ELSE "disconnected"
    /\ overlay' = LastEngineError
    /\ main' = "titleLength" /\ caller' = "draw"
    /\ UNCHANGED <<config, handle, engineVars, errorVars, asked, shown, open>>

\* terminal_copy_frame.
Frame ==
    /\ main = "frame"
    /\ main' = "idle"
    /\ UNCHANGED <<config, handle, engineVars, errorVars, titleCall, viewVars>>

\* A key, text, a paste or a resize.
Input ==
    /\ main = "idle"
    /\ open /\ ~ended /\ handle
    /\ main' = "send"
    /\ UNCHANGED <<config, handle, engineVars, errorVars, titleCall, viewVars>>

Send ==
    /\ main = "send"
    /\ main' = "idle"
    /\ UNCHANGED <<config, handle, engineVars, errorVars, titleCall, viewVars>>

\* windowWillClose.
CloseWindow ==
    /\ main = "idle" /\ open
    /\ open' = FALSE
    /\ Close
    /\ UNCHANGED <<main, suffix>>

\* applicationWillTerminate, which closes what may be closed already.
Terminate ==
    /\ main = "idle"
    /\ main' = "terminated"
    /\ Close
    /\ UNCHANGED <<open, suffix>>

-----------------------------------------------------------------------------
(* A panic in a call.                                                       *)

\* Mutant: the hook notes the first panic only.
PanicInCall_FirstPlace ==
    /\ main \in Calls
    /\ panics < MaxPanics
    /\ panics' = panics + 1
    /\ place' = IF place = 0 THEN panics + 1 ELSE place
    /\ caught' = [call |-> main, panic |-> panics + 1]
    /\ main' = "unwinding"
    /\ UNCHANGED <<config, handle, engineVars, lastError, titleCall, viewVars>>

\* The hook runs where the panic is; PANIC_LOCATION is everybody's.
PanicInCall ==
    /\ main \in Calls
    /\ panics < MaxPanics
    /\ panics' = panics + 1
    /\ place' = panics + 1
    /\ caught' = [call |-> main, panic |-> panics + 1]
    /\ main' = "unwinding"
    /\ UNCHANGED <<config, handle, engineVars, lastError, titleCall, viewVars>>

\* guard and describe_panic: the call returns Panicked, and its caller goes on as
\* from any other failure.
Caught ==
    /\ main = "unwinding"
    /\ lastError' = [about |-> "panic", panic |-> caught.panic, place |-> place]
    /\ CASE caught.call \in {"titleLength", "title"} -> SetWindowTitle(Untitled)
         [] caught.call = "status"                  -> main' = "frame" /\ UNCHANGED shown
         [] caught.call \in {"frame", "send"}       -> main' = "idle" /\ UNCHANGED shown
    /\ UNCHANGED <<config, handle, engineVars, place, panics, caught, titleCall, ended, suffix,
                   overlay, open>>

-----------------------------------------------------------------------------

\* What the main thread has begun it finishes.
Main ==
    \/ InitLogging \/ CreateRefused \/ CreateFails \/ Create
    \/ TitleLength \/ Title \/ StatusRunning \/ StatusClean \/ StatusTrouble
    \/ Frame \/ Send \/ Caught

\* What may happen, and need not.
Event ==
    \/ SetTitle \/ ShellEnds \/ ReaderHangsUp \/ ReaderPanics
    \/ Draw \/ Input \/ CloseWindow \/ Terminate \/ PanicInCall

Next == Main \/ Event \/ Tick

\* The run loop fires a timer that is due, however much there is to draw.
Spec == Init /\ [][Next]_vars /\ WF_vars(Main) /\ SF_vars(Tick)

-----------------------------------------------------------------------------

\* A view that has stopped taking input shows why, in the same redraw: the title
\* was copied in two calls, of which either may have panicked.
EndIsShown ==
    main = "idle" /\ ended /\ open => suffix # "none" /\ shown.suffix = suffix

\* A call is only made into a live session, and terminal_destroy is called once,
\* whichever of the window, the shell and the application ends first.
OwnedOnce ==
    /\ main \in Calls \cup {"unwinding"} => session = "live"
    /\ freed = (IF session = "freed" THEN 1 ELSE 0)
    /\ main = "terminated" => session # "live"

\* What the shell finds in `name`: the caller's last word, or the engine's, or
\* what the app was started with.
Told(name) ==
    LET told == {i \in DOMAIN config.env : config.env[i].key = name}
    IN  CASE told # {}                                       -> config.env[Max(told)].value
          [] told = {} /\ name = "TERM"                      -> DefaultTerm
          [] told = {} /\ name = "COLORTERM"                 -> DefaultColorTerm
          [] told = {} /\ name \notin {"TERM", "COLORTERM"} -> Inherited[name]

\* A shell is started with all of the configuration or not at all, and what
\* keeps it from starting is on screen when the engine had anything to say.
StartTold ==
    /\ shell # <<>> =>
          /\ \A i \in DOMAIN config.env : config.env[i].key \in DOMAIN shell.env \ {""}
          /\ \A name \in DOMAIN shell.env : shell.env[name] = Told(name)
          /\ {"TERM", "COLORTERM"} \subseteq DOMAIN shell.env
          /\ NullBytes \notin {shell.program, shell.cwd} \cup Range(shell.args)
          /\ shell.rows > 0 /\ shell.cols > 0
    /\ suffix = "noShell" =>
          /\ session = "none" /\ shell = <<>> /\ child \in {"none", "abandoned"}
          /\ Usable(config) => overlay = "create"

\* The place an error text names is never that of a panic before the one it tells
\* of.  It may be a later one's: the reader's, between the hook and the text.
PlaceNotStale == lastError.about = "panic" => lastError.place >= lastError.panic

\* The window ends up with the title the program last set.
TitleSettles ==
    <>[](\/ ~handle
         \/ shown = [title |-> IF title.len = 0 THEN AppName ELSE title.id, suffix |-> suffix])
=============================================================================

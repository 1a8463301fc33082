--------------------------- MODULE TerminalProofs ---------------------------
(***************************************************************************)
(* Proofs about Terminal for any bounds, queues and shell.                 *)
(*                                                                         *)
(* Where the reader and the main thread are in their own loops tells where *)
(* they are in the session (Positions), and once the reader is joined it   *)
(* stays stopped (Joined): nothing is left that could change the session.  *)
(* The kernel's size for the pty never runs ahead of the engine's, which   *)
(* bounds whatever the shell writes for it (SizesOrdered).                 *)
(***************************************************************************)
EXTENDS Terminal, TLAPS

\* A thread is inside the session only where its own loop says so.
Positions ==
    /\ reader \notin {"fed", "farewelled"} => pc[Reader] = "idle"
    /\ pc[Reader] \in {"idle", "changing", "marking", "checking", "waking"}
    /\ CASE ui = "resizing" -> pc[Resizer] = "changing"
         [] ui = "resized" -> pc[Resizer] \in {"marking", "checking", "waking"}
         [] ui \notin {"resizing", "resized"} -> pc[Resizer] = "idle"
    /\ draw # "no" => ui = "copying"

\* From the join on there is no reader.
Joined == ui \in {"hangingUp", "grace", "waiting", "closed"} => reader = "stopped"

\* The engine is told of a size before the kernel is, and the last resize had room.
SizesOrdered == winSize <= gridSize /\ (ui = "resizing" => gridSize < MaxEvents)

Inv ==
    /\ TypeOK /\ Positions /\ Joined /\ SizesOrdered
    /\ NoOrphan /\ OnlyCleanExitCloses /\ OutputFitsEngine

\* What a step of the terminal does to its session.
SessionStep ==
    \/ \E t \in {Reader, Resizer} :
          S!BeginChange(t) \/ S!FinishChange(t) \/ S!SwapDirty(t) \/ S!CheckRunning(t) \/ S!WakeUp(t)
    \/ S!RunPosted \/ S!Expose \/ S!DrawStep \/ S!ShutDown
    \/ /\ needsDisplay' = TRUE
       /\ UNCHANGED <<pc, lock, screen, dirty, running, draw, frame, posted, exposes, panics>>
    \/ UNCHANGED sessionVars

-----------------------------------------------------------------------------
\* Every step of the terminal is a step of the session, or leaves it alone, or
\* asks for a redraw.
LEMMA StepOfSession == [Next]_vars => SessionStep
<1> SUFFICES ASSUME [Next]_vars PROVE SessionStep
  OBVIOUS
<1> USE DEF SessionStep
<1>1. CASE Shell  BY <1>1 DEF Shell, ShellWrite, ShellRead, ShellEnd, ShellReapable
<1>2. CASE ReaderStep
  BY <1>2 DEF ReaderStep, ReadChunk, ReadNothing, Feed, Fed, Reply, HangUp, Farewell, Stop, InSession
<1>3. CASE MainStep
  <2>1. CASE RunPosted \/ Draw \/ Silence  BY <2>1 DEF RunPosted, Draw, Silence
  <2>2. CASE ResizeEngine \/ ResizeMarked  BY <2>2 DEF ResizeEngine, ResizeMarked
  <2>3. CASE ResizePty  BY <2>3 DEF ResizePty
  <2>4. CASE UNCHANGED sessionVars  BY <2>4
  <2> QED
    BY <1>3, <2>1, <2>2, <2>3, <2>4 DEF MainStep, DrawRect, AskHungUp, AskOutcome, WriteKey,
       Interrupt, Join, HangUpChild, ReapInTime, Kill, ReapKilled
<1>4. CASE User  BY <1>4 DEF User, Expose, PressKey, BeginResize, CloseWindow
<1>5. CASE UNCHANGED vars  BY <1>5 DEF vars
<1> QED  BY <1>1, <1>2, <1>3, <1>4, <1>5 DEF Next, Closed

\* The session's types are kept.
LEMMA SessionTypes == S!TypeOK /\ SessionStep => S!TypeOK'
<1> SUFFICES ASSUME S!TypeOK, SessionStep PROVE S!TypeOK'
  OBVIOUS
<1> USE DEF S!TypeOK, S!Steps, S!Halves, S!Goto
<1>1. ASSUME NEW t \in {Reader, Resizer}, S!BeginChange(t) PROVE S!TypeOK'
  BY <1>1 DEF S!BeginChange
<1>2. ASSUME NEW t \in {Reader, Resizer}, S!FinishChange(t) PROVE S!TypeOK'
  BY <1>2 DEF S!FinishChange
<1>3. ASSUME NEW t \in {Reader, Resizer}, S!SwapDirty(t) PROVE S!TypeOK'
  BY <1>3 DEF S!SwapDirty
<1>4. ASSUME NEW t \in {Reader, Resizer}, S!CheckRunning(t) PROVE S!TypeOK'
  BY <1>4 DEF S!CheckRunning
<1>5. ASSUME NEW t \in {Reader, Resizer}, S!WakeUp(t) PROVE S!TypeOK'
  BY <1>5 DEF S!WakeUp
<1>6. CASE S!RunPosted \/ S!Expose \/ S!ShutDown
  <2>1. CASE S!RunPosted  BY <2>1 DEF S!RunPosted
  <2>2. CASE S!Expose  BY <2>2 DEF S!Expose
  <2>3. CASE S!ShutDown  BY <2>3 DEF S!ShutDown
  <2> QED  BY <1>6, <2>1, <2>2, <2>3
<1>7. CASE S!DrawStep  BY <1>7 DEF S!DrawStep, S!ClearDirty, S!BeginCopy, S!FinishCopy
<1>8. CASE /\ needsDisplay' = TRUE
           /\ UNCHANGED <<pc, lock, screen, dirty, running, draw, frame, posted, exposes, panics>>
  BY <1>8
<1>9. CASE UNCHANGED sessionVars  BY <1>9 DEF sessionVars
<1> QED  BY <1>1, <1>2, <1>3, <1>4, <1>5, <1>6, <1>7, <1>8, <1>9 DEF SessionStep

\* Reading takes a member off a queue and leaves a queue.
LEMMA HeadAndTail ==
    ASSUME NEW C, NEW queue \in Seq(C), queue # <<>>
    PROVE  Head(queue) \in C /\ Tail(queue) \in Seq(C) /\ Len(Tail(queue)) = Len(queue) - 1
  OBVIOUS

\* What is in the queue has a size.
LEMMA QueuedSizes ==
    ASSUME NEW queue \in Seq(Chunks), NEW i \in DOMAIN queue
    PROVE  queue[i].size \in 0 .. MaxEvents
<1>1. queue[i] \in Chunks  OBVIOUS
<1> QED  BY <1>1 DEF Chunks

\* The terminal's own types are kept, and with them the room for a resize.
LEMMA TypeStep == Inv /\ [Next]_vars => (TypeOK /\ SizesOrdered)'
<1> SUFFICES ASSUME Inv, [Next]_vars PROVE (TypeOK /\ SizesOrdered)'
  OBVIOUS
<1> USE TerminalAssumption, StepOfSession, SessionTypes DEF TerminalAssumption, Inv, TypeOK, SizesOrdered, Chunks, sessionVars, readerVars, uiVars, shellVars, queueVars, sizeVars
<1>1. CASE ShellWrite  BY <1>1 DEF ShellWrite
<1>2. CASE ShellRead  BY <1>2 DEF ShellRead
<1>3. CASE ShellEnd  BY <1>3 DEF ShellEnd
<1>4. CASE ShellReapable  BY <1>4 DEF ShellReapable
<1>5. CASE ReadChunk
  <2>1. chunk' \in Chunks /\ outq' \in Seq(Chunks) /\ Len(outq') <= OutCap
    <3>1. outq \in Seq(Chunks) /\ outq # <<>>  BY <1>5 DEF ReadChunk
    <3>2. Head(outq) \in Chunks /\ Tail(outq) \in Seq(Chunks) /\ Len(Tail(outq)) = Len(outq) - 1
      <4> HIDE DEF Inv, TypeOK, Chunks
      <4> QED  BY <3>1, HeadAndTail
    <3>3. Len(outq) \in Nat  BY <3>1
    <3> QED  BY <1>5, <3>2, <3>3 DEF ReadChunk
  <2> HIDE DEF Chunks
  <2> QED  BY <1>5, <2>1 DEF ReadChunk
<1>6. CASE ReadNothing  BY <1>6 DEF ReadNothing
<1>7. CASE Feed  BY <1>7 DEF Feed
<1>8. CASE Fed  BY <1>8 DEF Fed
<1>9. CASE Reply
  <2>1. inq' \in 0 .. InCap
    <3>1. CASE FarEndGone  BY <1>9, <3>1 DEF Reply, Written
    <3>2. CASE ~ FarEndGone
      <4>1. inq' = inq + 1 /\ inq < InCap  BY <1>9, <3>2 DEF Reply, Written, CanWrite
      <4> QED  BY <4>1
    <3> QED  BY <3>1, <3>2
  <2> QED  BY <1>9, <2>1 DEF Reply
<1>10. CASE HangUp  BY <1>10 DEF HangUp
<1>11. CASE Farewell  BY <1>11 DEF Farewell
<1>12. CASE Stop  BY <1>12 DEF Stop
<1>13. CASE InSession  BY <1>13 DEF InSession
<1>14. CASE RunPosted  BY <1>14 DEF RunPosted
<1>15. CASE DrawRect  BY <1>15 DEF DrawRect
<1>16. CASE AskHungUp  BY <1>16 DEF AskHungUp
<1>17. CASE AskOutcome
  <2>1. child' \in {"running", "gone", "zombie", "reaped"}
    <3>1. child' \in {child, "reaped"}  BY Zenon, <1>17 DEF AskOutcome, Reap
    <3> QED  BY <3>1
  <2>2. suffix' \in {"none", "clean", "failed", "disconnected"}
    <3>1. suffix' \in {suffix, outcome, "disconnected"}  BY Zenon, <1>17 DEF AskOutcome, Presented
    <3> QED  BY <3>1
  <2>3. ended' \in BOOLEAN /\ ui' \in {"closing", "copying"}  BY Zenon, <1>17 DEF AskOutcome
  <2>4. UNCHANGED <<sessionVars, readerVars, queueVars, sizeVars, signalled, outcome, writes,
                    interrupt, keys>>
    BY Zenon, <1>17 DEF AskOutcome
  <2> QED  BY <2>1, <2>2, <2>3, <2>4
<1>18. CASE Draw  BY <1>18 DEF Draw
<1>19. CASE WriteKey
  <2>1. inq' \in 0 .. InCap
    <3>1. CASE FarEndGone  BY <1>19, <3>1 DEF WriteKey, Written
    <3>2. CASE ~ FarEndGone
      <4>1. inq' = inq + 1 /\ inq < InCap  BY <1>19, <3>2 DEF WriteKey, Written, CanWrite
      <4> QED  BY <4>1
    <3> QED  BY <3>1, <3>2
  <2> QED  BY <1>19, <2>1 DEF WriteKey
<1>20. CASE ResizeEngine  BY <1>20 DEF ResizeEngine
<1>21. CASE ResizeMarked  BY <1>21 DEF ResizeMarked
<1>22. CASE ResizePty  BY <1>22 DEF ResizePty
<1>23. CASE Silence  BY <1>23 DEF Silence
<1>24. CASE Interrupt  BY <1>24 DEF Interrupt
<1>25. CASE Join  BY <1>25 DEF Join
<1>26. CASE HangUpChild
  <2>1. child' \in {"running", "gone", "zombie", "reaped"}
    <3>1. child' \in {child, "reaped"}  BY Zenon, <1>26 DEF HangUpChild, Reap
    <3> QED  BY <3>1
  <2>2. signalled' \in SUBSET {"HUP", "KILL"}
    <3>1. signalled' \in {signalled, signalled \cup {"HUP"}}  BY Zenon, <1>26 DEF HangUpChild
    <3> QED  BY <3>1
  <2>3. ui' \in {"closed", "grace"}  BY Zenon, <1>26 DEF HangUpChild
  <2>4. UNCHANGED <<sessionVars, readerVars, queueVars, sizeVars, outcome, writes, ended, suffix,
                    interrupt, keys>>
    BY Zenon, <1>26 DEF HangUpChild
  <2> QED  BY <2>1, <2>2, <2>3, <2>4
<1>27. CASE ReapInTime  BY <1>27 DEF ReapInTime, Reap
<1>28. CASE Kill  BY <1>28 DEF Kill
<1>29. CASE ReapKilled  BY <1>29 DEF ReapKilled, Reap
<1>30. CASE Expose  BY <1>30 DEF Expose
<1>31. CASE PressKey
  <2>1. exposes \in Nat  BY DEF S!TypeOK
  <2>2. keys + gridSize + exposes < MaxEvents  BY <1>31 DEF PressKey, MoreEvents
  <2>3. keys < MaxEvents
    <3>1. keys \in Nat /\ gridSize \in Nat  OBVIOUS
    <3> QED  BY <2>1, <2>2, <3>1
  <2> QED  BY <1>31, <2>3 DEF PressKey
<1>32. CASE BeginResize
  <2>1. exposes \in Nat  BY DEF S!TypeOK
  <2>2. keys + gridSize + exposes < MaxEvents  BY <1>32 DEF BeginResize, MoreEvents
  <2>3. gridSize < MaxEvents
    <3>1. keys \in Nat /\ gridSize \in Nat  OBVIOUS
    <3> QED  BY <2>1, <2>2, <3>1
  <2> QED  BY <1>32, <2>3 DEF BeginResize
<1>33. CASE CloseWindow  BY <1>33 DEF CloseWindow
<1>34. CASE UNCHANGED vars  BY <1>34 DEF vars
<1> QED
  BY <1>1, <1>2, <1>3, <1>4, <1>5, <1>6, <1>7, <1>8, <1>9, <1>10, <1>11, <1>12, <1>13, <1>14,
     <1>15, <1>16, <1>17, <1>18, <1>19, <1>20, <1>21, <1>22, <1>23, <1>24, <1>25, <1>26, <1>27,
     <1>28, <1>29, <1>30, <1>31, <1>32, <1>33,
     <1>34 DEF Next, Shell, ReaderStep, MainStep, User, Closed

\* Positions: each thread is where its loop says.
LEMMA PositionsStep == Inv /\ [Next]_vars => Positions'
<1> SUFFICES ASSUME Inv, [Next]_vars PROVE Positions'
  OBVIOUS
<1> USE TerminalAssumption DEF TerminalAssumption, Inv, TypeOK, S!TypeOK, S!Steps, Positions, sessionVars, readerVars, uiVars, shellVars, queueVars, sizeVars
<1>1. CASE ShellWrite  BY <1>1 DEF ShellWrite
<1>2. CASE ShellRead  BY <1>2 DEF ShellRead
<1>3. CASE ShellEnd  BY <1>3 DEF ShellEnd
<1>4. CASE ShellReapable  BY <1>4 DEF ShellReapable
<1>5. CASE ReadChunk  BY <1>5 DEF ReadChunk
<1>6. CASE ReadNothing  BY <1>6 DEF ReadNothing
<1>7. CASE Feed  BY <1>7 DEF Feed, S!BeginChange, S!Goto
<1>8. CASE Fed  BY <1>8 DEF Fed
<1>9. CASE Reply  BY <1>9 DEF Reply
<1>10. CASE HangUp  BY <1>10 DEF HangUp
<1>11. CASE Farewell  BY <1>11 DEF Farewell, S!BeginChange, S!Goto
<1>12. CASE Stop  BY <1>12 DEF Stop
<1>13. CASE InSession  BY <1>13, ZenonT(60) DEF InSession, S!FinishChange, S!SwapDirty, S!CheckRunning, S!WakeUp, S!Goto
<1>14. CASE RunPosted  BY <1>14 DEF RunPosted, S!RunPosted
<1>15. CASE DrawRect  BY <1>15 DEF DrawRect
<1>16. CASE AskHungUp  BY <1>16 DEF AskHungUp
<1>17. CASE AskOutcome  BY <1>17 DEF AskOutcome
<1>18. CASE Draw  BY <1>18 DEF Draw, S!DrawStep, S!ClearDirty, S!BeginCopy, S!FinishCopy
<1>19. CASE WriteKey  BY <1>19 DEF WriteKey
<1>20. CASE ResizeEngine  BY <1>20 DEF ResizeEngine, S!FinishChange, S!Goto
<1>21. CASE ResizeMarked  BY <1>21, ZenonT(60) DEF ResizeMarked, S!SwapDirty, S!CheckRunning, S!WakeUp, S!Goto
<1>22. CASE ResizePty  BY <1>22 DEF ResizePty
<1>23. CASE Silence  BY <1>23 DEF Silence, S!ShutDown
<1>24. CASE Interrupt  BY <1>24 DEF Interrupt
<1>25. CASE Join  BY <1>25 DEF Join
<1>26. CASE HangUpChild  BY <1>26 DEF HangUpChild
<1>27. CASE ReapInTime  BY <1>27 DEF ReapInTime
<1>28. CASE Kill  BY <1>28 DEF Kill
<1>29. CASE ReapKilled  BY <1>29 DEF ReapKilled
<1>30. CASE Expose  BY <1>30 DEF Expose, S!Expose
<1>31. CASE PressKey  BY <1>31 DEF PressKey
<1>32. CASE BeginResize  BY <1>32 DEF BeginResize, S!BeginChange, S!Goto
<1>33. CASE CloseWindow  BY <1>33 DEF CloseWindow
<1>34. CASE UNCHANGED vars  BY <1>34 DEF vars
<1> QED
  BY <1>1, <1>2, <1>3, <1>4, <1>5, <1>6, <1>7, <1>8, <1>9, <1>10, <1>11, <1>12, <1>13, <1>14,
     <1>15, <1>16, <1>17, <1>18, <1>19, <1>20, <1>21, <1>22, <1>23, <1>24, <1>25, <1>26, <1>27,
     <1>28, <1>29, <1>30, <1>31, <1>32, <1>33,
     <1>34 DEF Next, Shell, ReaderStep, MainStep, User, Closed

\* A reader that was joined does nothing more, and the child goes only one way.
LEMMA EndStep == Inv /\ [Next]_vars => (Joined /\ NoOrphan /\ OnlyCleanExitCloses)'
<1> SUFFICES ASSUME Inv, [Next]_vars PROVE (Joined /\ NoOrphan /\ OnlyCleanExitCloses)'
  OBVIOUS
<1> USE DEF Inv, Joined, NoOrphan, OnlyCleanExitCloses, sessionVars, readerVars, uiVars, shellVars, queueVars, sizeVars
<1>1. CASE ShellWrite  BY <1>1 DEF ShellWrite
<1>2. CASE ShellRead  BY <1>2 DEF ShellRead
<1>3. CASE ShellEnd  BY <1>3 DEF ShellEnd
<1>4. CASE ShellReapable  BY <1>4 DEF ShellReapable
<1>5. CASE ReadChunk  BY <1>5 DEF ReadChunk
<1>6. CASE ReadNothing  BY <1>6 DEF ReadNothing
<1>7. CASE Feed  BY <1>7 DEF Feed
<1>8. CASE Fed  BY <1>8 DEF Fed
<1>9. CASE Reply  BY <1>9 DEF Reply, Written
<1>10. CASE HangUp  BY <1>10 DEF HangUp
<1>11. CASE Farewell  BY <1>11 DEF Farewell
<1>12. CASE Stop  BY <1>12 DEF Stop
<1>13. CASE InSession  BY <1>13 DEF InSession
<1>14. CASE RunPosted  BY <1>14 DEF RunPosted
<1>15. CASE DrawRect  BY <1>15 DEF DrawRect
<1>16. CASE AskHungUp  BY <1>16 DEF AskHungUp
<1>17. CASE AskOutcome  BY <1>17 DEF AskOutcome, Reap, Presented
<1>18. CASE Draw  BY <1>18 DEF Draw
<1>19. CASE WriteKey  BY <1>19 DEF WriteKey, Written
<1>20. CASE ResizeEngine  BY <1>20 DEF ResizeEngine
<1>21. CASE ResizeMarked  BY <1>21 DEF ResizeMarked
<1>22. CASE ResizePty  BY <1>22 DEF ResizePty
<1>23. CASE Silence  BY <1>23 DEF Silence
<1>24. CASE Interrupt  BY <1>24 DEF Interrupt
<1>25. CASE Join  BY <1>25 DEF Join
<1>26. CASE HangUpChild  BY <1>26 DEF HangUpChild, Reap
<1>27. CASE ReapInTime  BY <1>27 DEF ReapInTime, Reap
<1>28. CASE Kill  BY <1>28 DEF Kill
<1>29. CASE ReapKilled  BY <1>29 DEF ReapKilled, Reap
<1>30. CASE Expose  BY <1>30 DEF Expose
<1>31. CASE PressKey  BY <1>31 DEF PressKey
<1>32. CASE BeginResize  BY <1>32 DEF BeginResize
<1>33. CASE CloseWindow  BY <1>33 DEF CloseWindow
<1>34. CASE UNCHANGED vars  BY <1>34 DEF vars
<1> QED
  BY <1>1, <1>2, <1>3, <1>4, <1>5, <1>6, <1>7, <1>8, <1>9, <1>10, <1>11, <1>12, <1>13, <1>14,
     <1>15, <1>16, <1>17, <1>18, <1>19, <1>20, <1>21, <1>22, <1>23, <1>24, <1>25, <1>26, <1>27,
     <1>28, <1>29, <1>30, <1>31, <1>32, <1>33,
     <1>34 DEF Next, Shell, ReaderStep, MainStep, User, Closed

\* Output is written for a size the engine has had.
LEMMA OutputStep == Inv /\ [Next]_vars => OutputFitsEngine'
<1> SUFFICES ASSUME Inv, [Next]_vars PROVE OutputFitsEngine'
  OBVIOUS
<1> USE DEF Inv, TypeOK, SizesOrdered, OutputFitsEngine, Chunks, sessionVars, readerVars, uiVars, shellVars, queueVars, sizeVars
<1>1. CASE ShellWrite  BY <1>1 DEF ShellWrite
<1>2. CASE ShellRead  BY <1>2 DEF ShellRead
<1>3. CASE ShellEnd  BY <1>3 DEF ShellEnd
<1>4. CASE ShellReapable  BY <1>4 DEF ShellReapable
<1>5. CASE ReadChunk  BY <1>5, SMTT(40) DEF ReadChunk
<1>6. CASE ReadNothing  BY <1>6 DEF ReadNothing
<1>7. CASE Feed  BY <1>7 DEF Feed
<1>8. CASE Fed  BY <1>8 DEF Fed
<1>9. CASE Reply  BY <1>9 DEF Reply
<1>10. CASE HangUp  BY <1>10 DEF HangUp
<1>11. CASE Farewell  BY <1>11 DEF Farewell
<1>12. CASE Stop  BY <1>12 DEF Stop
<1>13. CASE InSession  BY <1>13 DEF InSession
<1>14. CASE RunPosted  BY <1>14 DEF RunPosted
<1>15. CASE DrawRect  BY <1>15 DEF DrawRect
<1>16. CASE AskHungUp  BY <1>16 DEF AskHungUp
<1>17. CASE AskOutcome  BY <1>17 DEF AskOutcome
<1>18. CASE Draw  BY <1>18 DEF Draw
<1>19. CASE WriteKey  BY <1>19 DEF WriteKey
<1>20. CASE ResizeEngine
  <2>1. gridSize' = gridSize + 1 /\ UNCHANGED <<outq, chunk, reader>>  BY <1>20 DEF ResizeEngine
  <2>2. \A i \in DOMAIN outq : outq[i].size \in Nat
    <3>1. outq \in Seq(Chunks)  OBVIOUS
    <3> HIDE DEF Inv, TypeOK, Chunks
    <3> QED  BY <3>1, QueuedSizes, TerminalAssumption DEF TerminalAssumption
  <2>3. gridSize \in Nat /\ chunk.size \in Nat  OBVIOUS
  <2> QED  BY <2>1, <2>2, <2>3
<1>21. CASE ResizeMarked  BY <1>21 DEF ResizeMarked
<1>22. CASE ResizePty  BY <1>22 DEF ResizePty
<1>23. CASE Silence  BY <1>23 DEF Silence
<1>24. CASE Interrupt  BY <1>24 DEF Interrupt
<1>25. CASE Join  BY <1>25 DEF Join
<1>26. CASE HangUpChild  BY <1>26 DEF HangUpChild
<1>27. CASE ReapInTime  BY <1>27 DEF ReapInTime
<1>28. CASE Kill  BY <1>28 DEF Kill
<1>29. CASE ReapKilled  BY <1>29 DEF ReapKilled
<1>30. CASE Expose  BY <1>30 DEF Expose
<1>31. CASE PressKey  BY <1>31 DEF PressKey
<1>32. CASE BeginResize  BY <1>32 DEF BeginResize
<1>33. CASE CloseWindow  BY <1>33 DEF CloseWindow
<1>34. CASE UNCHANGED vars  BY <1>34 DEF vars
<1> QED
  BY <1>1, <1>2, <1>3, <1>4, <1>5, <1>6, <1>7, <1>8, <1>9, <1>10, <1>11, <1>12, <1>13, <1>14,
     <1>15, <1>16, <1>17, <1>18, <1>19, <1>20, <1>21, <1>22, <1>23, <1>24, <1>25, <1>26, <1>27,
     <1>28, <1>29, <1>30, <1>31, <1>32, <1>33,
     <1>34 DEF Next, Shell, ReaderStep, MainStep, User, Closed

-----------------------------------------------------------------------------
\* All of it holds at first...
LEMMA InvInit == Init => Inv
<1> SUFFICES ASSUME Init PROVE Inv
  OBVIOUS
<1> USE TerminalAssumption DEF TerminalAssumption, Init, S!Init
<1>1. TypeOK
  <2>1. S!TypeOK  BY DEF S!TypeOK, S!Steps, S!Halves
  <2>2. chunk \in Chunks /\ outq \in Seq(Chunks) /\ Len(outq) <= OutCap  BY DEF Chunks
  <2>3. /\ inq \in 0 .. InCap /\ gridSize \in 0 .. MaxEvents /\ winSize \in 0 .. MaxEvents
        /\ writes \in 0 .. MaxWrites /\ keys \in 0 .. MaxEvents
    OBVIOUS
  <2>4. /\ reader = "polling" /\ ui = "idle" /\ child = "running" /\ outcome = "none"
        /\ suffix = "none" /\ signalled = {}
        /\ hungUp \in BOOLEAN /\ interrupt \in BOOLEAN /\ ended \in BOOLEAN
    OBVIOUS
  <2> HIDE DEF Init
  <2> QED  BY <2>1, <2>2, <2>3, <2>4 DEF TypeOK
<1>2. Positions /\ Joined /\ SizesOrdered  BY DEF Positions, Joined, SizesOrdered
<1>3. NoOrphan /\ OnlyCleanExitCloses /\ OutputFitsEngine
  BY DEF NoOrphan, OnlyCleanExitCloses, OutputFitsEngine
<1> QED  BY <1>1, <1>2, <1>3 DEF Inv

\* ... and for good.
LEMMA Invariant == Spec => []Inv
<1>1. Inv /\ [Next]_vars => Inv'
  BY TypeStep, PositionsStep, EndStep, OutputStep DEF Inv
<1> QED  BY InvInit, <1>1, PTL DEF Spec

\* Terminal is well typed, the session within it too.
THEOREM TypeCorrect == Spec => []TypeOK
<1>1. Inv => TypeOK  BY DEF Inv
<1> QED  BY Invariant, <1>1, PTL

\* Terminal::shutdown, however it is reached, leaves no child to reap.
THEOREM NoChildLeft == Spec => []NoOrphan
<1>1. Inv => NoOrphan  BY DEF Inv
<1> QED  BY Invariant, <1>1, PTL

\* checkChildStatus closes the window for a clean exit and for nothing else.
THEOREM OnlyCleanCloses == Spec => []OnlyCleanExitCloses
<1>1. Inv => OnlyCleanExitCloses  BY DEF Inv
<1> QED  BY Invariant, <1>1, PTL

\* Because resize tells the engine before the kernel, no output for a new size
\* meets an engine laid out for the old one.
THEOREM OutputFits == Spec => []OutputFitsEngine
<1>1. Inv => OutputFitsEngine  BY DEF Inv
<1> QED  BY Invariant, <1>1, PTL

\* After shutdown nothing changes the session, and no wake-up is fired: the
\* reader was joined outside the session, and the main thread has left it.
THEOREM ClosedForGood == Spec => NothingAfterClose
<1>1. Inv /\ [Next]_vars => [ui = "closed" => UNCHANGED sessionVars]_vars
  <2> SUFFICES ASSUME Inv, Next, ui = "closed" PROVE UNCHANGED sessionVars
    BY DEF vars
  <2>1. reader = "stopped"  BY DEF Inv, Joined
  <2>2. pc[Reader] = "idle"  BY <2>1 DEF Inv, Positions
  <2>3. CASE Shell  BY <2>3 DEF Shell, ShellWrite, ShellRead, ShellEnd, ShellReapable
  <2>4. CASE ReaderStep
    BY <2>1, <2>2, <2>4 DEF ReaderStep, ReadChunk, ReadNothing, Feed, Fed, Reply, HangUp, Farewell,
       Stop, InSession, S!FinishChange, S!SwapDirty, S!CheckRunning, S!WakeUp
  <2>5. CASE MainStep
    BY <2>5 DEF MainStep, RunPosted, DrawRect, AskHungUp, AskOutcome, Draw, WriteKey, ResizeEngine,
       ResizeMarked, ResizePty, Silence, Interrupt, Join, HangUpChild, ReapInTime, Kill, ReapKilled
  <2>6. CASE User  BY <2>6 DEF User, Expose, PressKey, BeginResize, CloseWindow
  <2>7. CASE Closed  BY <2>7 DEF Closed, vars
  <2> QED  BY <2>3, <2>4, <2>5, <2>6, <2>7 DEF Next
<1> QED  BY Invariant, <1>1, PTL DEF Spec, NothingAfterClose

-----------------------------------------------------------------------------
(* What the session promises holds of the session inside the terminal too.  *)
(* A resize asks AppKit for a redraw by itself, which is no step of Session *)
(* alone, so its invariants are carried over step by step.                  *)

\* Who holds the session's lock, what its screen is then, and what is copied.
LockHeld ==
    /\ \A t \in {Reader, Resizer} : pc[t] = "changing" <=> lock = t
    /\ draw = "copying" <=> lock = UI
    /\ screen.cells = screen.cursor + (IF lock \in {Reader, Resizer} THEN 1 ELSE 0)
    /\ draw = "copying" => frame.cells = screen.cells
    /\ draw # "copying" => frame.cells = frame.cursor

\* A change that is not drawn is marked or about to be, and a mark has its redraw.
ChangeOwed == S!NoLostChange /\ S!WakeUpOwed

\* Each step of the session keeps the lock with the one who changes or copies.
LEMMA LockHeldStep == S!TypeOK /\ LockHeld /\ SessionStep => LockHeld'
<1> SUFFICES ASSUME S!TypeOK, LockHeld, SessionStep PROVE LockHeld'
  OBVIOUS
<1> USE TerminalAssumption DEF TerminalAssumption, LockHeld, S!TypeOK, S!Steps, S!Halves, S!Goto
<1>1. ASSUME NEW t \in {Reader, Resizer}, S!BeginChange(t) PROVE LockHeld'
  BY <1>1 DEF S!BeginChange
<1>2. ASSUME NEW t \in {Reader, Resizer}, S!FinishChange(t) PROVE LockHeld'
  BY <1>2 DEF S!FinishChange
<1>3. ASSUME NEW t \in {Reader, Resizer}, S!SwapDirty(t) \/ S!CheckRunning(t) \/ S!WakeUp(t)
      PROVE LockHeld'
  BY <1>3 DEF S!SwapDirty, S!CheckRunning, S!WakeUp
<1>4. CASE S!RunPosted \/ S!Expose \/ S!ShutDown
  BY <1>4 DEF S!RunPosted, S!Expose, S!ShutDown
<1>5. CASE S!ClearDirty  BY <1>5 DEF S!ClearDirty
<1>6. CASE S!BeginCopy  BY <1>6 DEF S!BeginCopy
<1>7. CASE S!FinishCopy  BY <1>7 DEF S!FinishCopy
<1>8. CASE UNCHANGED <<pc, lock, screen, draw, frame>>  BY <1>8
<1> QED
  BY <1>1, <1>2, <1>3, <1>4, <1>5, <1>6, <1>7, <1>8 DEF SessionStep, S!DrawStep, sessionVars

\* Each step of the session keeps the changes, and the redraws they rely on.
LEMMA ChangeOwedStep == S!TypeOK /\ ChangeOwed /\ SessionStep => ChangeOwed'
<1> SUFFICES ASSUME S!TypeOK, ChangeOwed, SessionStep PROVE ChangeOwed'
  OBVIOUS
<1> USE DEF ChangeOwed, S!NoLostChange, S!WakeUpOwed, S!TypeOK, S!Halves, S!Goto
<1>1. ASSUME NEW t \in {Reader, Resizer}, S!BeginChange(t) PROVE ChangeOwed'
  BY <1>1 DEF S!BeginChange
<1>2. ASSUME NEW t \in {Reader, Resizer}, S!FinishChange(t) PROVE ChangeOwed'
  BY <1>2 DEF S!FinishChange
<1>3. ASSUME NEW t \in {Reader, Resizer}, S!SwapDirty(t) PROVE ChangeOwed'
  BY <1>3 DEF S!SwapDirty
<1>4. ASSUME NEW t \in {Reader, Resizer}, S!CheckRunning(t) PROVE ChangeOwed'
  BY <1>4 DEF S!CheckRunning
<1>5. ASSUME NEW t \in {Reader, Resizer}, S!WakeUp(t) PROVE ChangeOwed'
  BY <1>5 DEF S!WakeUp
<1>6. CASE S!RunPosted \/ S!Expose \/ S!ShutDown
  BY <1>6 DEF S!RunPosted, S!Expose, S!ShutDown
<1>7. CASE S!ClearDirty  BY <1>7 DEF S!ClearDirty
<1>8. CASE S!BeginCopy  BY <1>8 DEF S!BeginCopy
<1>9. CASE S!FinishCopy  BY <1>9 DEF S!FinishCopy
<1>10. CASE /\ needsDisplay' = TRUE
            /\ UNCHANGED <<pc, lock, screen, dirty, running, draw, frame, posted, exposes, panics>>
  BY <1>10
<1>11. CASE UNCHANGED sessionVars  BY <1>11 DEF sessionVars
<1> QED
  BY <1>1, <1>2, <1>3, <1>4, <1>5, <1>6, <1>7, <1>8, <1>9, <1>10, <1>11 DEF SessionStep, S!DrawStep

\* With the reader feeding, the user resizing and the window closing around it,
\* no frame is torn.
THEOREM FramesWhole == Spec => []S!NoTornFrame
<1>1. Init => LockHeld
  BY TerminalAssumption DEF TerminalAssumption, Init, S!Init, LockHeld
<1>2. LockHeld => S!NoTornFrame
  BY DEF LockHeld, S!NoTornFrame
<1>3. Inv => S!TypeOK
  BY DEF Inv, TypeOK
<1> QED  BY <1>1, <1>2, <1>3, Invariant, StepOfSession, LockHeldStep, PTL DEF Spec

\* Nor is a change lost, nor does a mark wait for a redraw that nobody asked for.
THEOREM ChangesOwed == Spec => []ChangeOwed
<1>1. Init => ChangeOwed
  BY DEF Init, S!Init, ChangeOwed, S!NoLostChange, S!WakeUpOwed
<1>2. Inv => S!TypeOK
  BY DEF Inv, TypeOK
<1> QED  BY <1>1, <1>2, Invariant, StepOfSession, ChangeOwedStep, PTL DEF Spec
=============================================================================

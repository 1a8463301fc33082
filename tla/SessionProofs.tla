--------------------------- MODULE SessionProofs ---------------------------
(***************************************************************************)
(* What holds of a session: of its lock, its flag and its wake-ups         *)
(* (Session), for any set of threads and any bounds, and of the parser     *)
(* that it feeds under the lock (VtParser), for streams of any bytes.      *)
(*                                                                         *)
(* None of Session's properties is inductive alone.  What carries them is  *)
(* where the lock is: it is held exactly by the one thread in the middle   *)
(* of a change or by the UI in the middle of a copy, so a copy never sees  *)
(* a half-made change (LockDiscipline, ScreenWhole).  The wake-up          *)
(* properties are inductive with the type invariant, one action at a time. *)
(***************************************************************************)
EXTENDS Session, VtParser, FiniteSetTheorems, SequenceTheorems, TLAPS

\* Outside a change the two halves of the screen agree, unless a panic left
\* one half behind; in the middle of a change the first half is one ahead.
ScreenWhole ==
    panics = 0 =>
        IF lock \in Threads THEN screen.cells = screen.cursor + 1
                            ELSE screen.cells = screen.cursor

\* In the middle of a copy the half already copied is that of the screen.
CopyWhole ==
    /\ draw = "copying" => frame.cells = screen.cells
    /\ NoTornFrame

LockInv == TypeOK /\ LockDiscipline /\ ScreenWhole /\ CopyWhole

-----------------------------------------------------------------------------
\* The type invariant holds at first...
LEMMA TypeInit == Init => TypeOK
<1> SUFFICES ASSUME Init PROVE TypeOK
  OBVIOUS
<1> USE DEF Init
<1>1. pc \in [Threads -> Steps]
  BY DEF Steps
<1>2. screen \in Halves /\ frame \in Halves
  BY DEF Halves
<1> QED
  BY <1>1, <1>2 DEF TypeOK

\* ... and every step keeps it.
LEMMA TypeStep == TypeOK /\ [Next]_vars => TypeOK'
<1> SUFFICES ASSUME TypeOK, [Next]_vars PROVE TypeOK'
  OBVIOUS
<1> USE DEF TypeOK, Steps, Halves
<1>1. ASSUME NEW t \in Threads, ThreadStep(t) PROVE TypeOK'
  <2>1. CASE BeginChange(t)  BY <2>1 DEF BeginChange, Goto
  <2>2. CASE FinishChange(t)  BY <2>2 DEF FinishChange, Goto
  <2>3. CASE Panic(t)  BY <2>3 DEF Panic, Goto
  <2>4. CASE SwapDirty(t)  BY <2>4 DEF SwapDirty, Goto
  <2>5. CASE CheckRunning(t)  BY <2>5 DEF CheckRunning, Goto
  <2>6. CASE WakeUp(t)  BY <2>6 DEF WakeUp, Goto
  <2> QED  BY <1>1, <2>1, <2>2, <2>3, <2>4, <2>5, <2>6 DEF ThreadStep
<1>2. CASE RunPosted  BY <1>2 DEF RunPosted
<1>3. CASE Expose  BY <1>3 DEF Expose
<1>4. CASE ClearDirty  BY <1>4 DEF ClearDirty
<1>5. CASE BeginCopy  BY <1>5 DEF BeginCopy
<1>6. CASE FinishCopy  BY <1>6 DEF FinishCopy
<1>7. CASE ShutDown  BY <1>7 DEF ShutDown
<1>8. CASE UNCHANGED vars  BY <1>8 DEF vars
<1> QED  BY <1>1, <1>2, <1>3, <1>4, <1>5, <1>6, <1>7, <1>8 DEF Next, DrawStep, Quiet

\* Every variable keeps its type, for any threads and bounds.
THEOREM TypeCorrect == Spec => []TypeOK
  BY TypeInit, TypeStep, PTL DEF Spec

-----------------------------------------------------------------------------
\* The lock discipline and the wholeness of the screen and of the frame hold
\* together: the step lemma, one case for each action.
LEMMA LockInvInductive == LockInv /\ [Next]_vars => LockInv'
<1> SUFFICES ASSUME LockInv, [Next]_vars PROVE LockInv'
  OBVIOUS
<1> USE SessionAssumption DEF SessionAssumption, LockInv
<1>1. TypeOK'
  BY TypeStep
<1>2. ASSUME NEW t \in Threads, BeginChange(t) PROVE LockInv'
  BY <1>1, <1>2 DEF BeginChange, Goto, TypeOK, Steps, Halves, LockDiscipline, ScreenWhole,
                    CopyWhole, NoTornFrame
<1>3. ASSUME NEW t \in Threads, FinishChange(t) PROVE LockInv'
  BY <1>1, <1>3 DEF FinishChange, Goto, TypeOK, Steps, Halves, LockDiscipline, ScreenWhole,
                    CopyWhole, NoTornFrame
<1>4. ASSUME NEW t \in Threads, Panic(t) PROVE LockInv'
  BY <1>1, <1>4 DEF Panic, Goto, TypeOK, Steps, Halves, LockDiscipline, ScreenWhole,
                    CopyWhole, NoTornFrame
<1>5. ASSUME NEW t \in Threads, SwapDirty(t) \/ CheckRunning(t) \/ WakeUp(t) PROVE LockInv'
  BY <1>1, <1>5 DEF SwapDirty, CheckRunning, WakeUp, Goto, TypeOK, Steps, LockDiscipline,
                    ScreenWhole, CopyWhole, NoTornFrame
<1>6. CASE RunPosted \/ Expose \/ ClearDirty \/ ShutDown \/ UNCHANGED vars
  BY <1>1, <1>6 DEF RunPosted, Expose, ClearDirty, ShutDown, vars, TypeOK, LockDiscipline,
                    ScreenWhole, CopyWhole, NoTornFrame
<1>7. CASE BeginCopy
  BY <1>1, <1>7 DEF BeginCopy, TypeOK, Halves, LockDiscipline, ScreenWhole, CopyWhole,
                    NoTornFrame
<1>8. CASE FinishCopy
  BY <1>1, <1>8 DEF FinishCopy, TypeOK, Halves, LockDiscipline, ScreenWhole, CopyWhole,
                    NoTornFrame
<1> QED
  BY <1>2, <1>3, <1>4, <1>5, <1>6, <1>7, <1>8 DEF Next, ThreadStep, DrawStep, Quiet

\* No frame is torn, however the threads interleave.
THEOREM FramesWhole == Spec => []NoTornFrame
<1>1. Init => LockInv
  BY TypeInit, SessionAssumption
     DEF SessionAssumption, LockInv, Init, LockDiscipline, ScreenWhole, CopyWhole, NoTornFrame
<1>2. LockInv => NoTornFrame
  BY DEF LockInv, CopyWhole
<1> QED  BY <1>1, <1>2, LockInvInductive, PTL DEF Spec

\* The lock is always with the one thread that is in the middle of something.
THEOREM LockKept == Spec => []LockDiscipline
<1>1. Init => LockInv
  BY TypeInit, SessionAssumption
     DEF SessionAssumption, LockInv, Init, LockDiscipline, ScreenWhole, CopyWhole, NoTornFrame
<1>2. LockInv => LockDiscipline
  BY DEF LockInv
<1> QED  BY <1>1, <1>2, LockInvInductive, PTL DEF Spec

\* A wake-up is never fired with the lock held.
THEOREM WakeUpsWithoutLock == Spec => []WakeUpWithoutLock
<1>1. Init => LockInv
  BY TypeInit, SessionAssumption
     DEF SessionAssumption, LockInv, Init, LockDiscipline, ScreenWhole, CopyWhole, NoTornFrame
<1>2. LockInv => WakeUpWithoutLock
  BY DEF LockInv, LockDiscipline, WakeUpWithoutLock
<1> QED  BY <1>1, <1>2, LockInvInductive, PTL DEF Spec

-----------------------------------------------------------------------------
\* A finished change is never lost: what is not in the frame yet is marked,
\* about to be marked, or claimed by a redraw that has not copied yet.
THEOREM ChangesNotLost == Spec => []NoLostChange
<1>1. Init => NoLostChange
  BY DEF Init, NoLostChange
<1>2. TypeOK /\ NoLostChange /\ [Next]_vars => NoLostChange'
  <2> SUFFICES ASSUME TypeOK, NoLostChange, [Next]_vars PROVE NoLostChange'
    OBVIOUS
  <2> USE DEF NoLostChange, TypeOK, Halves
  <2>1. ASSUME NEW t \in Threads, BeginChange(t) PROVE NoLostChange'
    BY <2>1 DEF BeginChange, Goto
  <2>2. ASSUME NEW t \in Threads, FinishChange(t) PROVE NoLostChange'
    BY <2>2 DEF FinishChange, Goto
  <2>3. ASSUME NEW t \in Threads, Panic(t) PROVE NoLostChange'
    BY <2>3 DEF Panic, Goto
  <2>4. ASSUME NEW t \in Threads, SwapDirty(t) PROVE NoLostChange'
    BY <2>4 DEF SwapDirty
  <2>5. ASSUME NEW t \in Threads, CheckRunning(t) \/ WakeUp(t) PROVE NoLostChange'
    BY <2>5 DEF CheckRunning, WakeUp, Goto
  <2>6. CASE ClearDirty \/ BeginCopy \/ FinishCopy
    BY <2>6 DEF ClearDirty, BeginCopy, FinishCopy
  <2>7. CASE RunPosted \/ Expose \/ ShutDown \/ UNCHANGED vars
    BY <2>7 DEF RunPosted, Expose, ShutDown, vars
  <2> QED
    BY <2>1, <2>2, <2>3, <2>4, <2>5, <2>6, <2>7 DEF Next, ThreadStep, DrawStep, Quiet
<1> QED  BY <1>1, <1>2, TypeCorrect, PTL DEF Spec

\* While the session runs, a dirty screen always has a redraw on its way.
THEOREM WakeUpsOwed == Spec => []WakeUpOwed
<1>1. Init => WakeUpOwed
  BY DEF Init, WakeUpOwed
<1>2. TypeOK /\ WakeUpOwed /\ [Next]_vars => WakeUpOwed'
  <2> SUFFICES ASSUME TypeOK, WakeUpOwed, [Next]_vars PROVE WakeUpOwed'
    OBVIOUS
  <2> USE DEF WakeUpOwed, TypeOK
  <2>1. ASSUME NEW t \in Threads, BeginChange(t) \/ FinishChange(t) \/ Panic(t)
        PROVE WakeUpOwed'
    BY <2>1 DEF BeginChange, FinishChange, Panic, Goto
  <2>2. ASSUME NEW t \in Threads, SwapDirty(t) PROVE WakeUpOwed'
    BY <2>2 DEF SwapDirty, Goto
  <2>3. ASSUME NEW t \in Threads, CheckRunning(t) PROVE WakeUpOwed'
    BY <2>3 DEF CheckRunning, Goto
  <2>4. ASSUME NEW t \in Threads, WakeUp(t) PROVE WakeUpOwed'
    BY <2>4 DEF WakeUp, Goto
  <2>5. CASE RunPosted \/ Expose
    BY <2>5 DEF RunPosted, Expose
  <2>6. CASE ClearDirty \/ BeginCopy \/ FinishCopy
    BY <2>6 DEF ClearDirty, BeginCopy, FinishCopy
  <2>7. CASE ShutDown \/ UNCHANGED vars
    BY <2>7 DEF ShutDown, vars
  <2> QED
    BY <2>1, <2>2, <2>3, <2>4, <2>5, <2>6, <2>7 DEF Next, ThreadStep, DrawStep, Quiet
<1> QED  BY <1>1, <1>2, TypeCorrect, PTL DEF Spec

-----------------------------------------------------------------------------
\* The wake-ups on their way: those decided on and those on the main queue.
Deciding == {t \in Threads : pc[t] \in {"checking", "waking"}}
One(b) == IF b THEN 1 ELSE 0

\* Each of them, and the redraw they ask for, was paid for by the dirty flag
\* being set, and only a redraw of AppKit's own clears it without using one up.
QueueInv ==
    posted + Cardinality(Deciding) + One(needsDisplay) <= exposes + One(dirty)

\* How moving one thread in or out of Deciding changes its size.
LEMMA DecidingFinite == IsFiniteSet(Deciding) /\ Cardinality(Deciding) \in Nat
  BY SessionAssumption, FS_Subset, FS_CardinalityType DEF SessionAssumption, Deciding

\* A thread that finds the flag clear joins Deciding.
LEMMA DecidingJoins ==
  ASSUME NEW t \in Threads, TypeOK, pc[t] \notin {"checking", "waking"}, Goto(t, "checking")
  PROVE Cardinality(Deciding') = Cardinality(Deciding) + 1
<1>1. Deciding' = Deciding \cup {t} /\ t \notin Deciding
  BY DEF Deciding, Goto, TypeOK
<1> QED  BY <1>1, DecidingFinite, FS_AddElement

\* A thread that has fired, or found the session shut down, leaves it.
LEMMA DecidingLeaves ==
  ASSUME NEW t \in Threads, TypeOK, pc[t] \in {"checking", "waking"}, Goto(t, "idle")
  PROVE Cardinality(Deciding') = Cardinality(Deciding) - 1
<1>1. Deciding' = Deciding \ {t} /\ t \in Deciding
  BY DEF Deciding, Goto, TypeOK
<1> QED  BY <1>1, DecidingFinite, FS_RemoveElement

\* Everything else leaves Deciding as it is.
LEMMA DecidingStays ==
  ASSUME \A t \in Threads : (pc[t] \in {"checking", "waking"}) = (pc'[t] \in {"checking", "waking"})
  PROVE Deciding' = Deciding
  BY DEF Deciding

\* The main queue is bounded by one wake-up and AppKit's own redraws.
THEOREM QueuesBounded == Spec => []QueueBounded
<1>1. Init => QueueInv
  <2> SUFFICES ASSUME Init PROVE QueueInv
    OBVIOUS
  <2>1. Deciding = {}
    BY DEF Init, Deciding
  <2> QED  BY <2>1, FS_EmptySet DEF Init, QueueInv, One
<1>2. TypeOK /\ QueueInv /\ [Next]_vars => QueueInv'
  <2> SUFFICES ASSUME TypeOK, QueueInv, [Next]_vars PROVE QueueInv'
    OBVIOUS
  <2> USE DecidingFinite DEF QueueInv, One
  <2>0. posted \in Nat /\ exposes \in Nat /\ dirty \in BOOLEAN /\ needsDisplay \in BOOLEAN
    BY DEF TypeOK
  <2>1. ASSUME NEW t \in Threads, BeginChange(t) \/ FinishChange(t) \/ Panic(t)
        PROVE QueueInv'
    <3>1. Deciding' = Deciding
      BY <2>1, DecidingStays DEF BeginChange, FinishChange, Panic, Goto, TypeOK
    <3> QED  BY <2>0, <2>1, <3>1 DEF BeginChange, FinishChange, Panic
  <2>2. ASSUME NEW t \in Threads, SwapDirty(t) PROVE QueueInv'
    <3>1. CASE dirty
      <4>1. Deciding' = Deciding
        BY <2>2, <3>1, DecidingStays DEF SwapDirty, Goto, TypeOK
      <4> QED  BY <2>0, <2>2, <3>1, <4>1 DEF SwapDirty
    <3>2. CASE ~dirty
      <4>1. Cardinality(Deciding') = Cardinality(Deciding) + 1
        BY <2>2, <3>2, DecidingJoins DEF SwapDirty
      <4> QED  BY <2>0, <2>2, <3>2, <4>1 DEF SwapDirty
    <3> QED  BY <2>0, <3>1, <3>2
  <2>3. ASSUME NEW t \in Threads, CheckRunning(t) PROVE QueueInv'
    <3>1. CASE running
      <4>1. Deciding' = Deciding
        BY <2>3, <3>1, DecidingStays DEF CheckRunning, Goto, TypeOK
      <4> QED  BY <2>0, <2>3, <4>1 DEF CheckRunning
    <3>2. CASE ~running
      <4>1. Cardinality(Deciding') = Cardinality(Deciding) - 1
        BY <2>3, <3>2, DecidingLeaves DEF CheckRunning
      <4> QED  BY <2>0, <2>3, <4>1 DEF CheckRunning
    <3> QED  BY <3>1, <3>2
  <2>4. ASSUME NEW t \in Threads, WakeUp(t) PROVE QueueInv'
    <3>1. Cardinality(Deciding') = Cardinality(Deciding) - 1
      BY <2>4, DecidingLeaves DEF WakeUp
    <3> QED  BY <2>0, <2>4, <3>1 DEF WakeUp
  <2>5. CASE RunPosted \/ Expose \/ DrawStep \/ ShutDown \/ UNCHANGED vars
    <3>1. Deciding' = Deciding
      BY <2>5 DEF Deciding, RunPosted, Expose, DrawStep, ClearDirty, BeginCopy, FinishCopy,
                  ShutDown, vars
    <3> QED
      BY <2>0, <2>5, <3>1 DEF RunPosted, Expose, DrawStep, ClearDirty, BeginCopy, FinishCopy,
                              ShutDown, vars
  <2> QED
    BY <2>1, <2>2, <2>3, <2>4, <2>5 DEF Next, ThreadStep, Quiet
<1>3. TypeOK /\ QueueInv => QueueBounded
  BY DecidingFinite DEF TypeOK, QueueInv, QueueBounded, One
<1> QED  BY <1>1, <1>2, <1>3, TypeCorrect, PTL DEF Spec

-----------------------------------------------------------------------------
\* Every step of the session is a step of the abstract one, or none at all:
\* a change counts when its second half is written, and is shown when the
\* second half of the frame is.  (That it is eventually shown is liveness,
\* which the runs check.)
THEOREM PromiseSafe == Spec => Promise!Safety
<1>1. Init => Promise!Init
  BY DEF Init, Promise!Init
<1>2. TypeOK /\ [Next]_vars => [Promise!Next]_Promise!vars
  <2> SUFFICES ASSUME TypeOK, [Next]_vars PROVE [Promise!Next]_Promise!vars
    OBVIOUS
  <2> USE DEF Promise!vars, Promise!Next, TypeOK, Halves
  <2>1. ASSUME NEW t \in Threads, FinishChange(t) PROVE Promise!Change
    BY <2>1 DEF FinishChange, Promise!Change
  <2>2. ASSUME NEW t \in Threads,
               BeginChange(t) \/ Panic(t) \/ SwapDirty(t) \/ CheckRunning(t) \/ WakeUp(t)
        PROVE UNCHANGED Promise!vars
    BY <2>2 DEF BeginChange, Panic, SwapDirty, CheckRunning, WakeUp
  <2>3. CASE FinishCopy
    BY <2>3 DEF FinishCopy, Promise!Show
  <2>4. CASE ShutDown
    BY <2>4 DEF ShutDown, Promise!ShutDown
  <2>5. CASE RunPosted \/ Expose \/ ClearDirty \/ BeginCopy \/ UNCHANGED vars
    BY <2>5 DEF RunPosted, Expose, ClearDirty, BeginCopy, vars
  <2> QED
    BY <2>1, <2>2, <2>3, <2>4, <2>5 DEF Next, ThreadStep, DrawStep, Quiet
<1> QED  BY <1>1, <1>2, TypeCorrect, PTL DEF Spec, Promise!Safety

-----------------------------------------------------------------------------
(* The parser. *)

\* One round of feed's loop: what follows from the byte behind `pos` on.
DecodeAt(bytes, d, from, pos) ==
    LET input == SubSeq(bytes, pos + 1, Len(bytes))
        cmd   == ParseCommand(input)
    IN  IF input = <<>> \/ cmd.used = 0 THEN [rest |-> input, cmds |-> <<>>]
        ELSE [from[pos + cmd.used] EXCEPT !.cmds = cmd.cmds \o @]
Decoding == INSTANCE LoopLemmas WITH Body <- DecodeAt

-----------------------------------------------------------------------------
(* The first place where a scan stops.                                      *)

First(E, n) == IF E = {} THEN n + 1 ELSE CHOOSE j \in E : \A k \in E : j <= k

\* It is the least one, or behind the end.
LEMMA FirstLeast ==
    ASSUME NEW n \in Nat, NEW i \in 1 .. n + 1, NEW E \in SUBSET (i .. n)
    PROVE  /\ First(E, n) \in i .. n + 1
           /\ E = {} => First(E, n) = n + 1
           /\ E # {} => First(E, n) \in E
           /\ \A k \in E : First(E, n) <= k
<1>. DEFINE Least(j) == \A k \in E : j <= k
<1>1. CASE E = {}
  BY <1>1 DEF First
<1>2. CASE E # {}
  <2>1. E \in SUBSET Nat
    OBVIOUS
  <2>2. \E j \in E : Least(j)
    BY <1>2, <2>1, Decoding!LeastNumber
  <2>3. First(E, n) = CHOOSE j \in E : Least(j)
    BY <1>2, Zenon DEF First
  <2>. HIDE DEF Least
  <2>4. First(E, n) \in E /\ Least(First(E, n))
    BY <2>2, <2>3, Zenon
  <2>5. First(E, n) \in i .. n + 1
    <3>1. PICK f : f = First(E, n)
      OBVIOUS
    <3>2. f \in i .. n
      BY <2>4, <3>1
    <3>. QED
      BY <3>1, <3>2
  <2>. QED
    BY <1>2, <2>4, <2>5 DEF Least
<1>. QED
  BY <1>1, <1>2

\* What comes behind the first place does not change it.
LEMMA FirstStays ==
    ASSUME NEW n \in Nat, NEW m \in Nat, n <= m, NEW i \in 1 .. n + 1,
           NEW E \in SUBSET (i .. n), NEW F \in SUBSET (i .. m),
           \A j \in i .. n : j \in E <=> j \in F,
           First(E, n) <= n
    PROVE  First(F, m) = First(E, n)
<1>1. E # {}
  BY FirstLeast
<1>2. First(E, n) \in E /\ First(E, n) \in F /\ \A k \in E : First(E, n) <= k
  BY <1>1, FirstLeast
<1>3. i \in 1 .. m + 1 /\ F # {}
  BY <1>2
<1>4. First(F, m) \in F /\ \A k \in F : First(F, m) <= k
  BY <1>3, FirstLeast
<1>5. PICK e : e = First(E, n)
  OBVIOUS
<1>6. PICK f : f = First(F, m)
  OBVIOUS
<1>7. e \in i .. n /\ f \in i .. m
  BY <1>2, <1>4, <1>5, <1>6
<1>8. f <= e
  BY <1>2, <1>4, <1>5, <1>6
<1>9. f \in E
  BY <1>4, <1>6, <1>7, <1>8
<1>10. e <= f
  BY <1>2, <1>5, <1>9
<1>. QED
  BY <1>5, <1>6, <1>7, <1>8, <1>10

\* Where the parameters, the intermediates, the text and the rest of a character
\* end, in what begins at `i`.
ParamStops(s, i) == {j \in i .. Len(s) : ~IsParam(s[j])}
InterStops(s, i) == {j \in i .. Len(s) : ~IsInter(s[j])}
TextStops(s, i) == {j \in i .. Len(s) : ~(s[j] \notin Controls)}
CharStops(s, i) == {j \in i .. Len(s) : ~(s[j] = "82")}
OscStops(s) == {j \in 3 .. Len(s) : BelAt(s, j) \/ StAt(s, j)}

\* Span in these terms.
LEMMA Spans ==
    ASSUME NEW s, NEW i
    PROVE  /\ Span(s, i, IsParam) = First(ParamStops(s, i), Len(s)) - i
           /\ Span(s, i, IsInter) = First(InterStops(s, i), Len(s)) - i
           /\ Span(s, i, LAMBDA b : b \notin Controls) = First(TextStops(s, i), Len(s)) - i
           /\ Span(s, i, LAMBDA b : b = "82") = First(CharStops(s, i), Len(s)) - i
<1>1. Span(s, i, IsParam) = First(ParamStops(s, i), Len(s)) - i
  BY Zenon DEF Span, First, ParamStops
<1>2. Span(s, i, IsInter) = First(InterStops(s, i), Len(s)) - i
  BY Zenon DEF Span, First, InterStops
<1>3. Span(s, i, LAMBDA b : b \notin Controls) = First(TextStops(s, i), Len(s)) - i
  BY Zenon DEF Span, First, TextStops
<1>4. Span(s, i, LAMBDA b : b = "82") = First(CharStops(s, i), Len(s)) - i
  BY Zenon DEF Span, First, CharStops
<1>. QED
  BY <1>1, <1>2, <1>3, <1>4

-----------------------------------------------------------------------------
(* A sequence that has its end is parsed the same whatever follows.         *)

\* Two sequences one after the other, and the part of the first up to `n`.
LEMMA Joined ==
    ASSUME NEW B, NEW s \in Seq(B), NEW c \in Seq(B)
    PROVE  /\ s \o c \in Seq(B) /\ Len(s \o c) = Len(s) + Len(c)
           /\ \A j \in 1 .. Len(s) : (s \o c)[j] = s[j]
           /\ \A j \in 1 .. Len(c) : (s \o c)[Len(s) + j] = c[j]
           /\ \A m \in 1 .. Len(s) + 1, n \in 0 .. Len(s) : SubSeq(s \o c, m, n) = SubSeq(s, m, n)
<1>1. s \o c \in Seq(B) /\ Len(s \o c) = Len(s) + Len(c)
  OBVIOUS
<1>2. \A j \in 1 .. Len(s) : (s \o c)[j] = s[j]
  OBVIOUS
<1>3. \A j \in 1 .. Len(c) : (s \o c)[Len(s) + j] = c[j]
  OBVIOUS
<1>4. ASSUME NEW m \in 1 .. Len(s) + 1, NEW n \in 0 .. Len(s)
      PROVE  SubSeq(s \o c, m, n) = SubSeq(s, m, n)
  <2>1. PICK t \in Seq(B) : t = s \o c
    BY <1>1
  <2>2. Len(t) = Len(s) + Len(c) /\ \A j \in 1 .. Len(s) : t[j] = s[j]
    BY <1>1, <1>2, <2>1
  <2>3. SubSeq(t, m, n) = [i \in 1 .. n - m + 1 |-> t[i + m - 1]]
        /\ SubSeq(s, m, n) = [i \in 1 .. n - m + 1 |-> s[i + m - 1]]
    OBVIOUS
  <2>4. \A i \in 1 .. n - m + 1 : t[i + m - 1] = s[i + m - 1]
    <3>1. \A i \in 1 .. n - m + 1 : i + m - 1 \in 1 .. Len(s)
      OBVIOUS
    <3>. QED
      BY <2>2, <3>1
  <2>. QED
    BY <2>1, <2>3, <2>4
<1>. QED
  BY <1>1, <1>2, <1>3, <1>4

ParamEnd(s) == First(ParamStops(s, 3), Len(s))
CsiLast(s) == First(InterStops(s, ParamEnd(s)), Len(s))
EscLast(s) == First(InterStops(s, 2), Len(s))

\* What ParseCsi finds.
CsiFound(s) ==
    /\ ParamEnd(s) \in 3 .. Len(s) + 1 /\ CsiLast(s) \in ParamEnd(s) .. Len(s) + 1
    /\ \A j \in 3 .. ParamEnd(s) - 1 : IsParam(s[j])
    /\ \A j \in ParamEnd(s) .. CsiLast(s) - 1 : IsInter(s[j])
    /\ CsiLast(s) > Len(s) => ParseCsi(s) = Incomplete
    /\ CsiLast(s) <= Len(s) /\ IsCsiFinal(s[CsiLast(s)]) =>
          ParseCsi(s) = Ok(CsiLast(s), DispatchCsi(SubSeq(s, 3, ParamEnd(s) - 1), s[CsiLast(s)]))
    /\ CsiLast(s) <= Len(s) /\ ~IsCsiFinal(s[CsiLast(s)]) => ParseCsi(s) = Malformed

\* parse_csi's two scans, and what is made of the byte they stop at.
LEMMA CsiIs ==
    ASSUME NEW B, NEW s \in Seq(B), Len(s) >= 2
    PROVE  CsiFound(s)
<1>1. PICK n \in Nat : n = Len(s)
  OBVIOUS
<1>2. PICK e : e = ParamEnd(s)
  OBVIOUS
<1>3. PICK l : l = CsiLast(s)
  OBVIOUS
<1>. USE <1>1
<1>4. e \in 3 .. n + 1 /\ \A j \in 3 .. e - 1 : IsParam(s[j])
  <2>1. ParamStops(s, 3) \in SUBSET (3 .. n) /\ 3 \in 1 .. n + 1
    BY DEF ParamStops
  <2>2. First(ParamStops(s, 3), n) \in 3 .. n + 1 /\ \A k \in ParamStops(s, 3) : First(ParamStops(s, 3), n) <= k
    BY <2>1, FirstLeast, SMTT(40)
  <2>3. e \in 3 .. n + 1 /\ \A k \in ParamStops(s, 3) : e <= k
    BY <1>2, <2>2 DEF ParamEnd
  <2>4. \A j \in 3 .. e - 1 : j \notin ParamStops(s, 3) /\ j \in 3 .. n
    BY <2>3
  <2>. QED
    BY <2>3, <2>4 DEF ParamStops
<1>5. l \in e .. n + 1 /\ \A j \in e .. l - 1 : IsInter(s[j])
  <2>1. InterStops(s, e) \in SUBSET (e .. n) /\ e \in 1 .. n + 1
    BY <1>4 DEF InterStops
  <2>2. First(InterStops(s, e), n) \in e .. n + 1 /\ \A k \in InterStops(s, e) : First(InterStops(s, e), n) <= k
    BY <2>1, FirstLeast
  <2>3. l \in e .. n + 1 /\ \A k \in InterStops(s, e) : l <= k
    BY <1>2, <1>3, <2>2 DEF CsiLast
  <2>4. \A j \in e .. l - 1 : j \notin InterStops(s, e) /\ j \in e .. n
    BY <1>4, <2>3
  <2>. QED
    BY <1>4, <2>3, <2>4 DEF InterStops
<1>6. 3 + Span(s, 3, IsParam) = e /\ e + Span(s, e, IsInter) = l
  <2>1. Span(s, 3, IsParam) = e - 3
    BY <1>2, Spans, Zenon DEF ParamEnd
  <2>2. Span(s, e, IsInter) = l - e
    BY <1>2, <1>3, Spans, Zenon DEF CsiLast
  <2>. QED
    BY <1>4, <1>5, <2>1, <2>2
<1>7. ParseCsi(s) = CASE l > n                      -> Incomplete
                      [] l <= n /\ IsCsiFinal(s[l]) -> Ok(l, DispatchCsi(SubSeq(s, 3, e - 1), s[l]))
                      [] l <= n /\ ~IsCsiFinal(s[l]) -> Malformed
  BY <1>6, Zenon DEF ParseCsi
<1>8. /\ l > n => ParseCsi(s) = Incomplete
      /\ l <= n /\ IsCsiFinal(s[l]) => ParseCsi(s) = Ok(l, DispatchCsi(SubSeq(s, 3, e - 1), s[l]))
      /\ l <= n /\ ~IsCsiFinal(s[l]) => ParseCsi(s) = Malformed
  <2>1. l > n <=> ~(l <= n)
    BY <1>4, <1>5
  <2>. QED
    BY <1>7, <2>1, Zenon
<1>. QED
  BY <1>2, <1>3, <1>4, <1>5, <1>8, Zenon DEF CsiFound

\* It finds the same with more behind.
LEMMA CsiStays ==
    ASSUME NEW B, NEW s \in Seq(B), NEW c \in Seq(B), Len(s) >= 2, CsiLast(s) <= Len(s)
    PROVE  ParamEnd(s \o c) = ParamEnd(s) /\ CsiLast(s \o c) = CsiLast(s) /\ ParseCsi(s \o c) = ParseCsi(s)
<1>1. PICK t \in Seq(B) : t = s \o c
  BY Joined
<1>2. PICK n \in Nat, m \in Nat : n = Len(s) /\ m = Len(t)
  OBVIOUS
<1>3. /\ n <= m /\ 2 <= n /\ \A j \in 1 .. n : t[j] = s[j]
      /\ \A i \in 1 .. n + 1, k \in 0 .. n : SubSeq(t, i, k) = SubSeq(s, i, k)
  <2>1. Len(s \o c) = Len(s) + Len(c) /\ Len(c) \in Nat
    OBVIOUS
  <2>2. n <= m /\ 2 <= n
    BY <1>1, <1>2, <2>1
  <2>3. \A j \in 1 .. n : t[j] = s[j]
    BY <1>1, <1>2, Joined
  <2>4. \A i \in 1 .. n + 1, k \in 0 .. n : SubSeq(t, i, k) = SubSeq(s, i, k)
    BY <1>1, <1>2, Joined, ZenonT(40)
  <2>. QED
    BY <2>2, <2>3, <2>4
<1>4. PICK e : e = ParamEnd(s)
  OBVIOUS
<1>5. PICK l : l = CsiLast(s)
  OBVIOUS
<1>6. /\ e \in 3 .. n /\ l \in e .. n
      /\ IsCsiFinal(s[l]) => ParseCsi(s) = Ok(l, DispatchCsi(SubSeq(s, 3, e - 1), s[l]))
      /\ ~IsCsiFinal(s[l]) => ParseCsi(s) = Malformed
  <2>1. CsiFound(s)
    BY CsiIs
  <2>2. e \in 3 .. n + 1 /\ l \in e .. n + 1 /\ l <= n
    BY <1>2, <1>4, <1>5, <2>1, Zenon DEF CsiFound
  <2>3. e \in 3 .. n /\ l \in e .. n
    BY <2>2
  <2>. QED
    BY <1>2, <1>4, <1>5, <2>1, <2>2, <2>3, Zenon DEF CsiFound
<1>7. ParamEnd(t) = e
  <2>1. ParamStops(s, 3) \in SUBSET (3 .. n) /\ ParamStops(t, 3) \in SUBSET (3 .. m) /\ 3 \in 1 .. n + 1
    BY <1>2, <1>3 DEF ParamStops
  <2>2. \A j \in 3 .. n : j \in ParamStops(s, 3) <=> j \in ParamStops(t, 3)
    BY <1>2, <1>3 DEF ParamStops
  <2>3. First(ParamStops(s, 3), n) = e /\ e <= n
    BY <1>2, <1>4, <1>6 DEF ParamEnd
  <2>4. First(ParamStops(t, 3), m) = First(ParamStops(s, 3), n)
    BY <1>3, <2>1, <2>2, <2>3, FirstStays
  <2>. QED
    BY <1>2, <2>3, <2>4 DEF ParamEnd
<1>8. CsiLast(t) = l
  <2>1. InterStops(s, e) \in SUBSET (e .. n) /\ InterStops(t, e) \in SUBSET (e .. m) /\ e \in 1 .. n + 1
    BY <1>2, <1>3, <1>6 DEF InterStops
  <2>2. \A j \in e .. n : j \in InterStops(s, e) <=> j \in InterStops(t, e)
    BY <1>2, <1>3, <1>6 DEF InterStops
  <2>3. First(InterStops(s, e), n) = l /\ l <= n
    BY <1>2, <1>4, <1>5, <1>6 DEF CsiLast
  <2>4. First(InterStops(t, e), m) = First(InterStops(s, e), n)
    BY <1>3, <2>1, <2>2, <2>3, FirstStays
  <2>. QED
    BY <1>2, <1>7, <2>3, <2>4 DEF CsiLast
<1>9. CsiFound(t)
  <2>1. Len(t) >= 2
    BY <1>2, <1>3
  <2>. QED
    BY <2>1, CsiIs
<1>10. t[l] = s[l] /\ SubSeq(t, 3, e - 1) = SubSeq(s, 3, e - 1) /\ l <= Len(t)
  <2>1. l \in 1 .. n /\ 3 \in 1 .. n + 1 /\ e - 1 \in 0 .. n /\ l <= m
    BY <1>3, <1>6
  <2>. QED
    BY <1>2, <1>3, <2>1
<1>11. /\ IsCsiFinal(s[l]) => ParseCsi(t) = Ok(l, DispatchCsi(SubSeq(s, 3, e - 1), s[l]))
       /\ ~IsCsiFinal(s[l]) => ParseCsi(t) = Malformed
  BY <1>7, <1>8, <1>9, <1>10, Zenon DEF CsiFound
<1>. QED
  BY <1>1, <1>4, <1>5, <1>6, <1>7, <1>8, <1>11, Zenon

\* What ParseEscOther finds.
EscFound(s) ==
    /\ EscLast(s) \in 2 .. Len(s) + 1
    /\ \A j \in 2 .. EscLast(s) - 1 : IsInter(s[j])
    /\ EscLast(s) > Len(s) => ParseEscOther(s) = Incomplete
    /\ EscLast(s) <= Len(s) /\ IsEscFinal(s[EscLast(s)]) => ParseEscOther(s) = Ok(EscLast(s), <<>>)
    /\ EscLast(s) <= Len(s) /\ ~IsEscFinal(s[EscLast(s)]) => ParseEscOther(s) = Malformed

\* parse_esc_other's scan, and what is made of the byte it stops at.
LEMMA EscIs ==
    ASSUME NEW B, NEW s \in Seq(B), Len(s) >= 1
    PROVE  EscFound(s)
<1>1. PICK n \in Nat : n = Len(s)
  OBVIOUS
<1>2. PICK l : l = EscLast(s)
  OBVIOUS
<1>. USE <1>1
<1>3. l \in 2 .. n + 1 /\ \A j \in 2 .. l - 1 : IsInter(s[j])
  <2>1. InterStops(s, 2) \in SUBSET (2 .. n) /\ 2 \in 1 .. n + 1
    BY DEF InterStops
  <2>2. First(InterStops(s, 2), n) \in 2 .. n + 1 /\ \A k \in InterStops(s, 2) : First(InterStops(s, 2), n) <= k
    BY <2>1, FirstLeast
  <2>3. l \in 2 .. n + 1 /\ \A k \in InterStops(s, 2) : l <= k
    BY <1>2, <2>2 DEF EscLast
  <2>4. \A j \in 2 .. l - 1 : j \notin InterStops(s, 2) /\ j \in 2 .. n
    BY <2>3
  <2>. QED
    BY <2>3, <2>4 DEF InterStops
<1>4. 2 + Span(s, 2, IsInter) = l
  <2>1. Span(s, 2, IsInter) = l - 2
    BY <1>2, Spans, Zenon DEF EscLast
  <2>. QED
    BY <1>3, <2>1
<1>5. ParseEscOther(s) = CASE l > n                       -> Incomplete
                           [] l <= n /\ IsEscFinal(s[l])  -> Ok(l, <<>>)
                           [] l <= n /\ ~IsEscFinal(s[l]) -> Malformed
  BY <1>4, Zenon DEF ParseEscOther
<1>6. /\ l > n => ParseEscOther(s) = Incomplete
      /\ l <= n /\ IsEscFinal(s[l]) => ParseEscOther(s) = Ok(l, <<>>)
      /\ l <= n /\ ~IsEscFinal(s[l]) => ParseEscOther(s) = Malformed
  <2>1. l > n <=> ~(l <= n)
    BY <1>3
  <2>. QED
    BY <1>5, <2>1, Zenon
<1>. QED
  BY <1>2, <1>3, <1>6, Zenon DEF EscFound

\* It finds the same with more behind.
LEMMA EscOtherStays ==
    ASSUME NEW B, NEW s \in Seq(B), NEW c \in Seq(B), Len(s) >= 1, EscLast(s) <= Len(s)
    PROVE  ParseEscOther(s \o c) = ParseEscOther(s)
<1>1. PICK t \in Seq(B) : t = s \o c
  BY Joined
<1>2. PICK n \in Nat, m \in Nat : n = Len(s) /\ m = Len(t)
  OBVIOUS
<1>3. n <= m /\ 1 <= n /\ \A j \in 1 .. n : t[j] = s[j]
  <2>1. Len(s \o c) = Len(s) + Len(c) /\ Len(c) \in Nat
    OBVIOUS
  <2>2. n <= m /\ 1 <= n
    BY <1>1, <1>2, <2>1
  <2>3. \A j \in 1 .. n : t[j] = s[j]
    BY <1>1, <1>2, Joined
  <2>. QED
    BY <2>2, <2>3
<1>4. PICK l : l = EscLast(s)
  OBVIOUS
<1>5. /\ l \in 2 .. n
      /\ IsEscFinal(s[l]) => ParseEscOther(s) = Ok(l, <<>>)
      /\ ~IsEscFinal(s[l]) => ParseEscOther(s) = Malformed
  <2>1. EscFound(s)
    BY EscIs
  <2>2. l \in 2 .. n + 1 /\ l <= n
    BY <1>2, <1>4, <2>1, Zenon DEF EscFound
  <2>3. l \in 2 .. n
    BY <2>2
  <2>. QED
    BY <1>2, <1>4, <2>1, <2>2, <2>3, Zenon DEF EscFound
<1>6. EscLast(t) = l
  <2>1. InterStops(s, 2) \in SUBSET (2 .. n) /\ InterStops(t, 2) \in SUBSET (2 .. m) /\ 2 \in 1 .. n + 1
    BY <1>2, <1>3 DEF InterStops
  <2>2. \A j \in 2 .. n : j \in InterStops(s, 2) <=> j \in InterStops(t, 2)
    BY <1>2, <1>3 DEF InterStops
  <2>3. First(InterStops(s, 2), n) = l /\ l <= n
    BY <1>2, <1>4, <1>5 DEF EscLast
  <2>4. First(InterStops(t, 2), m) = First(InterStops(s, 2), n)
    BY <1>3, <2>1, <2>2, <2>3, FirstStays
  <2>. QED
    BY <1>2, <2>3, <2>4 DEF EscLast
<1>7. EscFound(t)
  <2>1. Len(t) >= 1
    BY <1>2, <1>3
  <2>. QED
    BY <2>1, EscIs
<1>8. t[l] = s[l] /\ l <= Len(t)
  BY <1>2, <1>3, <1>5
<1>9. /\ IsEscFinal(s[l]) => ParseEscOther(t) = Ok(l, <<>>)
      /\ ~IsEscFinal(s[l]) => ParseEscOther(t) = Malformed
  BY <1>6, <1>7, <1>8, Zenon DEF EscFound
<1>. QED
  BY <1>1, <1>5, <1>9, Zenon

\* What ParseOsc finds: the terminator, where there is one.
OscEnd(s) == First(OscStops(s), Len(s))
OscUsed(s) == IF BelAt(s, OscEnd(s)) THEN OscEnd(s) ELSE OscEnd(s) + 1

OscFound(s) ==
    /\ OscStops(s) = {} => ParseOsc(s) = Incomplete
    /\ OscStops(s) # {} =>
          /\ OscEnd(s) \in 3 .. Len(s) /\ OscEnd(s) \in OscStops(s)
          /\ \A k \in OscStops(s) : OscEnd(s) <= k
          /\ OscUsed(s) \in 3 .. Len(s) /\ s[OscUsed(s)] \in {"BEL", "\\"}
          /\ ParseOsc(s) = Ok(OscUsed(s), OscCommand(SubSeq(s, 3, OscEnd(s) - 1)))

\* parse_osc's scan for a terminator.
LEMMA OscIs ==
    ASSUME NEW B, NEW s \in Seq(B), Len(s) >= 2
    PROVE  OscFound(s)
<1>1. PICK n \in Nat : n = Len(s)
  OBVIOUS
<1>2. PICK e : e = OscEnd(s)
  OBVIOUS
<1>3. PICK E : E = OscStops(s)
  OBVIOUS
<1>4. E \in SUBSET (3 .. n) /\ 3 \in 1 .. n + 1
  BY <1>1, <1>3 DEF OscStops
<1>5. CASE E = {}
  <2>1. ParseOsc(s) = Incomplete
    BY <1>3, <1>5, Zenon DEF ParseOsc, OscStops
  <2>. QED
    BY <1>3, <1>5, <2>1, Zenon DEF OscFound
<1>6. CASE E # {}
  <2>1. First(E, n) \in E /\ \A k \in E : First(E, n) <= k
    BY <1>1, <1>4, <1>6, FirstLeast
  <2>2. e \in E /\ e \in 3 .. n /\ \A k \in E : e <= k
    BY <1>1, <1>2, <1>3, <1>4, <2>1 DEF OscEnd
  <2>3. OscStops(s) # {}
    BY <1>3, <1>6
  <2>4. ParseOsc(s) = Ok(OscUsed(s), OscCommand(SubSeq(s, 3, OscEnd(s) - 1)))
    <3>. DEFINE ends == {i \in 3 .. Len(s) : BelAt(s, i) \/ StAt(s, i)}
                end == CHOOSE i \in ends : \A j \in ends : i <= j
    <3>1. OscStops(s) = ends
      BY Zenon DEF OscStops
    <3>2. OscEnd(s) = end
      BY <2>3, <3>1, Zenon DEF OscEnd, First
    <3>3. ParseOsc(s) = IF ends = {} THEN Incomplete
                        ELSE Ok(IF BelAt(s, end) THEN end ELSE end + 1, OscCommand(SubSeq(s, 3, end - 1)))
      BY Zenon DEF ParseOsc
    <3>. HIDE DEF end
    <3>. QED
      BY <2>3, <3>1, <3>2, <3>3, Zenon DEF OscUsed
  <2>5. BelAt(s, e) \/ StAt(s, e)
    BY <1>3, <2>2, Zenon DEF OscStops
  <2>6. OscUsed(s) \in 3 .. n /\ s[OscUsed(s)] \in {"BEL", "\\"}
    <3>1. CASE BelAt(s, e)
      <4>1. OscUsed(s) = e
        BY <1>2, <3>1, Zenon DEF OscUsed
      <4>2. s[e] = "BEL"
        BY <3>1, Zenon DEF BelAt
      <4>. QED
        BY <2>2, <4>1, <4>2, Zenon
    <3>2. CASE ~BelAt(s, e)
      <4>1. OscUsed(s) = e + 1
        BY <1>2, <3>2, Zenon DEF OscUsed
      <4>2. e < n /\ s[e + 1] = "\\"
        BY <1>1, <2>5, <3>2, Zenon DEF StAt
      <4>3. e + 1 \in 3 .. n
        BY <2>2, <4>2, <1>1
      <4>. QED
        BY <4>1, <4>2, <4>3, Zenon
    <3>. QED
      BY <3>1, <3>2
  <2>. QED
    BY <1>1, <1>2, <1>3, <1>6, <2>2, <2>4, <2>6, Zenon DEF OscFound
<1>. QED
  BY <1>5, <1>6

\* It finds the same with more behind, which may make a terminator of an ESC at
\* the end, but none before.
LEMMA OscStays ==
    ASSUME NEW B, NEW s \in Seq(B), NEW c \in Seq(B), Len(s) >= 2, OscStops(s) # {}
    PROVE  ParseOsc(s \o c) = ParseOsc(s)
<1>1. PICK t \in Seq(B) : t = s \o c
  BY Joined
<1>2. PICK n \in Nat, m \in Nat : n = Len(s) /\ m = Len(t)
  OBVIOUS
<1>3. /\ n <= m /\ 2 <= n /\ \A j \in 1 .. n : t[j] = s[j]
      /\ \A i \in 1 .. n + 1, k \in 0 .. n : SubSeq(t, i, k) = SubSeq(s, i, k)
  <2>1. Len(s \o c) = Len(s) + Len(c) /\ Len(c) \in Nat
    OBVIOUS
  <2>2. n <= m /\ 2 <= n
    BY <1>1, <1>2, <2>1
  <2>3. \A j \in 1 .. n : t[j] = s[j]
    BY <1>1, <1>2, Joined
  <2>4. \A i \in 1 .. n + 1, k \in 0 .. n : SubSeq(t, i, k) = SubSeq(s, i, k)
    BY <1>1, <1>2, Joined, ZenonT(40)
  <2>. QED
    BY <2>2, <2>3, <2>4
<1>4. PICK e : e = OscEnd(s)
  OBVIOUS
<1>5. PICK f : f = OscEnd(t)
  OBVIOUS
<1>6. OscFound(s) /\ OscFound(t)
  <2>1. Len(t) >= 2
    BY <1>2, <1>3
  <2>. QED
    BY <2>1, OscIs
<1>7. e \in 3 .. n /\ e \in OscStops(s) /\ \A k \in OscStops(s) : e <= k
  BY <1>2, <1>4, <1>6, Zenon DEF OscFound
<1>8. \A j \in 3 .. n : BelAt(t, j) <=> BelAt(s, j)
  BY <1>3 DEF BelAt
<1>9. \A j \in 3 .. n : StAt(s, j) => StAt(t, j)
  <2>1. \A j \in 3 .. n : j < n => j \in 1 .. n /\ j + 1 \in 1 .. n /\ j < m
    BY <1>3
  <2>. QED
    BY <1>2, <1>3, <2>1, Zenon DEF StAt
<1>10. \A j \in 3 .. n - 1 : StAt(t, j) => StAt(s, j)
  <2>1. \A j \in 3 .. n - 1 : j < n /\ j \in 1 .. n /\ j + 1 \in 1 .. n
    BY <1>3
  <2>. QED
    BY <1>2, <1>3, <2>1, Zenon DEF StAt
<1>11. e \in OscStops(t)
  <2>1. BelAt(s, e) \/ StAt(s, e)
    BY <1>7, Zenon DEF OscStops
  <2>2. e \in 3 .. m
    BY <1>3, <1>7
  <2>. QED
    BY <1>2, <1>7, <1>8, <1>9, <2>1, <2>2, Zenon DEF OscStops
<1>12. f \in 3 .. m /\ f \in OscStops(t) /\ f <= e
  BY <1>2, <1>5, <1>6, <1>11, Zenon DEF OscFound
<1>13. f = e
  <2>1. CASE f < e
    <3>1. f \in 3 .. n - 1 /\ f \in 3 .. n
      BY <1>7, <1>12, <2>1
    <3>2. BelAt(s, f) \/ StAt(s, f)
      <4>1. BelAt(t, f) \/ StAt(t, f)
        BY <1>12, Zenon DEF OscStops
      <4>. QED
        BY <1>8, <1>10, <3>1, <4>1, Zenon
    <3>3. f \in OscStops(s)
      BY <1>2, <3>1, <3>2, Zenon DEF OscStops
    <3>. QED
      BY <1>7, <1>12, <2>1, <3>3
  <2>. QED
    BY <1>7, <1>12, <2>1
<1>14. OscUsed(t) = OscUsed(s)
  BY <1>4, <1>5, <1>7, <1>8, <1>13, Zenon DEF OscUsed
<1>15. SubSeq(t, 3, e - 1) = SubSeq(s, 3, e - 1)
  <2>1. 3 \in 1 .. n + 1 /\ e - 1 \in 0 .. n
    BY <1>3, <1>7
  <2>. QED
    BY <1>3, <2>1, Zenon
<1>16. ParseOsc(s) = Ok(OscUsed(s), OscCommand(SubSeq(s, 3, e - 1)))
  BY <1>4, <1>6, Zenon DEF OscFound
<1>17. ParseOsc(t) = Ok(OscUsed(t), OscCommand(SubSeq(t, 3, f - 1)))
  BY <1>5, <1>6, <1>12, Zenon DEF OscFound
<1>. QED
  BY <1>1, <1>13, <1>14, <1>15, <1>16, <1>17, Zenon

-----------------------------------------------------------------------------

\* A sequence of whatever.
IsSeq(x) == \E S : x \in Seq(S)

\* A sequence of one command at most.
OneAtMost(cmds) == cmds = <<>> \/ \E cmd : cmds = <<cmd>>

\* A CSI sequence is one command, or ignored.
LEMMA DispatchOne == \A bytes, final : OneAtMost(DispatchCsi(bytes, final))
<1>1. SUFFICES ASSUME NEW bytes, NEW final PROVE OneAtMost(DispatchCsi(bytes, final))
  OBVIOUS
<1>2. \A prefix, rest : OneAtMost(DispatchCsiPrivate(prefix, rest, final))
  BY Zenon DEF DispatchCsiPrivate, OneAtMost
<1>3. \A params : OneAtMost(StandardCsi(params, final))
  <2>1. OneAtMost(<<>>) /\ \A x : OneAtMost(<<x>>)
    BY Zenon DEF OneAtMost
  <2>. QED
    BY <2>1, SMT DEF StandardCsi
<1>. QED
  BY <1>2, <1>3, Zenon DEF DispatchCsi

-----------------------------------------------------------------------------
(* What is left of a sequence, and one character.                           *)

Drop(s, n) == SubSeq(s, n + 1, Len(s))

\* What is left when n bytes are taken.
LEMMA Dropped ==
    ASSUME NEW B, NEW s \in Seq(B), NEW n \in 0 .. Len(s)
    PROVE  /\ Drop(s, n) \in Seq(B) /\ Len(Drop(s, n)) = Len(s) - n
           /\ \A j \in 1 .. Len(s) - n : Drop(s, n)[j] = s[j + n]
           /\ \A k \in 0 .. Len(s) - n : Drop(Drop(s, n), k) = Drop(s, n + k)
           /\ Drop(s, 0) = s
<1>1. PICK l \in Nat : l = Len(s)
  OBVIOUS
<1>2. \A k \in 0 .. l : /\ Drop(s, k) \in Seq(B) /\ Len(Drop(s, k)) = l - k
                        /\ \A j \in 1 .. l - k : Drop(s, k)[j] = s[j + k]
  <2>1. SUFFICES ASSUME NEW k \in 0 .. l
                 PROVE  /\ Drop(s, k) \in Seq(B) /\ Len(Drop(s, k)) = l - k
                        /\ \A j \in 1 .. l - k : Drop(s, k)[j] = s[j + k]
    OBVIOUS
  <2>2. SubSeq(s, k + 1, l) = [j \in 1 .. l - k |-> s[j + k]]
    <3>1. SubSeq(s, k + 1, l) = [j \in 1 .. l - (k + 1) + 1 |-> s[j + (k + 1) - 1]]
      OBVIOUS
    <3>2. l - (k + 1) + 1 = l - k /\ \A j \in 1 .. l - k : j + (k + 1) - 1 = j + k
      OBVIOUS
    <3>. QED
      BY <3>1, <3>2
  <2>3. \A j \in 1 .. l - k : s[j + k] \in B
    BY <1>1
  <2>4. l - k \in Nat
    OBVIOUS
  <2>5. PICK t : t = [j \in 1 .. l - k |-> s[j + k]]
    OBVIOUS
  <2>6. t \in [1 .. l - k -> B]
    BY <2>3, <2>5
  <2>7. t \in Seq(B) /\ Len(t) = l - k
    BY <2>4, <2>6
  <2>. QED
    BY <1>1, <2>2, <2>5, <2>7 DEF Drop
<1>3. ASSUME NEW k \in 0 .. l - n PROVE Drop(Drop(s, n), k) = Drop(s, n + k)
  <2>1. PICK t \in Seq(B) : t = Drop(s, n)
    BY <1>1, <1>2
  <2>2. PICK u \in Seq(B) : u = Drop(s, n + k)
    BY <1>1, <1>2
  <2>3. Len(t) = l - n /\ \A j \in 1 .. l - n : t[j] = s[j + n]
    BY <1>1, <1>2, <2>1
  <2>4. Len(u) = l - (n + k) /\ \A j \in 1 .. l - (n + k) : u[j] = s[j + (n + k)]
    <3>1. n + k \in 0 .. l
      BY <1>1
    <3>. QED
      BY <1>2, <2>2, <3>1
  <2>5. SubSeq(t, k + 1, l - n) = [j \in 1 .. l - n - k |-> t[j + k]]
    <3>1. SubSeq(t, k + 1, l - n) = [j \in 1 .. l - n - (k + 1) + 1 |-> t[j + (k + 1) - 1]]
      OBVIOUS
    <3>2. l - n - (k + 1) + 1 = l - n - k /\ \A j \in 1 .. l - n - k : j + (k + 1) - 1 = j + k
      OBVIOUS
    <3>. QED
      BY <3>1, <3>2
  <2>6. ASSUME NEW j \in 1 .. l - n - k PROVE t[j + k] = u[j]
    <3>1. /\ j + k \in 1 .. l - n /\ j \in 1 .. l - (n + k)
          /\ (j + k) + n = j + (n + k)
      BY <1>1
    <3>2. t[j + k] = s[(j + k) + n]
      BY ONLY <2>3, <3>1
    <3>3. u[j] = s[j + (n + k)]
      BY ONLY <2>4, <3>1
    <3>. QED
      BY <3>1, <3>2, <3>3
  <2>7. l - n - k = Len(u)
    BY <2>4
  <2>8. u = [j \in 1 .. Len(u) |-> u[j]]
    OBVIOUS
  <2>9. SubSeq(t, k + 1, l - n) = u
    BY <2>5, <2>6, <2>7, <2>8
  <2>. QED
    BY <2>1, <2>2, <2>3, <2>9 DEF Drop
<1>4. Drop(s, 0) = s
  <2>1. Drop(s, 0) \in Seq(B) /\ Len(Drop(s, 0)) = l /\ \A j \in 1 .. l : Drop(s, 0)[j] = s[j]
    BY <1>2
  <2>2. PICK t \in Seq(B) : t = Drop(s, 0)
    BY <2>1
  <2>. QED
    BY <1>1, <2>1, <2>2
<1>. QED
  BY <1>1, <1>2, <1>3, <1>4

\* What is left of two sequences one after the other.
LEMMA DropJoined ==
    ASSUME NEW B, NEW s \in Seq(B), NEW c \in Seq(B), NEW n \in 0 .. Len(s)
    PROVE  Drop(s \o c, n) = Drop(s, n) \o c
<1>1. PICK t \in Seq(B) : t = s \o c
  BY Joined
<1>2. Len(t) = Len(s) + Len(c) /\ \A j \in 1 .. Len(s) : t[j] = s[j]
  BY <1>1
<1>3. \A j \in 1 .. Len(c) : t[Len(s) + j] = c[j]
  BY <1>1
<1>4. PICK l \in Nat, m \in Nat : l = Len(s) /\ m = Len(c)
  OBVIOUS
<1>5. PICK u \in Seq(B) : u = Drop(t, n) /\ Len(u) = l + m - n /\ \A j \in 1 .. l + m - n : u[j] = t[j + n]
  <2>1. n \in 0 .. Len(t) /\ Len(t) = l + m
    BY <1>2, <1>4
  <2>2. Drop(t, n) \in Seq(B) /\ Len(Drop(t, n)) = Len(t) - n
        /\ \A j \in 1 .. Len(t) - n : Drop(t, n)[j] = t[j + n]
    BY <2>1, Dropped
  <2>. QED
    BY <2>1, <2>2, SMTT(40)
<1>6. PICK r \in Seq(B) : r = Drop(s, n) /\ Len(r) = l - n /\ \A j \in 1 .. l - n : r[j] = s[j + n]
  BY <1>4, Dropped
<1>7. PICK v \in Seq(B) : v = r \o c
  BY Joined
<1>8. Len(v) = l - n + m /\ (\A j \in 1 .. l - n : v[j] = r[j]) /\ \A j \in 1 .. m : v[l - n + j] = c[j]
  <2>1. Len(v) = Len(r) + Len(c) /\ (\A j \in 1 .. Len(r) : v[j] = r[j]) /\ \A j \in 1 .. Len(c) : v[Len(r) + j] = c[j]
    BY <1>7, Joined
  <2>2. Len(r) = l - n /\ Len(c) = m
    BY <1>4, <1>6
  <2>. QED
    BY <2>1, <2>2
<1>9. \A j \in 1 .. l + m - n : v[j] = u[j]
  <2>1. SUFFICES ASSUME NEW j \in 1 .. l + m - n PROVE v[j] = u[j]
    OBVIOUS
  <2>2. CASE j <= l - n
    BY <1>2, <1>4, <1>5, <1>6, <1>8, <2>2
  <2>3. CASE j > l - n
    <3>1. PICK i \in 1 .. m : j = l - n + i
      <4>1. j - (l - n) \in 1 .. m /\ j = l - n + (j - (l - n))
        BY <2>3
      <4>. QED
        BY <4>1
    <3>2. v[j] = c[i]
      BY <1>8, <3>1
    <3>3. j + n = l + i
      BY <3>1
    <3>. QED
      BY <1>3, <1>4, <1>5, <3>2, <3>3
  <2>. QED
    BY <2>2, <2>3
<1>10. v = u
  <2>1. Len(v) = Len(u)
    BY <1>5, <1>8
  <2>. QED
    BY <1>5, <1>9, <2>1
<1>. QED
  BY <1>1, <1>5, <1>6, <1>7, <1>10

\* How much of the rest of a character is behind its first byte at `i`.
Continues(s, i) == i <= Len(s) /\ s[i] = "82"
More(s, i) == IF ~Continues(s, i + 1) THEN 0 ELSE IF ~Continues(s, i + 2) THEN 1 ELSE 2

\* What Unit says of a byte with so much of a character behind it, of so many
\* bytes.
UnitOf(b, more, left) ==
    CASE b = "E2" -> [len |-> 1 + more, ok |-> more = 2, open |-> more < 2 /\ more = left]
      [] b = "82" -> [len |-> 1, ok |-> FALSE, open |-> FALSE]
      [] OTHER    -> [len |-> 1, ok |-> TRUE, open |-> FALSE]

\* A character is told by its first byte and by how many of the next two go on.
LEMMA UnitIs ==
    ASSUME NEW B, NEW s \in Seq(B), NEW i \in 1 .. Len(s)
    PROVE  /\ Unit(s, i) = UnitOf(s[i], More(s, i), Len(s) - i)
           /\ More(s, i) \in 0 .. 2 /\ i + More(s, i) <= Len(s)
           /\ \A j \in i + 1 .. i + More(s, i) : s[j] = "82"
<1>1. PICK n \in Nat : n = Len(s)
  OBVIOUS
<1>2. PICK f : f = First(CharStops(s, i + 1), n)
  OBVIOUS
<1>3. /\ f \in i + 1 .. n + 1
      /\ f <= n => s[f] # "82"
      /\ \A j \in i + 1 .. f - 1 : s[j] = "82"
  <2>1. CharStops(s, i + 1) \in SUBSET (i + 1 .. n) /\ i + 1 \in 1 .. n + 1
    BY <1>1 DEF CharStops
  <2>2. /\ First(CharStops(s, i + 1), n) \in i + 1 .. n + 1
        /\ CharStops(s, i + 1) = {} => First(CharStops(s, i + 1), n) = n + 1
        /\ CharStops(s, i + 1) # {} => First(CharStops(s, i + 1), n) \in CharStops(s, i + 1)
        /\ \A k \in CharStops(s, i + 1) : First(CharStops(s, i + 1), n) <= k
    BY <2>1, FirstLeast
  <2>3. f \in i + 1 .. n + 1 /\ (f <= n => f \in CharStops(s, i + 1)) /\ \A k \in CharStops(s, i + 1) : f <= k
    BY <1>2, <2>2
  <2>4. \A j \in i + 1 .. f - 1 : j \notin CharStops(s, i + 1) /\ j \in i + 1 .. n
    BY <2>3
  <2>. QED
    BY <1>1, <2>3, <2>4 DEF CharStops
<1>4. Minimum(2, f - (i + 1)) = More(s, i)
  <2>1. CASE f = i + 1
    <3>1. ~Continues(s, i + 1)
      BY <1>1, <1>3, <2>1 DEF Continues
    <3>. QED
      BY <2>1, <3>1 DEF More, Minimum
  <2>2. CASE f = i + 2
    <3>1. Continues(s, i + 1) /\ ~Continues(s, i + 2)
      BY <1>1, <1>3, <2>2 DEF Continues
    <3>. QED
      BY <2>2, <3>1 DEF More, Minimum
  <2>3. CASE f > i + 2
    <3>1. Continues(s, i + 1) /\ Continues(s, i + 2)
      BY <1>1, <1>3, <2>3 DEF Continues
    <3>. QED
      BY <1>3, <2>3, <3>1 DEF More, Minimum
  <2>. QED
    BY <1>3, <2>1, <2>2, <2>3
<1>5. Unit(s, i) = UnitOf(s[i], More(s, i), Len(s) - i)
  <2>1. Minimum(2, Span(s, i + 1, LAMBDA b : b = "82")) = More(s, i)
    BY <1>1, <1>2, <1>4, Spans, Zenon
  <2>2. More(s, i) \in 0 .. 2
    BY <1>3, <1>4 DEF Minimum
  <2>3. (i + More(s, i) = Len(s)) = (More(s, i) = Len(s) - i)
    <3>1. PICK more \in 0 .. 2 : more = More(s, i)
      BY <2>2
    <3>2. i + more = n <=> more = n - i
      BY <1>1
    <3>. QED
      BY <1>1, <3>1, <3>2
  <2>. QED
    BY <2>1, <2>3, Zenon DEF Unit, UnitOf
<1>6. More(s, i) \in 0 .. 2 /\ i + More(s, i) <= n /\ i + More(s, i) <= f - 1
  BY <1>3, <1>4 DEF More, Minimum
<1>7. \A j \in i + 1 .. i + More(s, i) : s[j] = "82"
  BY <1>3, <1>6
<1>. QED
  BY <1>1, <1>5, <1>6, <1>7

\* Which it is, by the first byte.
LEMMA UnitOfE2 ==
    ASSUME NEW more, NEW left, NEW u, u = UnitOf("E2", more, left)
    PROVE  u.len = 1 + more /\ (u.ok <=> more = 2) /\ (u.open <=> more < 2 /\ more = left)
           /\ u.ok \in BOOLEAN /\ u.open \in BOOLEAN
<1>1. u = [len |-> 1 + more, ok |-> more = 2, open |-> more < 2 /\ more = left]
  BY Zenon DEF UnitOf
<1>2. u.len = 1 + more
  BY <1>1
<1>3. u.ok = (more = 2)
  BY <1>1
<1>4. u.open = (more < 2 /\ more = left)
  BY <1>1
<1>5. (u.ok <=> more = 2) /\ u.ok \in BOOLEAN
  BY <1>3
<1>6. (u.open <=> more < 2 /\ more = left) /\ u.open \in BOOLEAN
  BY <1>4
<1>. QED
  BY <1>2, <1>5, <1>6, Zenon

\* A byte that begins no long character is one by itself, whatever follows.
LEMMA UnitOfOther ==
    ASSUME NEW b, b # "E2", NEW more, NEW left, NEW u, u = UnitOf(b, more, left)
    PROVE  /\ u.len = 1 /\ ~u.open /\ u.ok \in BOOLEAN /\ u.open \in BOOLEAN
           /\ \A mor2, left2 : UnitOf(b, mor2, left2) = u
<1>1. CASE b = "82"
  <2>1. \A mor2, left2 : UnitOf(b, mor2, left2) = [len |-> 1, ok |-> FALSE, open |-> FALSE]
    BY <1>1, Zenon DEF UnitOf
  <2>2. u = [len |-> 1, ok |-> FALSE, open |-> FALSE]
    BY <2>1, Zenon
  <2>3. u.len = 1 /\ u.ok = FALSE /\ u.open = FALSE
    BY <2>2
  <2>. QED
    BY <2>1, <2>2, <2>3, Zenon
<1>2. CASE b # "82"
  <2>1. \A mor2, left2 : UnitOf(b, mor2, left2) = [len |-> 1, ok |-> TRUE, open |-> FALSE]
    BY <1>2, Zenon DEF UnitOf
  <2>2. u = [len |-> 1, ok |-> TRUE, open |-> FALSE]
    BY <2>1, Zenon
  <2>3. u.len = 1 /\ u.ok = TRUE /\ u.open = FALSE
    BY <2>2
  <2>. QED
    BY <2>1, <2>2, <2>3, Zenon
<1>. QED
  BY <1>1, <1>2, Zenon

\* What it says, in parts: a character is whole, open or broken, and what is
\* open is all there is.
UnitFound(s, i) ==
    /\ Unit(s, i).len \in 1 .. Len(s) - i + 1
    /\ Unit(s, i).ok \in BOOLEAN /\ Unit(s, i).open \in BOOLEAN
    /\ Unit(s, i).open => ~Unit(s, i).ok /\ Unit(s, i).len = Len(s) - i + 1
    /\ Unit(s, i).open \/ Unit(s, i).len > 1 =>
          \A j \in i .. i + Unit(s, i).len - 1 : s[j] \in {"E2", "82"}

\* A character lies within the run; one that is cut short is the run's last.
LEMMA UnitParts ==
    ASSUME NEW B, NEW s \in Seq(B), NEW i \in 1 .. Len(s)
    PROVE  UnitFound(s, i)
<1>1. PICK more : more = More(s, i)
  OBVIOUS
<1>2. PICK u : u = Unit(s, i)
  OBVIOUS
<1>3. u = UnitOf(s[i], more, Len(s) - i)
  BY <1>1, <1>2, UnitIs, Zenon
<1>4. more \in 0 .. 2 /\ i + more <= Len(s) /\ \A j \in i + 1 .. i + more : s[j] = "82"
  BY <1>1, UnitIs
<1>5. CASE s[i] = "E2"
  <2>1. u.len = 1 + more /\ (u.ok <=> more = 2) /\ (u.open <=> more < 2 /\ more = Len(s) - i)
        /\ u.ok \in BOOLEAN /\ u.open \in BOOLEAN
    <3>1. PICK left : left = Len(s) - i
      OBVIOUS
    <3>2. u = UnitOf("E2", more, left)
      BY <1>3, <1>5, <3>1, Zenon
    <3>. QED
      BY <3>1, <3>2, UnitOfE2, ZenonT(90)
  <2>2. \A j \in i .. i + more : s[j] \in {"E2", "82"}
    <3>1. \A j \in i .. i + more : j = i \/ j \in i + 1 .. i + more
      BY <1>4
    <3>. QED
      BY <1>4, <1>5, <3>1, Zenon
  <2>3. i + u.len - 1 = i + more /\ u.len \in 1 .. Len(s) - i + 1
    BY <1>4, <2>1
  <2>4. u.open => ~u.ok /\ u.len = Len(s) - i + 1
    BY <1>4, <2>1
  <2>. QED
    BY <1>2, <2>1, <2>2, <2>3, <2>4, Zenon DEF UnitFound
<1>6. CASE s[i] # "E2"
  <2>1. u.len = 1 /\ ~u.open /\ u.ok \in BOOLEAN /\ u.open \in BOOLEAN
    <3>1. PICK b, left : b = s[i] /\ left = Len(s) - i
      OBVIOUS
    <3>2. u = UnitOf(b, more, left) /\ b # "E2"
      BY <1>3, <1>6, <3>1, Zenon
    <3>. QED
      BY <3>2, UnitOfOther
  <2>2. u.len \in 1 .. Len(s) - i + 1 /\ ~(u.len > 1)
    BY <2>1
  <2>. QED
    BY <1>2, <2>1, <2>2, Zenon DEF UnitFound
<1>. QED
  BY <1>5, <1>6

\* It is the same in what is left of a sequence.
LEMMA UnitDrop ==
    ASSUME NEW B, NEW s \in Seq(B), NEW n \in 0 .. Len(s), NEW i \in 1 .. Len(s) - n
    PROVE  Unit(Drop(s, n), i) = Unit(s, i + n)
<1>1. PICK l \in Nat : l = Len(s)
  OBVIOUS
<1>2. PICK t \in Seq(B) : t = Drop(s, n)
  BY Dropped
<1>3. Len(t) = l - n /\ \A j \in 1 .. l - n : t[j] = s[j + n]
  BY <1>1, <1>2, Dropped
<1>4. i \in 1 .. Len(t) /\ i + n \in 1 .. l /\ t[i] = s[i + n]
  BY <1>1, <1>3
<1>5. Continues(t, i + 1) <=> Continues(s, i + n + 1)
  <2>1. i + 1 <= Len(t) <=> i + n + 1 <= l
    BY <1>1, <1>3
  <2>2. i + 1 <= Len(t) => t[i + 1] = s[i + n + 1]
    BY <1>1, <1>3
  <2>. QED
    BY <1>1, <2>1, <2>2, Zenon DEF Continues
<1>6. Continues(t, i + 2) <=> Continues(s, i + n + 2)
  <2>1. i + 2 <= Len(t) <=> i + n + 2 <= l
    BY <1>1, <1>3
  <2>2. i + 2 <= Len(t) => t[i + 2] = s[i + n + 2]
    BY <1>1, <1>3
  <2>. QED
    BY <1>1, <2>1, <2>2, Zenon DEF Continues
<1>7. More(t, i) = More(s, i + n)
  BY <1>5, <1>6, Zenon DEF More
<1>8. PICK more : more = More(s, i + n)
  OBVIOUS
<1>9. Unit(t, i) = UnitOf(s[i + n], more, Len(t) - i)
  BY <1>4, <1>7, <1>8, UnitIs, Zenon
<1>10. Unit(s, i + n) = UnitOf(s[i + n], more, l - (i + n))
  <2>1. i + n \in 1 .. Len(s)
    BY <1>1, <1>4
  <2>. QED
    BY <1>1, <1>8, <2>1, UnitIs, Zenon
<1>11. Len(t) - i = l - (i + n)
  BY <1>3
<1>. QED
  BY <1>2, <1>9, <1>10, <1>11, Zenon

\* A character that is not open is the same whatever follows.
LEMMA UnitStays ==
    ASSUME NEW B, NEW s \in Seq(B), NEW c \in Seq(B), NEW i \in 1 .. Len(s), ~Unit(s, i).open
    PROVE  Unit(s \o c, i) = Unit(s, i)
<1>1. PICK t \in Seq(B) : t = s \o c
  BY Joined
<1>2. PICK l \in Nat : l = Len(s)
  OBVIOUS
<1>3. Len(t) >= l /\ \A j \in 1 .. l : t[j] = s[j]
  <2>1. Len(t) = Len(s) + Len(c) /\ \A j \in 1 .. Len(s) : t[j] = s[j]
    BY <1>1, Joined
  <2>. QED
    BY <1>2, <2>1
<1>4. PICK more : more = More(s, i)
  OBVIOUS
<1>5. PICK mor2 : mor2 = More(t, i)
  OBVIOUS
<1>6. i \in 1 .. Len(t)
  BY <1>2, <1>3
<1>7. Unit(s, i) = UnitOf(s[i], more, l - i)
  BY <1>2, <1>4, UnitIs, Zenon
<1>8. Unit(t, i) = UnitOf(s[i], mor2, Len(t) - i)
  <2>1. t[i] = s[i]
    BY <1>2, <1>3
  <2>. QED
    BY <1>5, <1>6, <2>1, UnitIs, Zenon
<1>9. CASE s[i] # "E2"
  <2>1. PICK b, left, left2 : b = s[i] /\ left = l - i /\ left2 = Len(t) - i
    OBVIOUS
  <2>2. b # "E2" /\ Unit(s, i) = UnitOf(b, more, left) /\ Unit(t, i) = UnitOf(b, mor2, left2)
    BY <1>7, <1>8, <1>9, <2>1, Zenon
  <2>3. \A u : u = UnitOf(b, more, left) => \A m, k : UnitOf(b, m, k) = u
    BY <2>2, UnitOfOther
  <2>. QED
    BY <1>1, <2>2, <2>3, Zenon
<1>10. CASE s[i] = "E2"
  <2>1. PICK u : u = Unit(s, i)
    OBVIOUS
  <2>2. u = UnitOf("E2", more, l - i)
    BY <1>7, <1>10, <2>1, Zenon
  <2>3. more \in 0 .. 2 /\ i + more <= l
    BY <1>2, <1>4, UnitIs
  <2>4. ~(more < 2 /\ i + more = l)
    <3>1. ~(more < 2 /\ more = l - i)
      BY <2>1, <2>2, UnitOfE2, ZenonT(90)
    <3>. QED
      BY <2>3, <3>1
  <2>5. mor2 = more
    <3>1. \A j \in 1 .. l : Continues(t, j) <=> Continues(s, j)
      BY <1>2, <1>3 DEF Continues
    <3>2. CASE more = 2
      <4>1. Continues(s, i + 1) /\ Continues(s, i + 2)
        BY <1>4, <3>2 DEF More
      <4>2. i + 1 \in 1 .. l /\ i + 2 \in 1 .. l
        BY <2>3, <3>2
      <4>. QED
        BY <1>4, <1>5, <3>1, <4>1, <4>2, Zenon DEF More
    <3>3. CASE more = 1
      <4>1. i + 1 \in 1 .. l /\ i + 2 \in 1 .. l
        BY <2>3, <2>4, <3>3
      <4>. QED
        BY <1>4, <1>5, <3>1, <4>1, Zenon DEF More
    <3>4. CASE more = 0
      <4>1. i + 1 \in 1 .. l
        BY <2>3, <2>4, <3>4
      <4>2. ~Continues(s, i + 1)
        BY <1>4, <3>4 DEF More
      <4>. QED
        BY <1>4, <1>5, <3>1, <4>1, <4>2, Zenon DEF More
    <3>. QED
      BY <2>3, <3>2, <3>3, <3>4
  <2>6. (more < 2 /\ more = l - i) = (more < 2 /\ more = Len(t) - i)
    <3>1. ~(more < 2 /\ more = l - i) /\ ~(more < 2 /\ more = Len(t) - i)
      BY <1>3, <2>3, <2>4
    <3>. QED
      BY <3>1
  <2>7. \A left : UnitOf("E2", more, left) = [len |-> 1 + more, ok |-> more = 2, open |-> more < 2 /\ more = left]
    BY Zenon DEF UnitOf
  <2>8. UnitOf("E2", more, l - i) = UnitOf("E2", more, Len(t) - i)
    BY <2>6, <2>7, Zenon
  <2>. QED
    BY <1>1, <1>7, <1>8, <1>10, <2>5, <2>8, Zenon
<1>. QED
  BY <1>9, <1>10

-----------------------------------------------------------------------------
(* A run of text, character by character.                                   *)

\* Sequences of whatever, one after the other.
LEMMA SeqsJoin ==
    ASSUME NEW x, NEW y, NEW z, IsSeq(x), IsSeq(y), IsSeq(z)
    PROVE  IsSeq(x \o y) /\ (x \o y) \o z = x \o (y \o z) /\ <<>> \o x = x /\ x \o <<>> = x
<1>1. PICK S1 : x \in Seq(S1)
  BY DEF IsSeq
<1>2. PICK S2 : y \in Seq(S2)
  BY DEF IsSeq
<1>3. PICK S3 : z \in Seq(S3)
  BY DEF IsSeq
<1>4. PICK S : S = S1 \cup S2 \cup S3
  OBVIOUS
<1>5. x \in Seq(S) /\ y \in Seq(S) /\ z \in Seq(S)
  BY <1>1, <1>2, <1>3, <1>4
<1>6. x \o y \in Seq(S)
  BY <1>5
<1>7. (x \o y) \o z = x \o (y \o z)
  BY <1>5, ConcatAssociative
<1>8. <<>> \o x = x /\ x \o <<>> = x
  BY <1>5
<1>. QED
  BY <1>6, <1>7, <1>8 DEF IsSeq

\* The shortest.
LEMMA SeqsShort == IsSeq(<<>>) /\ \A x : IsSeq(<<x>>)
<1>1. <<>> \in Seq({})
  OBVIOUS
<1>2. \A x : <<x>> \in Seq({x})
  OBVIOUS
<1>. QED
  BY <1>1, <1>2, Zenon DEF IsSeq

\* The character that a part stands for.
Shown(s, i) == PrintChar(IF Unit(s, i).ok THEN s[i] ELSE "FFFD")

LossyAt(s, d, from, i) ==
    IF i > Len(s) THEN <<>> ELSE << Shown(s, i) >> \o from[i + Unit(s, i).len]
Replacing == INSTANCE LoopLemmas WITH Body <- LossyAt

ValidAt(s, d, from, i) ==
    IF i > Len(s) \/ ~Unit(s, i).ok THEN 0 ELSE Unit(s, i).len + from[i + Unit(s, i).len]
Validating == INSTANCE LoopLemmas WITH Body <- ValidAt

\* Where the next character begins.
LEMMA NextUnit ==
    ASSUME NEW B, NEW s \in Seq(B), NEW i \in 1 .. Len(s) + 1, ~(i > Len(s))
    PROVE  i \in 1 .. Len(s) /\ i + Unit(s, i).len \in i + 1 .. Len(s) + 1
<1>1. i \in 1 .. Len(s)
  OBVIOUS
<1>2. Unit(s, i).len \in 1 .. Len(s) - i + 1
  BY <1>1, UnitParts DEF UnitFound
<1>. QED
  BY <1>1, <1>2

\* Both walks over a run look behind the character they are at, never before it.
LEMMA TextLooksAhead ==
    ASSUME NEW B, NEW s \in Seq(B)
    PROVE  /\ Replacing!LooksAhead(s, 0, 1, Len(s) + 1)
           /\ Validating!LooksAhead(s, 0, 1, Len(s) + 1)
<1>1. Replacing!LooksAhead(s, 0, 1, Len(s) + 1)
  <2>1. SUFFICES ASSUME NEW i \in 1 .. Len(s) + 1, NEW f, NEW g, \A j \in i + 1 .. Len(s) + 1 : f[j] = g[j]
                 PROVE  LossyAt(s, 0, f, i) = LossyAt(s, 0, g, i)
    BY Zenon DEF Replacing!LooksAhead
  <2>. QED
    BY <2>1, NextUnit, Zenon DEF LossyAt
<1>2. Validating!LooksAhead(s, 0, 1, Len(s) + 1)
  <2>1. SUFFICES ASSUME NEW i \in 1 .. Len(s) + 1, NEW f, NEW g, \A j \in i + 1 .. Len(s) + 1 : f[j] = g[j]
                 PROVE  ValidAt(s, 0, f, i) = ValidAt(s, 0, g, i)
    BY Zenon DEF Validating!LooksAhead
  <2>. QED
    BY <2>1, NextUnit, Zenon DEF ValidAt
<1>. QED
  BY <1>1, <1>2

\* What is done at a place is what is done there in what is left.
LEMMA TextShifts ==
    ASSUME NEW B, NEW s \in Seq(B), NEW k \in 0 .. Len(s), NEW mid, mid = Len(s) + 1 - k
    PROVE  /\ Replacing!ShiftsBy(s, Drop(s, k), 0, 1, mid, k)
           /\ Validating!ShiftsBy(s, Drop(s, k), 0, 1, mid, k)
<1>. SUFFICES ASSUME NEW i \in 1 .. mid, NEW f, NEW g, \A j \in i + 1 .. mid : f[j] = g[j + k]
              PROVE  /\ LossyAt(Drop(s, k), 0, f, i) = LossyAt(s, 0, g, i + k)
                     /\ ValidAt(Drop(s, k), 0, f, i) = ValidAt(s, 0, g, i + k)
  BY Zenon DEF Replacing!ShiftsBy, Validating!ShiftsBy
<1>1. PICK t \in Seq(B) : t = Drop(s, k)
  BY Dropped
<1>2. Len(t) = Len(s) - k /\ \A j \in 1 .. Len(s) - k : t[j] = s[j + k]
  BY <1>1, Dropped
<1>3. i > Len(t) <=> i + k > Len(s)
  BY <1>2
<1>4. CASE i > Len(t)
  <2>1. LossyAt(t, 0, f, i) = <<>> /\ LossyAt(s, 0, g, i + k) = <<>>
    BY <1>3, <1>4, Zenon DEF LossyAt
  <2>2. ValidAt(t, 0, f, i) = 0 /\ ValidAt(s, 0, g, i + k) = 0
    BY <1>3, <1>4, Zenon DEF ValidAt
  <2>. QED
    BY <1>1, <2>1, <2>2
<1>5. CASE ~(i > Len(t))
  <2>1. i \in 1 .. Len(s) - k /\ i \in 1 .. Len(t) + 1
    BY <1>2, <1>5
  <2>2. Unit(t, i) = Unit(s, i + k) /\ t[i] = s[i + k]
    BY <1>1, <1>2, <2>1, UnitDrop
  <2>3. PICK len : len = Unit(s, i + k).len
    OBVIOUS
  <2>4. i + len \in i + 1 .. Len(s) + 1 - k
    <3>1. i + Unit(t, i).len \in i + 1 .. Len(t) + 1
      BY <1>5, <2>1, NextUnit
    <3>. QED
      BY <1>2, <2>2, <2>3, <3>1
  <2>5. f[i + len] = g[i + k + len]
    <3>1. f[i + len] = g[(i + len) + k]
      BY <2>4
    <3>2. (i + len) + k = i + k + len
      <4>1. i + len \in Int
        BY <2>4
      <4>2. len \in Int
        <5>1. i + k \in 1 .. Len(s)
          BY <2>1
        <5>2. Unit(s, i + k).len \in 1 .. Len(s) - (i + k) + 1
          BY <5>1, UnitParts DEF UnitFound
        <5>. QED
          BY <2>3, <5>2
      <4>. QED
        BY <4>1, <4>2
    <3>. QED
      BY <3>1, <3>2
  <2>6. Shown(t, i) = Shown(s, i + k)
    BY <2>2, Zenon DEF Shown
  <2>7. LossyAt(t, 0, f, i) = LossyAt(s, 0, g, i + k)
    BY <1>3, <1>5, <2>2, <2>3, <2>5, <2>6, Zenon DEF LossyAt
  <2>8. ValidAt(t, 0, f, i) = ValidAt(s, 0, g, i + k)
    BY <1>3, <1>5, <2>2, <2>3, <2>5, Zenon DEF ValidAt
  <2>. QED
    BY <1>1, <2>7, <2>8
<1>. QED
  BY <1>4, <1>5

\* Lossy one character at a time.
LEMMA LossyStep ==
    ASSUME NEW B, NEW s \in Seq(B)
    PROVE  /\ s = <<>> => Lossy(s) = <<>>
           /\ s # <<>> => Lossy(s) = << Shown(s, 1) >> \o Lossy(Drop(s, Unit(s, 1).len))
<1>. DEFINE F(r) == Replacing!Ahead(r, 0, 1, Len(r) + 1)
<1>1. \A r : Lossy(r) = F(r)[1]
  BY Zenon DEF Lossy, Replacing!Ahead, LossyAt, Shown
<1>. HIDE DEF F
<1>2. \A i \in 1 .. Len(s) + 1 : F(s)[i] = LossyAt(s, 0, F(s), i)
  <2>1. PICK h \in Int : h = Len(s) + 1
    OBVIOUS
  <2>2. Replacing!LooksAhead(s, 0, 1, h) /\ 1 <= h
    BY <2>1, TextLooksAhead
  <2>3. \A i \in 1 .. h : Replacing!Ahead(s, 0, 1, h)[i] = LossyAt(s, 0, Replacing!Ahead(s, 0, 1, h), i)
    BY <2>2, Replacing!AheadDefined
  <2>. QED
    BY <2>1, <2>3 DEF F
<1>3. CASE s = <<>>
  <2>1. 1 \in 1 .. Len(s) + 1 /\ 1 > Len(s)
    BY <1>3
  <2>2. F(s)[1] = <<>>
    BY <1>2, <2>1 DEF LossyAt
  <2>. QED
    BY <1>1, <1>3, <2>2
<1>4. CASE s # <<>>
  <2>1. 1 \in 1 .. Len(s) + 1 /\ ~(1 > Len(s))
    BY <1>4
  <2>2. PICK k : k = Unit(s, 1).len
    OBVIOUS
  <2>3. F(s)[1] = << Shown(s, 1) >> \o F(s)[1 + k]
    BY <1>2, <2>1, <2>2 DEF LossyAt
  <2>4. k \in 0 .. Len(s) /\ k \in Nat
    <3>1. 1 + k \in 1 + 1 .. Len(s) + 1
      BY <2>1, <2>2, NextUnit
    <3>2. 1 \in 1 .. Len(s)
      BY <2>1
    <3>3. k \in 1 .. Len(s) - 1 + 1
      BY <2>2, <3>2, UnitParts DEF UnitFound
    <3>. QED
      BY <3>3
  <2>5. PICK t \in Seq(B) : t = Drop(s, k)
    BY <2>4, Dropped
  <2>6. Len(t) = Len(s) - k
    BY <2>4, <2>5, Dropped
  <2>7. F(t)[1] = F(s)[1 + k]
    <3>1. PICK h \in Int, mid \in Int : h = Len(s) + 1 /\ mid = Len(s) + 1 - k
      BY <2>4
    <3>2. Len(t) + 1 = mid /\ mid = h - k /\ 1 <= mid /\ 1 \in 1 .. mid
      BY <2>4, <2>6, <3>1
    <3>3. Replacing!LooksAhead(s, 0, 1, h) /\ Replacing!LooksAhead(t, 0, 1, mid)
      BY <3>1, <3>2, TextLooksAhead
    <3>4. Replacing!ShiftsBy(s, t, 0, 1, mid, k)
      BY <2>4, <2>5, <3>1, TextShifts
    <3>5. Replacing!Apart(s, t, 0, 1, h, mid, k)
      <4>1. 1 \in Int /\ h \in Int /\ mid \in Int /\ k \in Nat /\ mid = h - k /\ 1 <= mid
        BY <2>4, <3>2
      <4>. QED
        BY ONLY <3>3, <3>4, <4>1, Replacing!Shifted, Zenon
    <3>6. Replacing!Ahead(t, 0, 1, mid)[1] = Replacing!Ahead(s, 0, 1, h)[1 + k]
      BY <3>2, <3>5, Zenon DEF Replacing!Apart
    <3>. QED
      BY <3>1, <3>2, <3>6 DEF F
  <2>. QED
    BY <1>1, <1>4, <2>2, <2>3, <2>5, <2>7, Zenon
<1>. QED
  BY <1>3, <1>4

\* ValidUpTo one character at a time.
LEMMA ValidStep ==
    ASSUME NEW B, NEW s \in Seq(B)
    PROVE  /\ s = <<>> \/ ~Unit(s, 1).ok => ValidUpTo(s) = 0
           /\ s # <<>> /\ Unit(s, 1).ok =>
                 ValidUpTo(s) = Unit(s, 1).len + ValidUpTo(Drop(s, Unit(s, 1).len))
<1>. DEFINE F(r) == Validating!Ahead(r, 0, 1, Len(r) + 1)
<1>1. \A r : ValidUpTo(r) = F(r)[1]
  BY Zenon DEF ValidUpTo, Validating!Ahead, ValidAt
<1>. HIDE DEF F
<1>2. \A i \in 1 .. Len(s) + 1 : F(s)[i] = ValidAt(s, 0, F(s), i)
  <2>1. PICK h \in Int : h = Len(s) + 1
    OBVIOUS
  <2>2. Validating!LooksAhead(s, 0, 1, h) /\ 1 <= h
    BY <2>1, TextLooksAhead
  <2>3. \A i \in 1 .. h : Validating!Ahead(s, 0, 1, h)[i] = ValidAt(s, 0, Validating!Ahead(s, 0, 1, h), i)
    BY <2>2, Validating!AheadDefined
  <2>. QED
    BY <2>1, <2>3 DEF F
<1>3. CASE s = <<>> \/ ~Unit(s, 1).ok
  <2>1. 1 \in 1 .. Len(s) + 1 /\ (1 > Len(s) \/ ~Unit(s, 1).ok)
    BY <1>3
  <2>2. F(s)[1] = ValidAt(s, 0, F(s), 1)
    BY <1>2, <2>1
  <2>3. F(s)[1] = 0
    BY <2>1, <2>2, Zenon DEF ValidAt
  <2>. QED
    BY <1>1, <1>3, <2>3
<1>4. CASE s # <<>> /\ Unit(s, 1).ok
  <2>1. 1 \in 1 .. Len(s) + 1 /\ ~(1 > Len(s))
    BY <1>4
  <2>2. PICK k : k = Unit(s, 1).len
    OBVIOUS
  <2>3. F(s)[1] = k + F(s)[1 + k]
    <3>1. F(s)[1] = ValidAt(s, 0, F(s), 1)
      BY <1>2, <2>1
    <3>. QED
      BY <1>4, <2>1, <2>2, <3>1, Zenon DEF ValidAt
  <2>4. k \in 0 .. Len(s) /\ k \in Nat
    <3>2. 1 \in 1 .. Len(s)
      BY <2>1
    <3>3. k \in 1 .. Len(s) - 1 + 1
      BY <2>2, <3>2, UnitParts DEF UnitFound
    <3>. QED
      BY <3>3
  <2>5. PICK t \in Seq(B) : t = Drop(s, k)
    BY <2>4, Dropped
  <2>6. Len(t) = Len(s) - k
    BY <2>4, <2>5, Dropped
  <2>7. F(t)[1] = F(s)[1 + k]
    <3>1. PICK h \in Int, mid \in Int : h = Len(s) + 1 /\ mid = Len(s) + 1 - k
      BY <2>4
    <3>2. Len(t) + 1 = mid /\ mid = h - k /\ 1 <= mid /\ 1 \in 1 .. mid
      BY <2>4, <2>6, <3>1
    <3>3. Validating!LooksAhead(s, 0, 1, h) /\ Validating!LooksAhead(t, 0, 1, mid)
      BY <3>1, <3>2, TextLooksAhead
    <3>4. Validating!ShiftsBy(s, t, 0, 1, mid, k)
      BY <2>4, <2>5, <3>1, TextShifts
    <3>5. Validating!Apart(s, t, 0, 1, h, mid, k)
      <4>1. 1 \in Int /\ h \in Int /\ mid \in Int /\ k \in Nat /\ mid = h - k /\ 1 <= mid
        BY <2>4, <3>2
      <4>. QED
        BY ONLY <3>3, <3>4, <4>1, Validating!Shifted, Zenon
    <3>6. Validating!Ahead(t, 0, 1, mid)[1] = Validating!Ahead(s, 0, 1, h)[1 + k]
      BY <3>2, <3>5, Zenon DEF Validating!Apart
    <3>. QED
      BY <3>1, <3>2, <3>6 DEF F
  <2>. QED
    BY <1>1, <1>4, <2>2, <2>3, <2>5, <2>7, Zenon
<1>. QED
  BY <1>3, <1>4

\* Both results are of the kind they should be.
LEMMA TextTyped ==
    ASSUME NEW B
    PROVE  \A s \in Seq(B) : ValidUpTo(s) \in 0 .. Len(s) /\ IsSeq(Lossy(s))
<1>. DEFINE Good(s) == ValidUpTo(s) \in 0 .. Len(s) /\ IsSeq(Lossy(s))
            T == {n \in Nat : \A s \in Seq(B) : Len(s) = n => Good(s)}
<1>1. ASSUME NEW n \in Nat, \A k \in 0 .. n - 1 : k \in T PROVE n \in T
  <2>1. SUFFICES ASSUME NEW s \in Seq(B), Len(s) = n PROVE Good(s)
    <3>. HIDE DEF Good
    <3>. QED
      OBVIOUS
  <2>2. CASE s = <<>>
    <3>1. ValidUpTo(s) = 0 /\ Lossy(s) = <<>>
      BY <2>2, LossyStep, ValidStep
    <3>. QED
      BY <2>2, <3>1, SeqsShort
  <2>3. CASE s # <<>>
    <3>1. PICK k : k = Unit(s, 1).len
      OBVIOUS
    <3>2. k \in 1 .. n
      <4>1. 1 \in 1 .. Len(s)
        BY <2>3
      <4>2. k \in 1 .. Len(s) - 1 + 1
        BY <3>1, <4>1, UnitParts DEF UnitFound
      <4>. QED
        BY <2>1, <4>2
    <3>3. PICK t \in Seq(B) : t = Drop(s, k) /\ Len(t) = n - k
      <4>1. k \in 0 .. Len(s)
        BY <2>1, <3>2
      <4>. QED
        BY <2>1, <4>1, Dropped
    <3>4. Good(t)
      <4>1. n - k \in 0 .. n - 1
        BY <3>2
      <4>2. n - k \in T
        BY <1>1, <4>1
      <4>. HIDE DEF Good
      <4>. QED
        BY <3>3, <4>2
    <3>5. IsSeq(Lossy(s))
      <4>1. Lossy(s) = << Shown(s, 1) >> \o Lossy(t)
        BY <2>3, <3>1, <3>3, LossyStep
      <4>. QED
        BY <3>4, <4>1, SeqsJoin, SeqsShort
    <3>6. ValidUpTo(s) \in 0 .. n
      <4>1. ValidUpTo(s) = 0 \/ ValidUpTo(s) = k + ValidUpTo(t)
        BY <2>3, <3>1, <3>3, ValidStep
      <4>. QED
        BY <3>2, <3>3, <3>4, <4>1
    <3>. QED
      BY <2>1, <3>5, <3>6
  <2>. QED
    BY <2>2, <2>3
<1>2. \A n \in Nat : n \in T
  <2>. HIDE DEF T
  <2>. QED
    BY <1>1, Replacing!Upward
<1>. HIDE DEF Good
<1>3. \A s \in Seq(B) : Good(s)
  BY <1>2
<1>. QED
  BY <1>3 DEF Good

-----------------------------------------------------------------------------
(* Printing.                                                                *)

Take(s, n) == SubSeq(s, 1, n)

\* The first n bytes.
LEMMA Taken ==
    ASSUME NEW B, NEW s \in Seq(B), NEW n \in 0 .. Len(s)
    PROVE  /\ Take(s, n) \in Seq(B) /\ Len(Take(s, n)) = n
           /\ \A j \in 1 .. n : Take(s, n)[j] = s[j]
           /\ \A k \in 0 .. n : Drop(Take(s, n), k) = Take(Drop(s, k), n - k)
           /\ Take(s, Len(s)) = s
<1>1. \A u \in Seq(B) : \A k \in 0 .. Len(u) :
         Take(u, k) \in Seq(B) /\ Len(Take(u, k)) = k /\ \A j \in 1 .. k : Take(u, k)[j] = u[j]
  <2>1. SUFFICES ASSUME NEW u \in Seq(B), NEW k \in 0 .. Len(u)
                 PROVE  Take(u, k) \in Seq(B) /\ Len(Take(u, k)) = k /\ \A j \in 1 .. k : Take(u, k)[j] = u[j]
    OBVIOUS
  <2>2. k \in Nat
    OBVIOUS
  <2>. QED
    BY <2>2, SubSeqProperties DEF Take
<1>2. ASSUME NEW k \in 0 .. n PROVE Drop(Take(s, n), k) = Take(Drop(s, k), n - k)
  <2>1. PICK t \in Seq(B) : t = Take(s, n) /\ Len(t) = n /\ \A j \in 1 .. n : t[j] = s[j]
    BY <1>1
  <2>2. PICK u \in Seq(B) : u = Drop(s, k) /\ Len(u) = Len(s) - k /\ \A j \in 1 .. Len(s) - k : u[j] = s[j + k]
    <3>1. k \in 0 .. Len(s)
      OBVIOUS
    <3>. QED
      BY <3>1, Dropped
  <2>3. PICK v \in Seq(B) : v = Drop(t, k) /\ Len(v) = n - k /\ \A j \in 1 .. n - k : v[j] = t[j + k]
    <3>1. k \in 0 .. Len(t)
      BY <2>1
    <3>2. Drop(t, k) \in Seq(B) /\ Len(Drop(t, k)) = Len(t) - k /\ \A j \in 1 .. Len(t) - k : Drop(t, k)[j] = t[j + k]
      BY <3>1, Dropped
    <3>. QED
      BY <2>1, <3>2
  <2>4. PICK w \in Seq(B) : w = Take(u, n - k) /\ Len(w) = n - k /\ \A j \in 1 .. n - k : w[j] = u[j]
    <3>1. n - k \in 0 .. Len(u)
      BY <2>2
    <3>. QED
      BY <1>1, <3>1
  <2>5. \A j \in 1 .. n - k : v[j] = w[j]
    <3>1. \A j \in 1 .. n - k : j + k \in 1 .. n /\ j \in 1 .. Len(s) - k
      OBVIOUS
    <3>. QED
      BY <2>1, <2>2, <2>3, <2>4, <3>1
  <2>6. v = w
    BY <2>3, <2>4, <2>5
  <2>. QED
    BY <2>1, <2>2, <2>3, <2>4, <2>6
<1>3. Take(s, Len(s)) = s
  BY SubSeqFull DEF Take
<1>. QED
  BY <1>1, <1>2, <1>3

\* A character is the same in what is taken of a sequence, if all of it is.
LEMMA UnitTaken ==
    ASSUME NEW B, NEW s \in Seq(B), s # <<>>, Unit(s, 1).ok, NEW n \in Unit(s, 1).len .. Len(s)
    PROVE  Unit(Take(s, n), 1) = Unit(s, 1)
<1>1. PICK l \in Nat : l = Len(s) /\ 1 \in 1 .. l
  OBVIOUS
<1>2. n \in 1 .. l
  <2>1. Unit(s, 1).len \in 1 .. Len(s) - 1 + 1
    BY <1>1, UnitParts DEF UnitFound
  <2>. QED
    BY <1>1, <2>1
<1>3. PICK t \in Seq(B) : t = Take(s, n) /\ Len(t) = n /\ \A j \in 1 .. n : t[j] = s[j]
  <2>1. n \in 0 .. Len(s)
    BY <1>1, <1>2
  <2>. QED
    BY <2>1, Taken
<1>4. PICK b : b = s[1] /\ b = t[1]
  BY <1>2, <1>3
<1>5. PICK more, mor2 : more = More(s, 1) /\ mor2 = More(t, 1)
  OBVIOUS
<1>6. PICK left, left2 : left = Len(s) - 1 /\ left2 = Len(t) - 1
  OBVIOUS
<1>7. Unit(s, 1) = UnitOf(b, more, left) /\ Unit(t, 1) = UnitOf(b, mor2, left2)
  <2>1. 1 \in 1 .. Len(s) /\ 1 \in 1 .. Len(t)
    BY <1>1, <1>2, <1>3
  <2>2. Unit(s, 1) = UnitOf(s[1], More(s, 1), Len(s) - 1)
    BY <2>1, UnitIs
  <2>3. Unit(t, 1) = UnitOf(t[1], More(t, 1), Len(t) - 1)
    BY <2>1, UnitIs
  <2>. QED
    BY <1>4, <1>5, <1>6, <2>2, <2>3, Zenon
<1>8. CASE b # "E2"
  <2>1. \A u : u = UnitOf(b, more, left) => \A m, k : UnitOf(b, m, k) = u
    BY <1>8, UnitOfOther
  <2>. QED
    BY <1>3, <1>7, <2>1, Zenon
<1>9. CASE b = "E2"
  <2>1. PICK u : u = Unit(s, 1)
    OBVIOUS
  <2>2. u = UnitOf("E2", more, left)
    BY <1>7, <1>9, <2>1, Zenon
  <2>3. u.len = 1 + more /\ more = 2
    BY <2>1, <2>2, UnitOfE2, ZenonT(90)
  <2>4. n >= 3
    BY <1>1, <2>1, <2>3
  <2>5. Continues(s, 2) /\ Continues(s, 3)
    BY <1>5, <2>3 DEF More
  <2>6. Continues(t, 2) /\ Continues(t, 3)
    BY <1>2, <1>3, <2>4, <2>5 DEF Continues
  <2>7. mor2 = 2
    BY <1>5, <2>6 DEF More
  <2>8. \A k : UnitOf("E2", 2, k) = [len |-> 1 + 2, ok |-> 2 = 2, open |-> 2 < 2 /\ 2 = k]
    BY Zenon DEF UnitOf
  <2>9. \A k : (2 < 2 /\ 2 = k) = FALSE
    OBVIOUS
  <2>10. UnitOf("E2", 2, left) = UnitOf("E2", 2, left2)
    BY <2>8, <2>9, Zenon
  <2>. QED
    BY <1>3, <1>7, <1>9, <2>3, <2>7, <2>10, Zenon
<1>. QED
  BY <1>8, <1>9

\* How much text there is before the first control.
TextLen(s) == First(TextStops(s, 1), Len(s)) - 1

\* It is so long.
TextIs(s, n) ==
    /\ n \in 0 .. Len(s)
    /\ \A j \in 1 .. n : s[j] \notin Controls
    /\ n < Len(s) => s[n + 1] \in Controls

\* The length of a run of text is where the first control is.
LEMMA TextLenIs ==
    ASSUME NEW B, NEW s \in Seq(B)
    PROVE  TextIs(s, TextLen(s)) /\ \A n : TextIs(s, n) => n = TextLen(s)
<1>1. PICK f : f = First(TextStops(s, 1), Len(s))
  OBVIOUS
<1>2. /\ f \in 1 .. Len(s) + 1
      /\ f <= Len(s) => f \in TextStops(s, 1)
      /\ \A k \in TextStops(s, 1) : f <= k
  <2>1. TextStops(s, 1) \in SUBSET (1 .. Len(s)) /\ 1 \in 1 .. Len(s) + 1 /\ Len(s) \in Nat
    BY DEF TextStops
  <2>2. PICK l \in Nat : l = Len(s)
    OBVIOUS
  <2>3. TextStops(s, 1) \in SUBSET (1 .. l) /\ 1 \in 1 .. l + 1
    BY <2>1, <2>2
  <2>4. /\ First(TextStops(s, 1), l) \in 1 .. l + 1
        /\ TextStops(s, 1) = {} => First(TextStops(s, 1), l) = l + 1
        /\ TextStops(s, 1) # {} => First(TextStops(s, 1), l) \in TextStops(s, 1)
        /\ \A k \in TextStops(s, 1) : First(TextStops(s, 1), l) <= k
    BY <2>3, FirstLeast
  <2>. QED
    BY <1>1, <2>2, <2>4
<1>3. TextIs(s, f - 1)
  <2>1. \A j \in 1 .. f - 1 : j \notin TextStops(s, 1) /\ j \in 1 .. Len(s)
    BY <1>2
  <2>2. \A j \in 1 .. f - 1 : s[j] \notin Controls
    BY <2>1 DEF TextStops
  <2>3. f - 1 < Len(s) => s[(f - 1) + 1] \in Controls
    <3>1. SUFFICES ASSUME f - 1 < Len(s) PROVE s[(f - 1) + 1] \in Controls
      OBVIOUS
    <3>2. f <= Len(s) /\ (f - 1) + 1 = f
      BY <1>2, <3>1
    <3>3. f \in TextStops(s, 1)
      BY <1>2, <3>2
    <3>. QED
      BY <3>2, <3>3 DEF TextStops
  <2>4. f - 1 \in 0 .. Len(s)
    BY <1>2
  <2>. QED
    BY <2>2, <2>3, <2>4 DEF TextIs
<1>4. ASSUME NEW n, TextIs(s, n) PROVE n = f - 1
  <2>1. PICK m : m = f - 1 /\ TextIs(s, m)
    BY <1>3
  <2>2. n \in 0 .. Len(s) /\ m \in 0 .. Len(s)
    BY <1>4, <2>1 DEF TextIs
  <2>3. ~(n < m)
    <3>1. SUFFICES ASSUME n < m PROVE FALSE
      OBVIOUS
    <3>2. n + 1 \in 1 .. m /\ n < Len(s)
      BY <2>2, <3>1
    <3>. QED
      BY <1>4, <2>1, <3>2 DEF TextIs
  <2>4. ~(m < n)
    <3>1. SUFFICES ASSUME m < n PROVE FALSE
      OBVIOUS
    <3>2. m + 1 \in 1 .. n /\ m < Len(s)
      BY <2>2, <3>1
    <3>. QED
      BY <1>4, <2>1, <3>2 DEF TextIs
  <2>. QED
    BY <2>1, <2>2, <2>3, <2>4
<1>. QED
  BY <1>1, <1>3, <1>4 DEF TextLen

\* What ParsePrint makes of something that begins with text.
PrintFound(s) ==
    /\ TextLen(s) \in 1 .. Len(s)
    /\ TextLen(s) < Len(s) => ParsePrint(s) = Ok(TextLen(s), Lossy(Take(s, TextLen(s))))
    /\ TextLen(s) = Len(s) /\ ValidUpTo(s) > 0 => ParsePrint(s) = Ok(ValidUpTo(s), Lossy(Take(s, ValidUpTo(s))))
    /\ TextLen(s) = Len(s) /\ ValidUpTo(s) = 0 /\ Unit(s, 1).open => ParsePrint(s) = Incomplete
    /\ TextLen(s) = Len(s) /\ ValidUpTo(s) = 0 /\ ~Unit(s, 1).open => ParsePrint(s) = Ok(1, <<PrintChar("FFFD")>>)

\* parse_print, in the four ways it ends.
LEMMA PrintIs ==
    ASSUME NEW B, NEW s \in Seq(B), s # <<>>, s[1] \notin Controls
    PROVE  PrintFound(s)
<1>1. PICK n : n = TextLen(s)
  OBVIOUS
<1>2. PICK l \in Nat : l = Len(s)
  OBVIOUS
<1>3. n \in 1 .. l
  <2>1. TextIs(s, n)
    BY <1>1, TextLenIs
  <2>2. n # 0
    <3>1. SUFFICES ASSUME n = 0 PROVE FALSE
      OBVIOUS
    <3>2. 0 < Len(s) /\ n + 1 = 1
      BY <3>1
    <3>. QED
      BY <2>1, <3>1, <3>2 DEF TextIs
  <2>. QED
    BY <1>2, <2>1, <2>2 DEF TextIs
<1>4. Span(s, 1, LAMBDA b : b \notin Controls) = n
  <2>1. Span(s, 1, LAMBDA b : b \notin Controls) = First(TextStops(s, 1), Len(s)) - 1
    BY Spans, Zenon
  <2>. QED
    BY <1>1, <2>1, Zenon DEF TextLen
<1>5. ASSUME n < l PROVE ParsePrint(s) = Ok(n, Lossy(Take(s, n)))
  <2>1. n # l
    BY <1>3, <1>5
  <2>. QED
    BY <1>2, <1>4, <1>5, <2>1, Zenon DEF ParsePrint, Take
<1>6. CASE n = l
  <2>1. ~(n < l)
    BY <1>3, <1>6
  <2>2. SubSeq(s, 1, n) = s
    BY <1>2, <1>6, SubSeqFull
  <2>3. PICK valid : valid = ValidUpTo(s)
    OBVIOUS
  <2>4. valid > 0 \/ valid = 0
    BY <2>3, TextTyped
  <2>5. ~(valid > 0 /\ valid = 0)
    OBVIOUS
  <2>6. valid > 0 => ParsePrint(s) = Ok(valid, Lossy(Take(s, valid)))
    BY <1>2, <1>4, <1>6, <2>1, <2>2, <2>3, <2>5, Zenon DEF ParsePrint, Take
  <2>7. valid = 0 /\ Unit(s, 1).open => ParsePrint(s) = Incomplete
    BY <1>2, <1>4, <1>6, <2>1, <2>2, <2>3, <2>5, Zenon DEF ParsePrint
  <2>8. valid = 0 /\ ~Unit(s, 1).open => ParsePrint(s) = Ok(1, <<PrintChar("FFFD")>>)
    BY <1>2, <1>4, <1>6, <2>1, <2>2, <2>3, <2>5, Zenon DEF ParsePrint
  <2>. QED
    BY <1>1, <1>2, <1>3, <2>1, <2>3, <2>6, <2>7, <2>8, Zenon DEF PrintFound
<1>7. CASE n < l
  <2>1. n # l
    BY <1>3, <1>7
  <2>. QED
    BY <1>1, <1>2, <1>3, <1>5, <1>7, <2>1, Zenon DEF PrintFound
<1>. QED
  BY <1>3, <1>6, <1>7

\* The first `v` bytes are printed at once: a character of `m`, and `r` behind.
ChunkOf(s, r, v, m) ==
    /\ ParsePrint(s) = Ok(v, << Shown(s, 1) >> \o Lossy(Take(r, v - m)))
    /\ v # m => r # <<>> /\ r[1] \notin Controls /\ ParsePrint(r) = Ok(v - m, Lossy(Take(r, v - m)))

\* A chunk of text begins with its first character, and what is left of it is
\* what would be parsed behind the character.
LEMMA PrintChunk ==
    ASSUME NEW B, NEW s \in Seq(B), s # <<>>, s[1] \notin Controls, Unit(s, 1).ok,
           NEW m, m = Unit(s, 1).len, NEW r, r = Drop(s, m)
    PROVE  /\ m \in 1 .. Len(s)
           /\ \E v \in m .. Len(s) : ChunkOf(s, r, v, m)
<1>1. PICK l \in Nat : l = Len(s) /\ 1 \in 1 .. l
  OBVIOUS
<1>2. m \in 1 .. l /\ (m > 1 => \A j \in 1 .. m : s[j] \in {"E2", "82"})
  <2>1. UnitFound(s, 1)
    BY <1>1, UnitParts
  <2>2. m \in 1 .. Len(s) - 1 + 1 /\ (m > 1 => \A j \in 1 .. 1 + m - 1 : s[j] \in {"E2", "82"})
    BY <2>1, Zenon DEF UnitFound
  <2>3. Len(s) - 1 + 1 = l /\ 1 + m - 1 = m
    BY <1>1, <2>2
  <2>. QED
    BY <2>2, <2>3
<1>3. PICK n : n = TextLen(s)
  OBVIOUS
<1>4. PrintFound(s) /\ TextIs(s, n)
  BY <1>3, PrintIs, TextLenIs
<1>5. n \in m .. l
  <2>1. n \in 1 .. l
    BY <1>1, <1>3, <1>4 DEF PrintFound
  <2>2. ASSUME n < m PROVE FALSE
    <3>1. n + 1 \in 1 .. m /\ m > 1 /\ n < Len(s)
      BY <1>1, <1>2, <2>1, <2>2
    <3>2. s[n + 1] \in {"E2", "82"}
      BY <1>2, <3>1
    <3>3. s[n + 1] \in Controls
      BY <1>4, <3>1 DEF TextIs
    <3>. QED
      BY <3>2, <3>3 DEF Controls
  <2>. QED
    BY <1>2, <2>1, <2>2
<1>6. r \in Seq(B) /\ Len(r) = l - m /\ \A j \in 1 .. l - m : r[j] = s[j + m]
  <2>1. m \in 0 .. Len(s)
    BY <1>1, <1>2
  <2>2. Drop(s, m) \in Seq(B) /\ Len(Drop(s, m)) = Len(s) - m /\ \A j \in 1 .. Len(s) - m : Drop(s, m)[j] = s[j + m]
    <3>1. \A k \in 0 .. Len(s) : Drop(s, k) \in Seq(B) /\ Len(Drop(s, k)) = Len(s) - k
                                /\ \A j \in 1 .. Len(s) - k : Drop(s, k)[j] = s[j + k]
      BY Dropped
    <3>. QED
      BY <2>1, <3>1, Zenon
  <2>. QED
    BY <1>1, <2>2
<1>7. ASSUME NEW v \in m .. l PROVE Lossy(Take(s, v)) = << Shown(s, 1) >> \o Lossy(Take(r, v - m))
  <2>1. PICK t \in Seq(B) : t = Take(s, v) /\ Len(t) = v /\ \A j \in 1 .. v : t[j] = s[j]
    <3>1. v \in 0 .. Len(s)
      BY <1>1, <1>2
    <3>. QED
      BY <3>1, Taken
  <2>2. Unit(t, 1) = Unit(s, 1)
    BY <1>1, <2>1, UnitTaken
  <2>3. t # <<>> /\ t[1] = s[1]
    BY <1>2, <2>1
  <2>4. Shown(t, 1) = Shown(s, 1)
    BY <2>2, <2>3, Zenon DEF Shown
  <2>5. Drop(t, m) = Take(r, v - m)
    <3>1. v \in 0 .. Len(s) /\ m \in 0 .. v
      BY <1>1, <1>2
    <3>. QED
      BY <2>1, <3>1, Taken
  <2>6. Lossy(t) = << Shown(t, 1) >> \o Lossy(Drop(t, Unit(t, 1).len))
    BY <2>3, LossyStep
  <2>. QED
    BY <2>1, <2>2, <2>4, <2>5, <2>6, Zenon
<1>8. TextIs(r, n - m)
  <2>1. n - m \in 0 .. Len(r)
    BY <1>2, <1>5, <1>6
  <2>2. \A j \in 1 .. n - m : r[j] \notin Controls
    <3>1. \A j \in 1 .. n - m : j \in 1 .. l - m /\ j + m \in 1 .. n
      BY <1>2, <1>5
    <3>. QED
      BY <1>4, <1>6, <3>1 DEF TextIs
  <2>3. n - m < Len(r) => r[(n - m) + 1] \in Controls
    <3>1. SUFFICES ASSUME n - m < Len(r) PROVE r[(n - m) + 1] \in Controls
      OBVIOUS
    <3>2. n < Len(s) /\ (n - m) + 1 \in 1 .. l - m /\ ((n - m) + 1) + m = n + 1
      <4>1. Len(r) = l - m /\ m \in Nat /\ n \in Nat /\ l = Len(s) /\ m <= n /\ n <= l
        BY <1>1, <1>2, <1>5, <1>6
      <4>. QED
        BY <3>1, <4>1, SMTT(40)
    <3>. QED
      BY <1>4, <1>6, <3>2 DEF TextIs
  <2>. QED
    BY <2>1, <2>2, <2>3 DEF TextIs
<1>9. TextLen(r) = n - m
  BY <1>6, <1>8, TextLenIs
<1>10. ASSUME n # m PROVE r # <<>> /\ r[1] \notin Controls /\ PrintFound(r)
  <2>1. 1 \in 1 .. n - m /\ Len(r) > 0
    BY <1>2, <1>5, <1>6, <1>10
  <2>2. r # <<>> /\ r[1] \notin Controls
    BY <1>6, <1>8, <2>1 DEF TextIs
  <2>. QED
    BY <1>6, <2>2, PrintIs
<1>11. CASE n < l
  <2>1. ParsePrint(s) = Ok(n, Lossy(Take(s, n)))
    BY <1>1, <1>3, <1>4, <1>11, Zenon DEF PrintFound
  <2>2. ASSUME n # m PROVE ParsePrint(r) = Ok(n - m, Lossy(Take(r, n - m)))
    <3>1. n - m < Len(r)
      BY <1>2, <1>5, <1>6, <1>11
    <3>. QED
      BY <1>9, <1>10, <2>2, <3>1, Zenon DEF PrintFound
  <2>. QED
    BY <1>1, <1>2, <1>5, <1>7, <1>10, <2>1, <2>2, Zenon DEF ChunkOf
<1>12. CASE n = l
  <2>1. PICK w : w = ValidUpTo(r)
    OBVIOUS
  <2>2. w \in 0 .. l - m
    BY <1>6, <2>1, TextTyped
  <2>3. ValidUpTo(s) = m + w
    BY <2>1, ValidStep
  <2>4. PICK v : v = m + w
    OBVIOUS
  <2>5. v \in m .. l /\ v > 0 /\ v - m = w
    BY <1>2, <2>2, <2>4, SMTT(40)
  <2>6. ParsePrint(s) = Ok(v, Lossy(Take(s, v)))
    BY <1>1, <1>3, <1>4, <1>12, <2>3, <2>4, <2>5, Zenon DEF PrintFound
  <2>7. ASSUME v # m PROVE r # <<>> /\ r[1] \notin Controls /\ ParsePrint(r) = Ok(w, Lossy(Take(r, w)))
    <3>1. n # m /\ w > 0 /\ n - m = Len(r)
      BY <1>2, <1>5, <1>6, <1>12, <2>2, <2>5, <2>7
    <3>2. r # <<>> /\ r[1] \notin Controls /\ PrintFound(r)
      BY <1>10, <3>1
    <3>3. ParsePrint(r) = Ok(w, Lossy(Take(r, w)))
      BY <1>9, <2>1, <3>1, <3>2, Zenon DEF PrintFound
    <3>. QED
      BY <3>2, <3>3
  <2>. QED
    BY <1>1, <1>2, <1>7, <2>5, <2>6, <2>7, Zenon DEF ChunkOf
<1>. QED
  BY <1>5, <1>11, <1>12

-----------------------------------------------------------------------------
(* One command.                                                             *)

\* The outcomes.
LEMMA Outcomes ==
    /\ \A used, cmds : Ok(used, cmds).used = used /\ Ok(used, cmds).cmds = cmds
    /\ Incomplete.used = 0 /\ Incomplete.cmds = <<>>
    /\ Malformed.used = 1 /\ Malformed.cmds = <<>>
<1>1. \A used, cmds : Ok(used, cmds).used = used /\ Ok(used, cmds).cmds = cmds
  BY DEF Ok
<1>. QED
  BY <1>1, Zenon DEF Incomplete, Malformed

\* What was parsed is what was found.
LEMMA OutcomeOf ==
    ASSUME NEW used, NEW cmds, NEW parse, parse = Ok(used, cmds)
    PROVE  parse.used = used /\ parse.cmds = cmds
  BY DEF Ok

\* Bytes of one byte.
Plain(b) == b \notin {"E2", "82"}

\* Controls, final bytes and terminators are characters of one byte.
LEMMA PlainBytes ==
    /\ \A b : b \in Controls \/ IsCsiFinal(b) \/ IsEscFinal(b) => Plain(b)
    /\ \A b \in {"BEL", "\\", "D", "E", "M", "7", "8", "c", "=", ">"} : Plain(b)
  BY DEF Controls, IsCsiFinal, IsEscFinal, IsParam, ParamBytes, FinalBytes, Plain

\* A parse takes what is there at most, up to a whole character, and makes a
\* sequence of commands of it.
Fits(s, parse) ==
    /\ parse.used \in 0 .. Len(s)
    /\ IsSeq(parse.cmds)
    /\ parse.used # 0 => Plain(s[parse.used])

\* An outcome without commands fits.
LEMMA NothingFits ==
    ASSUME NEW B, NEW s \in Seq(B)
    PROVE  /\ Fits(s, Incomplete)
           /\ Len(s) >= 1 /\ Plain(s[1]) => Fits(s, Malformed)
<1>1. Fits(s, Incomplete)
  <2>1. 0 \in 0 .. Len(s)
    OBVIOUS
  <2>. QED
    BY <2>1, Outcomes, SeqsShort, Zenon DEF Fits
<1>2. Len(s) >= 1 /\ Plain(s[1]) => Fits(s, Malformed)
  <2>1. Len(s) >= 1 => 1 \in 0 .. Len(s)
    OBVIOUS
  <2>. QED
    BY <2>1, Outcomes, SeqsShort, Zenon DEF Fits
<1>. QED
  BY <1>1, <1>2

\* What parse_csi takes ends with a final byte; without one it takes nothing.
LEMMA CsiFits ==
    ASSUME NEW B, NEW s \in Seq(B), Len(s) >= 2, s[1] = "ESC", s[2] = "["
    PROVE  /\ Fits(s, ParseCsi(s))
           /\ ParseCsi(s).used = 0 => UnfinishedCsi(s)
           /\ ParseCsi(s).used # 0 => CsiLast(s) <= Len(s)
<1>1. PICK e, l : e = ParamEnd(s) /\ l = CsiLast(s)
  OBVIOUS
<1>2. CsiFound(s)
  BY CsiIs
<1>3. /\ e \in 3 .. Len(s) + 1 /\ l \in e .. Len(s) + 1
      /\ \A j \in 3 .. e - 1 : IsParam(s[j])
      /\ \A j \in e .. l - 1 : IsInter(s[j])
      /\ l > Len(s) => ParseCsi(s) = Incomplete
      /\ l <= Len(s) /\ IsCsiFinal(s[l]) => ParseCsi(s) = Ok(l, DispatchCsi(SubSeq(s, 3, e - 1), s[l]))
      /\ l <= Len(s) /\ ~IsCsiFinal(s[l]) => ParseCsi(s) = Malformed
  BY <1>1, <1>2, Zenon DEF CsiFound
<1>4. Plain(s[1])
  <2>1. "ESC" \in Controls
    BY DEF Controls
  <2>. QED
    BY <2>1, PlainBytes, Zenon
<1>5. CASE l > Len(s)
  <2>1. UnfinishedCsi(s)
    <3>1. e - 1 \in 2 .. Len(s) /\ (e - 1) + 1 = e /\ l - 1 = Len(s)
      BY <1>3, <1>5
    <3>2. \E i \in 2 .. Len(s) : (\A j \in 3 .. i : IsParam(s[j])) /\ \A j \in i + 1 .. Len(s) : IsInter(s[j])
      BY <1>3, <3>1, Zenon
    <3>. QED
      BY <3>2, Zenon DEF UnfinishedCsi
  <2>2. ParseCsi(s) = Incomplete
    BY <1>3, <1>5, Zenon
  <2>. QED
    BY <2>1, <2>2, NothingFits, Outcomes, Zenon
<1>6. CASE l <= Len(s) /\ IsCsiFinal(s[l])
  <2>1. ParseCsi(s).used = l /\ ParseCsi(s).cmds = DispatchCsi(SubSeq(s, 3, e - 1), s[l])
    <3>1. PICK cmds : cmds = DispatchCsi(SubSeq(s, 3, e - 1), s[l])
      OBVIOUS
    <3>2. ParseCsi(s) = Ok(l, cmds)
      BY <1>3, <1>6, <3>1, Zenon
    <3>. QED
      BY <3>1, <3>2, OutcomeOf
  <2>2. l \in 0 .. Len(s) /\ l # 0
    BY <1>3, <1>6
  <2>3. IsSeq(DispatchCsi(SubSeq(s, 3, e - 1), s[l]))
    BY DispatchOne, SeqsShort, Zenon DEF OneAtMost
  <2>4. Plain(s[l])
    BY <1>6, PlainBytes, Zenon
  <2>5. Fits(s, ParseCsi(s))
    BY <2>1, <2>2, <2>3, <2>4, Zenon DEF Fits
  <2>. QED
    BY <1>1, <1>6, <2>1, <2>2, <2>5, Zenon
<1>7. CASE l <= Len(s) /\ ~IsCsiFinal(s[l])
  <2>1. ParseCsi(s) = Malformed
    BY <1>3, <1>7, Zenon
  <2>2. Len(s) >= 1 /\ 1 # 0
    OBVIOUS
  <2>3. Fits(s, Malformed) /\ Malformed.used # 0
    BY <1>4, <2>2, NothingFits, Outcomes, Zenon
  <2>. QED
    BY <1>1, <1>7, <2>1, <2>3, Zenon
<1>. QED
  BY <1>3, <1>5, <1>6, <1>7

\* So it is with the other escapes, ...
LEMMA EscOtherFits ==
    ASSUME NEW B, NEW s \in Seq(B), Len(s) >= 1, s[1] = "ESC"
    PROVE  /\ Fits(s, ParseEscOther(s))
           /\ ParseEscOther(s).used = 0 => UnfinishedEsc(s)
           /\ ParseEscOther(s).used # 0 => EscLast(s) <= Len(s)
<1>1. PICK l : l = EscLast(s)
  OBVIOUS
<1>2. EscFound(s)
  BY EscIs
<1>3. /\ l \in 2 .. Len(s) + 1
      /\ \A j \in 2 .. l - 1 : IsInter(s[j])
      /\ l > Len(s) => ParseEscOther(s) = Incomplete
      /\ l <= Len(s) /\ IsEscFinal(s[l]) => ParseEscOther(s) = Ok(l, <<>>)
      /\ l <= Len(s) /\ ~IsEscFinal(s[l]) => ParseEscOther(s) = Malformed
  BY <1>1, <1>2, Zenon DEF EscFound
<1>4. Plain(s[1])
  <2>1. "ESC" \in Controls
    BY DEF Controls
  <2>. QED
    BY <2>1, PlainBytes, Zenon
<1>5. CASE l > Len(s)
  <2>1. UnfinishedEsc(s)
    <3>1. l - 1 = Len(s)
      BY <1>3, <1>5
    <3>. QED
      BY <1>3, <3>1, Zenon DEF UnfinishedEsc
  <2>2. ParseEscOther(s) = Incomplete
    BY <1>3, <1>5, Zenon
  <2>. QED
    BY <2>1, <2>2, NothingFits, Outcomes, Zenon
<1>6. CASE l <= Len(s) /\ IsEscFinal(s[l])
  <2>1. ParseEscOther(s).used = l /\ ParseEscOther(s).cmds = <<>>
    <3>1. PICK cmds : cmds = <<>>
      OBVIOUS
    <3>2. ParseEscOther(s) = Ok(l, cmds)
      BY <1>3, <1>6, <3>1, Zenon
    <3>3. ParseEscOther(s).used = l /\ ParseEscOther(s).cmds = cmds
      BY <3>2, OutcomeOf
    <3>. QED
      BY <3>1, <3>3, Zenon
  <2>2. l \in 0 .. Len(s) /\ l # 0
    BY <1>3, <1>6
  <2>3. Plain(s[l])
    BY <1>6, PlainBytes, Zenon
  <2>4. Fits(s, ParseEscOther(s))
    BY <2>1, <2>2, <2>3, SeqsShort, Zenon DEF Fits
  <2>. QED
    BY <1>1, <1>6, <2>1, <2>2, <2>4, Zenon
<1>7. CASE l <= Len(s) /\ ~IsEscFinal(s[l])
  <2>1. ParseEscOther(s) = Malformed
    BY <1>3, <1>7, Zenon
  <2>2. 1 # 0
    OBVIOUS
  <2>3. Fits(s, Malformed) /\ Malformed.used # 0
    BY <1>4, <2>2, NothingFits, Outcomes, Zenon
  <2>. QED
    BY <1>1, <1>7, <2>1, <2>3, Zenon
<1>. QED
  BY <1>3, <1>5, <1>6, <1>7

\* ... and with an OSC and its terminator.
LEMMA OscFits ==
    ASSUME NEW B, NEW s \in Seq(B), Len(s) >= 2, s[2] = "]"
    PROVE  /\ Fits(s, ParseOsc(s))
           /\ ParseOsc(s).used = 0 => UnfinishedOsc(s)
           /\ ParseOsc(s).used # 0 => OscStops(s) # {}
<1>1. OscFound(s)
  BY OscIs
<1>2. CASE OscStops(s) = {}
  <2>1. UnfinishedOsc(s)
    <3>1. \A i \in 3 .. Len(s) : ~BelAt(s, i) /\ ~StAt(s, i)
      BY <1>2, Zenon DEF OscStops
    <3>. QED
      BY <3>1, Zenon DEF UnfinishedOsc
  <2>2. ParseOsc(s) = Incomplete
    BY <1>1, <1>2, Zenon DEF OscFound
  <2>. QED
    BY <2>1, <2>2, NothingFits, Outcomes, Zenon
<1>3. CASE OscStops(s) # {}
  <2>1. PICK u, cmds : u = OscUsed(s) /\ cmds = OscCommand(SubSeq(s, 3, OscEnd(s) - 1))
    OBVIOUS
  <2>2. u \in 3 .. Len(s) /\ s[u] \in {"BEL", "\\"} /\ ParseOsc(s) = Ok(u, cmds)
    BY <1>1, <1>3, <2>1, Zenon DEF OscFound
  <2>3. ParseOsc(s).used = u /\ ParseOsc(s).cmds = cmds
    BY <2>2, OutcomeOf
  <2>4. u \in 0 .. Len(s) /\ u # 0
    BY <2>2
  <2>5. IsSeq(cmds)
    BY <2>1, SeqsShort, Zenon DEF OscCommand
  <2>6. Plain(s[u])
    BY <2>2, PlainBytes
  <2>7. Fits(s, ParseOsc(s))
    BY <2>3, <2>4, <2>5, <2>6, Zenon DEF Fits
  <2>. QED
    BY <1>3, <2>3, <2>4, <2>7, Zenon
<1>. QED
  BY <1>2, <1>3

\* The escapes of one byte.
OneByte == {"D", "E", "M", "7", "8", "c", "=", ">"}

\* Which parser an escape is for.
LEMMA EscSplits ==
    ASSUME NEW B, NEW s \in Seq(B), Len(s) >= 2
    PROVE  /\ s[2] = "[" => ParseEsc(s) = ParseCsi(s)
           /\ s[2] = "]" => ParseEsc(s) = ParseOsc(s)
           /\ s[2] \in OneByte => ParseEsc(s) = Ok(2, <<EscCommand(s[2])>>)
           /\ s[2] # "[" /\ s[2] # "]" /\ s[2] \notin OneByte => ParseEsc(s) = ParseEscOther(s)
<1>1. Len(s) # 1
  <2>1. PICK l \in Nat : l = Len(s)
    OBVIOUS
  <2>2. l # 1
    BY <2>1
  <2>. QED
    BY <2>1, <2>2
<1>2. "[" # "]" /\ "[" \notin OneByte /\ "]" \notin OneByte
  BY DEF OneByte
<1>3. ParseEsc(s) = CASE s[2] = "["      -> ParseCsi(s)
                      [] s[2] = "]"      -> ParseOsc(s)
                      [] s[2] \in OneByte -> Ok(2, <<EscCommand(s[2])>>)
                      [] OTHER           -> ParseEscOther(s)
  BY <1>1, Zenon DEF ParseEsc, OneByte
<1>4. PICK b : b = s[2]
  OBVIOUS
<1>5. b = "[" => ParseEsc(s) = ParseCsi(s)
  BY <1>2, <1>3, <1>4, Zenon
<1>6. b = "]" => ParseEsc(s) = ParseOsc(s)
  BY <1>2, <1>3, <1>4, Zenon
<1>7. b \in OneByte => ParseEsc(s) = Ok(2, <<EscCommand(s[2])>>)
  <2>1. b \in OneByte => b # "[" /\ b # "]"
    BY <1>2
  <2>. QED
    BY <1>3, <1>4, <2>1, Zenon
<1>8. b # "[" /\ b # "]" /\ b \notin OneByte => ParseEsc(s) = ParseEscOther(s)
  BY <1>3, <1>4, Zenon
<1>. QED
  BY <1>4, <1>5, <1>6, <1>7, <1>8, Zenon

\* What ParseCommand makes of what there is: it takes some of it, or it is the
\* beginning of something.
Begun(s) ==
    \/ Unit(s, 1).open /\ Unit(s, 1).len = Len(s)
    \/ s[1] = "ESC" /\ (UnfinishedEsc(s) \/ UnfinishedCsi(s) \/ UnfinishedOsc(s))

CommandFound(s) ==
    /\ ParseCommand(s).used \in 0 .. Len(s)
    /\ IsSeq(ParseCommand(s).cmds)
    /\ s[1] \in Controls /\ ParseCommand(s).used # 0 => Plain(s[ParseCommand(s).used])
    /\ ParseCommand(s).used = 0 => Begun(s)

\* What decides on the parser.
LEMMA CommandSplits ==
    /\ \A s : s[1] = "ESC" => ParseCommand(s) = ParseEsc(s)
    /\ \A s : s[1] \in Controls \ {"ESC"} => ParseCommand(s) = ParseC0(s)
    /\ \A s : s[1] \notin Controls => ParseCommand(s) = ParsePrint(s)
<1>1. "ESC" \in Controls /\ "ESC" \notin Controls \ {"ESC"}
  BY DEF Controls
<1>2. \A s : s[1] = "ESC" => ParseCommand(s) = ParseEsc(s)
  BY <1>1, Zenon DEF ParseCommand
<1>3. \A s : s[1] \in Controls \ {"ESC"} => ParseCommand(s) = ParseC0(s)
  BY <1>1, Zenon DEF ParseCommand
<1>4. \A s : s[1] \notin Controls => ParseCommand(s) = ParsePrint(s)
  BY <1>1, Zenon DEF ParseCommand
<1>. QED
  BY <1>2, <1>3, <1>4

\* An escape, in what there is and with more behind.
EscapeFound(s, c) ==
    /\ Fits(s, ParseEsc(s))
    /\ ParseEsc(s).used = 0 => UnfinishedEsc(s) \/ UnfinishedCsi(s) \/ UnfinishedOsc(s)
    /\ ParseEsc(s).used # 0 => ParseEsc(s \o c) = ParseEsc(s)

\* An escape that is finished is the same command with more behind it; one that is
\* not has only its beginning there.
LEMMA EscapeIs ==
    ASSUME NEW B, NEW s \in Seq(B), NEW c \in Seq(B), Len(s) >= 1, s[1] = "ESC"
    PROVE  EscapeFound(s, c)
<1>1. PICK l \in Nat : l = Len(s) /\ l >= 1
  OBVIOUS
<1>2. CASE l = 1
  <2>1. ParseEsc(s) = Incomplete
    BY <1>1, <1>2, Zenon DEF ParseEsc
  <2>2. UnfinishedEsc(s)
    <3>1. \A i \in 2 .. l : FALSE
      BY <1>2
    <3>. QED
      BY <1>1, <3>1, Zenon DEF UnfinishedEsc
  <2>. QED
    BY <2>1, <2>2, NothingFits, Outcomes, Zenon DEF EscapeFound
<1>3. CASE l # 1
  <2>1. l >= 2
    BY <1>1, <1>3
  <2>2. PICK t \in Seq(B) : t = s \o c
    BY Joined
  <2>3. Len(t) >= 2 /\ t[2] = s[2]
    <3>1. Len(t) = Len(s) + Len(c) /\ \A j \in 1 .. Len(s) : t[j] = s[j]
      BY <2>2, Joined
    <3>2. 2 \in 1 .. Len(s) /\ Len(s) + Len(c) >= 2
      BY <1>1, <2>1
    <3>. QED
      BY <3>1, <3>2
  <2>4. Len(s) >= 2
    BY <1>1, <2>1
  <2>5. CASE s[2] = "["
    <3>1. ParseEsc(s) = ParseCsi(s) /\ ParseEsc(t) = ParseCsi(t)
      BY <2>3, <2>4, <2>5, EscSplits
    <3>2. /\ Fits(s, ParseCsi(s))
          /\ ParseCsi(s).used = 0 => UnfinishedCsi(s)
          /\ ParseCsi(s).used # 0 => CsiLast(s) <= Len(s)
      BY <2>4, <2>5, CsiFits
    <3>3. CsiLast(s) <= Len(s) => ParseCsi(t) = ParseCsi(s)
      BY <2>2, <2>4, CsiStays
    <3>. QED
      BY <2>2, <3>1, <3>2, <3>3, Zenon DEF EscapeFound
  <2>6. CASE s[2] = "]"
    <3>1. ParseEsc(s) = ParseOsc(s) /\ ParseEsc(t) = ParseOsc(t)
      BY <2>3, <2>4, <2>6, EscSplits
    <3>2. /\ Fits(s, ParseOsc(s))
          /\ ParseOsc(s).used = 0 => UnfinishedOsc(s)
          /\ ParseOsc(s).used # 0 => OscStops(s) # {}
      BY <2>4, <2>6, OscFits
    <3>3. OscStops(s) # {} => ParseOsc(t) = ParseOsc(s)
      BY <2>2, <2>4, OscStays
    <3>. QED
      BY <2>2, <3>1, <3>2, <3>3, Zenon DEF EscapeFound
  <2>7. CASE s[2] \in OneByte
    <3>1. PICK cmds : cmds = <<EscCommand(s[2])>>
      OBVIOUS
    <3>2. ParseEsc(s) = Ok(2, cmds) /\ ParseEsc(t) = Ok(2, cmds)
      <4>1. ParseEsc(s) = Ok(2, <<EscCommand(s[2])>>)
        BY <2>4, <2>7, EscSplits
      <4>2. t[2] \in OneByte
        BY <2>3, <2>7, Zenon
      <4>3. ParseEsc(t) = Ok(2, <<EscCommand(t[2])>>)
        BY <2>3, <4>2, EscSplits
      <4>. QED
        BY <2>3, <3>1, <4>1, <4>3, Zenon
    <3>3. ParseEsc(s).used = 2 /\ ParseEsc(s).cmds = cmds
      BY <3>2, OutcomeOf
    <3>4. 2 \in 0 .. Len(s) /\ 2 # 0
      BY <2>4
    <3>5. IsSeq(cmds)
      BY <3>1, SeqsShort, Zenon
    <3>6. Plain(s[2])
      BY <2>7, PlainBytes, Zenon DEF OneByte
    <3>7. Fits(s, ParseEsc(s))
      BY <3>3, <3>4, <3>5, <3>6, Zenon DEF Fits
    <3>. QED
      BY <2>2, <3>2, <3>3, <3>4, <3>7, Zenon DEF EscapeFound
  <2>8. CASE s[2] # "[" /\ s[2] # "]" /\ s[2] \notin OneByte
    <3>1. ParseEsc(s) = ParseEscOther(s)
      BY <2>4, <2>8, EscSplits
    <3>2. ParseEsc(t) = ParseEscOther(t)
      <4>1. t[2] # "[" /\ t[2] # "]" /\ t[2] \notin OneByte
        BY <2>3, <2>8, Zenon
      <4>. QED
        BY <2>3, <4>1, EscSplits
    <3>3. /\ Fits(s, ParseEscOther(s))
          /\ ParseEscOther(s).used = 0 => UnfinishedEsc(s)
          /\ ParseEscOther(s).used # 0 => EscLast(s) <= Len(s)
      BY EscOtherFits
    <3>4. EscLast(s) <= Len(s) => ParseEscOther(t) = ParseEscOther(s)
      BY <2>2, EscOtherStays
    <3>. QED
      BY <2>2, <3>1, <3>2, <3>3, <3>4, Zenon DEF EscapeFound
  <2>. QED
    BY <2>5, <2>6, <2>7, <2>8, Zenon
<1>. QED
  BY <1>2, <1>3

\* A command that begins with a control: the same, with more behind.
LEMMA ControlIs ==
    ASSUME NEW B, NEW s \in Seq(B), NEW c \in Seq(B), s # <<>>, s[1] \in Controls
    PROVE  /\ CommandFound(s)
           /\ ParseCommand(s).used # 0 => ParseCommand(s \o c) = ParseCommand(s)
<1>1. Len(s) >= 1 /\ 1 \in 1 .. Len(s) /\ 1 \in 0 .. Len(s) /\ 1 # 0
  OBVIOUS
<1>2. (s \o c)[1] = s[1]
  BY <1>1, Joined
<1>3. CASE s[1] = "ESC"
  <2>1. ParseCommand(s) = ParseEsc(s) /\ ParseCommand(s \o c) = ParseEsc(s \o c)
    BY <1>2, <1>3, CommandSplits, Zenon
  <2>2. EscapeFound(s, c)
    BY <1>1, <1>3, EscapeIs
  <2>. QED
    BY <1>3, <2>1, <2>2, Zenon DEF EscapeFound, Fits, CommandFound, Begun
<1>4. CASE s[1] # "ESC"
  <2>1. ParseCommand(s) = ParseC0(s) /\ ParseCommand(s \o c) = ParseC0(s \o c)
    BY <1>2, <1>4, CommandSplits, Zenon
  <2>2. PICK cmds : cmds = <<<<"control", s[1]>>>>
    OBVIOUS
  <2>3. ParseCommand(s) = Ok(1, cmds) /\ ParseCommand(s \o c) = Ok(1, cmds)
    BY <1>2, <2>1, <2>2, Zenon DEF ParseC0
  <2>4. ParseCommand(s).used = 1 /\ ParseCommand(s).cmds = cmds
    BY <2>3, OutcomeOf
  <2>5. IsSeq(cmds)
    BY <2>2, SeqsShort, Zenon
  <2>6. Plain(s[1])
    BY PlainBytes, Zenon
  <2>. QED
    BY <1>1, <2>3, <2>4, <2>5, <2>6, Zenon DEF CommandFound
<1>. QED
  BY <1>3, <1>4

\* One that begins with text.
LEMMA TextIsFound ==
    ASSUME NEW B, NEW s \in Seq(B), s # <<>>, s[1] \notin Controls
    PROVE  CommandFound(s)
<1>1. PICK l \in Nat : l = Len(s) /\ 1 \in 0 .. l /\ 1 \in 1 .. l
  OBVIOUS
<1>2. PICK n, valid : n = TextLen(s) /\ valid = ValidUpTo(s)
  OBVIOUS
<1>3. PrintFound(s)
  BY PrintIs
<1>4. ParseCommand(s) = ParsePrint(s)
  BY CommandSplits, Zenon
<1>5. n \in 1 .. l /\ valid \in 0 .. l
  <2>1. n \in 1 .. Len(s)
    BY <1>2, <1>3, Zenon DEF PrintFound
  <2>2. valid \in 0 .. Len(s)
    BY <1>2, TextTyped
  <2>. QED
    BY <1>1, <2>1, <2>2
<1>6. ASSUME NEW u, NEW cmds, ParsePrint(s) = Ok(u, cmds), u \in 1 .. l, IsSeq(cmds)
      PROVE  CommandFound(s)
  <2>1. ParseCommand(s).used = u /\ ParseCommand(s).cmds = cmds
    BY <1>4, <1>6, OutcomeOf
  <2>2. u \in 0 .. Len(s) /\ u # 0
    BY <1>1, <1>6
  <2>. QED
    BY <1>6, <2>1, <2>2, Zenon DEF CommandFound
<1>7. ASSUME NEW k \in 0 .. l PROVE IsSeq(Lossy(Take(s, k)))
  <2>1. k \in 0 .. Len(s)
    BY <1>1
  <2>2. Take(s, k) \in Seq(B)
    BY <2>1, Taken
  <2>. QED
    BY <2>2, TextTyped
<1>8. CASE n < l
  <2>1. ParsePrint(s) = Ok(n, Lossy(Take(s, n)))
    BY <1>1, <1>2, <1>3, <1>8, Zenon DEF PrintFound
  <2>2. n \in 0 .. l
    BY <1>5
  <2>. QED
    BY <1>5, <1>6, <1>7, <2>1, <2>2, Zenon
<1>9. CASE n = l /\ valid > 0
  <2>1. ParsePrint(s) = Ok(valid, Lossy(Take(s, valid)))
    BY <1>1, <1>2, <1>3, <1>9, Zenon DEF PrintFound
  <2>2. valid \in 0 .. l /\ valid \in 1 .. l
    BY <1>5, <1>9
  <2>. QED
    BY <1>6, <1>7, <2>1, <2>2, Zenon
<1>10. CASE n = l /\ valid = 0 /\ Unit(s, 1).open
  <2>1. ParsePrint(s) = Incomplete
    BY <1>1, <1>2, <1>3, <1>10, Zenon DEF PrintFound
  <2>2. ParseCommand(s).used = 0 /\ ParseCommand(s).cmds = <<>>
    BY <1>4, <2>1, Outcomes, Zenon
  <2>3. Unit(s, 1).len = Len(s) - 1 + 1
    <3>1. UnitFound(s, 1)
      BY <1>1, UnitParts
    <3>. QED
      BY <1>10, <3>1, Zenon DEF UnitFound
  <2>4. Unit(s, 1).len = Len(s)
    BY <1>1, <2>3
  <2>5. 0 \in 0 .. Len(s)
    BY <1>1
  <2>. QED
    BY <1>10, <2>2, <2>4, <2>5, SeqsShort, Zenon DEF CommandFound, Begun
<1>11. CASE n = l /\ valid = 0 /\ ~Unit(s, 1).open
  <2>1. ParsePrint(s) = Ok(1, <<PrintChar("FFFD")>>)
    BY <1>1, <1>2, <1>3, <1>11, Zenon DEF PrintFound
  <2>2. IsSeq(<<PrintChar("FFFD")>>)
    BY SeqsShort, Zenon
  <2>. QED
    BY <1>1, <1>6, <2>1, <2>2, Zenon
<1>12. n < l \/ (n = l /\ valid > 0) \/ (n = l /\ valid = 0)
  BY <1>5
<1>. QED
  BY <1>8, <1>9, <1>10, <1>11, <1>12, Zenon

\* Any one.
LEMMA CommandIs ==
    ASSUME NEW B, NEW s \in Seq(B), s # <<>>
    PROVE  CommandFound(s)
  BY ControlIs, TextIsFound

-----------------------------------------------------------------------------
(* The loop, one command at a time.                                         *)

\* A round looks at what follows the bytes it takes, and the loop goes on there.
LEMMA DecodeLooksAhead ==
    ASSUME NEW B, NEW s \in Seq(B)
    PROVE  Decoding!LooksAhead(s, 0, 0, Len(s))
<1>1. SUFFICES ASSUME NEW i \in 0 .. Len(s), NEW f, NEW g, \A j \in i + 1 .. Len(s) : f[j] = g[j]
               PROVE  DecodeAt(s, 0, f, i) = DecodeAt(s, 0, g, i)
  BY Zenon DEF Decoding!LooksAhead
<1>2. PICK t \in Seq(B) : t = Drop(s, i) /\ Len(t) = Len(s) - i
  BY Dropped
<1>3. CASE t = <<>> \/ ParseCommand(t).used = 0
  BY <1>2, <1>3, Zenon DEF DecodeAt, Drop
<1>4. CASE ~(t = <<>> \/ ParseCommand(t).used = 0)
  <2>1. PICK u : u = ParseCommand(t).used
    OBVIOUS
  <2>2. u \in 0 .. Len(t) /\ u # 0
    BY <1>4, <2>1, CommandIs DEF CommandFound
  <2>3. i + u \in i + 1 .. Len(s)
    BY <1>2, <2>2
  <2>4. f[i + u] = g[i + u]
    BY <1>1, <2>3
  <2>. QED
    BY <1>2, <1>4, <2>1, <2>4, Zenon DEF DecodeAt, Drop
<1>. QED
  BY <1>3, <1>4

\* The loop over what is left is the loop over the whole from there on.
LEMMA DecodeShifts ==
    ASSUME NEW B, NEW s \in Seq(B), NEW k \in 0 .. Len(s), NEW mid, mid = Len(s) - k
    PROVE  Decoding!ShiftsBy(s, Drop(s, k), 0, 0, mid, k)
<1>. SUFFICES ASSUME NEW i \in 0 .. mid, NEW f, NEW g, \A j \in i + 1 .. mid : f[j] = g[j + k]
              PROVE  DecodeAt(Drop(s, k), 0, f, i) = DecodeAt(s, 0, g, i + k)
  BY Zenon DEF Decoding!ShiftsBy
<1>1. PICK r \in Seq(B) : r = Drop(s, k) /\ Len(r) = mid
  BY Dropped
<1>2. i + k \in 0 .. Len(s)
  OBVIOUS
<1>3. PICK t \in Seq(B) : t = Drop(s, i + k) /\ Len(t) = mid - i
  <2>1. Drop(s, i + k) \in Seq(B) /\ Len(Drop(s, i + k)) = Len(s) - (i + k)
    BY <1>2, Dropped
  <2>2. Len(s) - (i + k) = mid - i
    OBVIOUS
  <2>. QED
    BY <2>1, <2>2, Zenon
<1>4. Drop(r, i) = t
  <2>1. Drop(Drop(s, k), i) = Drop(s, k + i)
    <3>1. i \in 0 .. Len(s) - k
      OBVIOUS
    <3>. QED
      BY <3>1, Dropped
  <2>2. k + i = i + k
    OBVIOUS
  <2>. QED
    BY <1>1, <1>3, <2>1, <2>2
<1>5. SubSeq(r, i + 1, Len(r)) = t /\ SubSeq(s, (i + k) + 1, Len(s)) = t
  BY <1>3, <1>4, Zenon DEF Drop
<1>6. CASE t = <<>> \/ ParseCommand(t).used = 0
  BY <1>1, <1>5, <1>6, Zenon DEF DecodeAt
<1>7. CASE ~(t = <<>> \/ ParseCommand(t).used = 0)
  <2>1. PICK u : u = ParseCommand(t).used
    OBVIOUS
  <2>2. u \in 0 .. Len(t) /\ u # 0
    BY <1>7, <2>1, CommandIs DEF CommandFound
  <2>3. i + u \in i + 1 .. mid /\ (i + u) + k = (i + k) + u
    BY <1>3, <2>2
  <2>4. f[i + u] = g[(i + k) + u]
    BY <2>3
  <2>. QED
    BY <1>1, <1>5, <1>7, <2>1, <2>4, Zenon DEF DecodeAt
<1>. QED
  BY <1>6, <1>7

\* One round, and then the loop over what is left.
LEMMA DecodeStep ==
    ASSUME NEW B, NEW s \in Seq(B)
    PROVE  /\ s = <<>> \/ ParseCommand(s).used = 0 => Decoded(s) = [rest |-> s, cmds |-> <<>>]
           /\ s # <<>> /\ ParseCommand(s).used # 0 =>
                 Decoded(s) = [Decoded(Drop(s, ParseCommand(s).used)) EXCEPT !.cmds = ParseCommand(s).cmds \o @]
<1>. DEFINE F(r) == Decoding!Ahead(r, 0, 0, Len(r))
<1>1. \A r : Decoded(r) = F(r)[0]
  BY Zenon DEF Decoded, Decoding!Ahead, DecodeAt
<1>. HIDE DEF F
<1>2. F(s)[0] = DecodeAt(s, 0, F(s), 0)
  <2>1. PICK h \in Int : h = Len(s) /\ 0 <= h /\ 0 \in 0 .. h
    OBVIOUS
  <2>2. Decoding!LooksAhead(s, 0, 0, h)
    BY <2>1, DecodeLooksAhead
  <2>3. \A i \in 0 .. h : Decoding!Ahead(s, 0, 0, h)[i] = DecodeAt(s, 0, Decoding!Ahead(s, 0, 0, h), i)
    BY <2>1, <2>2, Decoding!AheadDefined
  <2>. QED
    BY <2>1, <2>3 DEF F
<1>3. SubSeq(s, 0 + 1, Len(s)) = s
  BY SubSeqFull
<1>4. CASE s = <<>> \/ ParseCommand(s).used = 0
  <2>1. F(s)[0] = [rest |-> s, cmds |-> <<>>]
    BY <1>2, <1>3, <1>4, Zenon DEF DecodeAt
  <2>. QED
    BY <1>1, <1>4, <2>1, Zenon
<1>5. CASE s # <<>> /\ ParseCommand(s).used # 0
  <2>1. PICK k, cmds : k = ParseCommand(s).used /\ cmds = ParseCommand(s).cmds
    OBVIOUS
  <2>2. k \in 0 .. Len(s) /\ k \in Nat /\ 0 + k = k
    BY <1>5, <2>1, CommandIs DEF CommandFound
  <2>3. F(s)[0] = [F(s)[0 + k] EXCEPT !.cmds = cmds \o @]
    BY <1>2, <1>3, <1>5, <2>1, Zenon DEF DecodeAt
  <2>4. PICK t \in Seq(B) : t = Drop(s, k) /\ Len(t) = Len(s) - k
    <3>1. \A n \in 0 .. Len(s) : Drop(s, n) \in Seq(B) /\ Len(Drop(s, n)) = Len(s) - n
      BY Dropped
    <3>. QED
      BY <2>2, <3>1, Zenon
  <2>5. F(t)[0] = F(s)[0 + k]
    <3>1. PICK h \in Int, mid \in Int : h = Len(s) /\ mid = Len(s) - k
      BY <2>2
    <3>2. Len(t) = mid /\ mid = h - k /\ 0 <= mid /\ 0 \in 0 .. mid
      BY <2>2, <2>4, <3>1
    <3>3. Decoding!LooksAhead(s, 0, 0, h) /\ Decoding!LooksAhead(t, 0, 0, mid)
      BY <3>1, <3>2, DecodeLooksAhead
    <3>4. Decoding!ShiftsBy(s, t, 0, 0, mid, k)
      BY <2>2, <2>4, <3>1, DecodeShifts
    <3>5. Decoding!Apart(s, t, 0, 0, h, mid, k)
      <4>1. 0 \in Int /\ h \in Int /\ mid \in Int /\ k \in Nat /\ mid = h - k /\ 0 <= mid
        BY <2>2, <3>2
      <4>. QED
        BY ONLY <3>3, <3>4, <4>1, Decoding!Shifted, Zenon
    <3>6. Decoding!Ahead(t, 0, 0, mid)[0] = Decoding!Ahead(s, 0, 0, h)[0 + k]
      BY <3>2, <3>5, Zenon DEF Decoding!Apart
    <3>. QED
      BY <3>1, <3>2, <3>6 DEF F
  <2>. QED
    BY <1>1, <1>5, <2>1, <2>3, <2>4, <2>5, Zenon
<1>. QED
  BY <1>4, <1>5

\* What the loop leaves.
Settled(s, B) ==
    /\ Decoded(s).rest \in Seq(B)
    /\ IsSeq(Decoded(s).cmds)
    /\ Decoded(s) = [rest |-> Decoded(s).rest, cmds |-> Decoded(s).cmds]
    /\ Decoded(s).rest # <<>> => ParseCommand(Decoded(s).rest).used = 0

\* One round of it, in parts.
Proceeds(s, r) ==
    /\ Decoded(s).rest = Decoded(r).rest
    /\ Decoded(s).cmds = ParseCommand(s).cmds \o Decoded(r).cmds

\* One field set.
LEMMA RecordSet ==
    ASSUME NEW rest, NEW cmds, NEW new, NEW d, d = [[rest |-> rest, cmds |-> cmds] EXCEPT !.cmds = new \o @]
    PROVE  d = [rest |-> rest, cmds |-> new \o cmds] /\ d.rest = rest /\ d.cmds = new \o cmds
  OBVIOUS

\* The fields of a record.
LEMMA RecordIs ==
    ASSUME NEW rest, NEW cmds, NEW d, d = [rest |-> rest, cmds |-> cmds]
    PROVE  d.rest = rest /\ d.cmds = cmds
  OBVIOUS

\* feed's loop ends with nothing left or with something that cannot be parsed yet.
LEMMA DecodeSettles ==
    ASSUME NEW B
    PROVE  /\ \A s \in Seq(B) : Settled(s, B)
           /\ \A s \in Seq(B) : s = <<>> \/ ParseCommand(s).used = 0 => Decoded(s).rest = s /\ Decoded(s).cmds = <<>>
           /\ \A s \in Seq(B) : s # <<>> /\ ParseCommand(s).used # 0 => Proceeds(s, Drop(s, ParseCommand(s).used))
<1>1. ASSUME NEW s \in Seq(B), s = <<>> \/ ParseCommand(s).used = 0
      PROVE  Settled(s, B) /\ Decoded(s).rest = s /\ Decoded(s).cmds = <<>>
  <2>1. Decoded(s) = [rest |-> s, cmds |-> <<>>]
    BY <1>1, DecodeStep, Zenon
  <2>2. PICK none : none = <<>>
    OBVIOUS
  <2>3. Decoded(s) = [rest |-> s, cmds |-> none]
    BY <2>1, <2>2, Zenon
  <2>4. Decoded(s).rest = s /\ Decoded(s).cmds = none
    BY <2>3, RecordIs
  <2>. QED
    BY <1>1, <2>2, <2>3, <2>4, SeqsShort, Zenon DEF Settled
<1>2. ASSUME NEW s \in Seq(B), s # <<>>, ParseCommand(s).used # 0, NEW r, r = Drop(s, ParseCommand(s).used), Settled(r, B)
      PROVE  Settled(s, B) /\ Proceeds(s, r)
  <2>1. PICK rest, cmds, new, d : rest = Decoded(r).rest /\ cmds = Decoded(r).cmds /\ new = ParseCommand(s).cmds /\ d = Decoded(s)
    OBVIOUS
  <2>2. d = [[rest |-> rest, cmds |-> cmds] EXCEPT !.cmds = new \o @]
    <3>1. d = [Decoded(r) EXCEPT !.cmds = new \o @]
      BY <1>2, <2>1, DecodeStep, Zenon
    <3>2. Decoded(r) = [rest |-> rest, cmds |-> cmds]
      BY <1>2, <2>1, Zenon DEF Settled
    <3>. QED
      BY <3>1, <3>2, Zenon
  <2>3. d = [rest |-> rest, cmds |-> new \o cmds] /\ d.rest = rest /\ d.cmds = new \o cmds
    BY <2>2, RecordSet
  <2>4. Proceeds(s, r)
    BY <2>1, <2>3, Zenon DEF Proceeds
  <2>5. IsSeq(new \o cmds)
    <3>1. IsSeq(new)
      BY <1>2, <2>1, CommandIs DEF CommandFound
    <3>2. IsSeq(cmds)
      BY <1>2, <2>1, Zenon DEF Settled
    <3>. QED
      BY <3>1, <3>2, SeqsJoin
  <2>. QED
    BY <1>2, <2>1, <2>3, <2>4, <2>5, Zenon DEF Settled
<1>3. ASSUME NEW s \in Seq(B), s # <<>>, ParseCommand(s).used # 0
      PROVE  \E n \in 0 .. Len(s) - 1 : Drop(s, ParseCommand(s).used) \in Seq(B) /\ Len(Drop(s, ParseCommand(s).used)) = n
  <2>1. PICK u : u = ParseCommand(s).used
    OBVIOUS
  <2>2. u \in 0 .. Len(s) /\ u # 0
    BY <1>3, <2>1, CommandIs DEF CommandFound
  <2>3. Drop(s, u) \in Seq(B) /\ Len(Drop(s, u)) = Len(s) - u
    <3>1. \A n \in 0 .. Len(s) : Drop(s, n) \in Seq(B) /\ Len(Drop(s, n)) = Len(s) - n
      BY Dropped
    <3>. QED
      BY <2>2, <3>1, Zenon
  <2>4. Len(s) - u \in 0 .. Len(s) - 1
    BY <2>2
  <2>. QED
    BY <2>1, <2>3, <2>4
<1>. DEFINE T == {n \in Nat : \A s \in Seq(B) : Len(s) = n => Settled(s, B)}
<1>4. ASSUME NEW n \in Nat, \A k \in 0 .. n - 1 : k \in T PROVE n \in T
  <2>1. SUFFICES ASSUME NEW s \in Seq(B), Len(s) = n PROVE Settled(s, B)
    OBVIOUS
  <2>2. CASE s = <<>> \/ ParseCommand(s).used = 0
    BY <1>1, <2>2
  <2>3. CASE ~(s = <<>> \/ ParseCommand(s).used = 0)
    <3>1. PICK r : r = Drop(s, ParseCommand(s).used)
      OBVIOUS
    <3>2. PICK k \in 0 .. n - 1 : r \in Seq(B) /\ Len(r) = k
      BY <1>3, <2>1, <2>3, <3>1
    <3>3. Settled(r, B)
      BY <1>4, <3>2
    <3>. QED
      BY <1>2, <2>3, <3>1, <3>3, Zenon
  <2>. QED
    BY <2>2, <2>3, Zenon
<1>5. \A n \in Nat : n \in T
  <2>. HIDE DEF T
  <2>. QED
    BY <1>4, Decoding!Upward
<1>6. \A s \in Seq(B) : Settled(s, B)
  <2>1. \A s \in Seq(B) : Len(s) \in Nat
    OBVIOUS
  <2>. QED
    BY <1>5, <2>1
<1>7. ASSUME NEW s \in Seq(B), s # <<>>, ParseCommand(s).used # 0
      PROVE  Proceeds(s, Drop(s, ParseCommand(s).used))
  <2>1. Drop(s, ParseCommand(s).used) \in Seq(B)
    BY <1>3, <1>7
  <2>. QED
    BY <1>2, <1>6, <1>7, <2>1, Zenon
<1>. QED
  BY <1>1, <1>6, <1>7, Zenon

\* A character cut by the end is left.
LEMMA OpenStep ==
    ASSUME NEW B, NEW s \in Seq(B), s # <<>>, Unit(s, 1).open
    PROVE  Decoded(s).rest = s /\ Decoded(s).cmds = <<>>
<1>1. PICK l \in Nat : l = Len(s) /\ 1 \in 1 .. l
  OBVIOUS
<1>2. ~Unit(s, 1).ok /\ \A j \in 1 .. l : s[j] \in {"E2", "82"}
  <2>1. UnitFound(s, 1)
    BY <1>1, UnitParts
  <2>2. ~Unit(s, 1).ok /\ Unit(s, 1).len = Len(s) - 1 + 1 /\ \A j \in 1 .. 1 + Unit(s, 1).len - 1 : s[j] \in {"E2", "82"}
    BY <2>1, Zenon DEF UnitFound
  <2>3. 1 + Unit(s, 1).len - 1 = l
    BY <1>1, <2>2
  <2>. QED
    BY <2>2, <2>3, Zenon
<1>3. \A j \in 1 .. l : s[j] \notin Controls
  BY <1>2 DEF Controls
<1>4. TextLen(s) = Len(s)
  <2>1. TextIs(s, Len(s))
    BY <1>1, <1>3 DEF TextIs
  <2>. QED
    BY <2>1, TextLenIs
<1>5. ValidUpTo(s) = 0
  BY <1>2, ValidStep
<1>6. s[1] \notin Controls
  BY <1>1, <1>3
<1>7. ParseCommand(s) = Incomplete
  BY <1>4, <1>5, <1>6, PrintIs, CommandSplits, Zenon DEF PrintFound
<1>8. ParseCommand(s).used = 0
  BY <1>7, Outcomes, Zenon
<1>. QED
  BY <1>8, DecodeSettles, Zenon

\* A character is printed, and then what is behind it.
LEMMA TextStep ==
    ASSUME NEW B, NEW s \in Seq(B), s # <<>>, s[1] \notin Controls, Unit(s, 1).ok,
           NEW r, r = Drop(s, Unit(s, 1).len)
    PROVE  /\ r \in Seq(B) /\ Len(r) < Len(s)
           /\ Decoded(s).rest = Decoded(r).rest
           /\ Decoded(s).cmds = << Shown(s, 1) >> \o Decoded(r).cmds
<1>1. PICK m : m = Unit(s, 1).len
  OBVIOUS
<1>2. m \in 1 .. Len(s)
  BY <1>1, PrintChunk
<1>3. r \in Seq(B) /\ Len(r) = Len(s) - m
  <2>1. \A n \in 0 .. Len(s) : Drop(s, n) \in Seq(B) /\ Len(Drop(s, n)) = Len(s) - n
    BY Dropped
  <2>2. m \in 0 .. Len(s)
    BY <1>2
  <2>. QED
    BY <1>1, <2>1, <2>2, Zenon
<1>4. PICK v \in m .. Len(s) : ChunkOf(s, r, v, m)
  <2>1. r = Drop(s, m)
    BY <1>1
  <2>. QED
    BY <1>1, <2>1, PrintChunk
<1>5. PICK one, more, all : one = << Shown(s, 1) >> /\ more = Lossy(Take(r, v - m)) /\ all = one \o more
  OBVIOUS
<1>6. v \in 1 .. Len(s) /\ v - m \in 0 .. Len(r)
  BY <1>2, <1>3
<1>7. IsSeq(one) /\ IsSeq(more)
  <2>1. IsSeq(one)
    BY <1>5, SeqsShort, Zenon
  <2>2. Take(r, v - m) \in Seq(B)
    BY <1>3, <1>6, Taken
  <2>3. IsSeq(more)
    BY <1>5, <2>2, TextTyped
  <2>. QED
    BY <2>1, <2>3
<1>8. PICK e \in Seq(B) : e = Drop(s, v)
  <2>1. v \in 0 .. Len(s)
    BY <1>6
  <2>. QED
    BY <2>1, Dropped
<1>9. ParseCommand(s).used = v /\ ParseCommand(s).cmds = all
  <2>1. ParseCommand(s) = Ok(v, all)
    BY <1>4, <1>5, CommandSplits, Zenon DEF ChunkOf
  <2>. QED
    BY <2>1, OutcomeOf
<1>10. Decoded(s).rest = Decoded(e).rest /\ Decoded(s).cmds = all \o Decoded(e).cmds
  <2>1. v # 0
    BY <1>6
  <2>2. Proceeds(s, Drop(s, ParseCommand(s).used))
    BY <1>9, <2>1, DecodeSettles, Zenon
  <2>. QED
    BY <1>8, <1>9, <2>2, Zenon DEF Proceeds
<1>11. IsSeq(Decoded(e).cmds)
  BY DecodeSettles, Zenon DEF Settled
<1>12. CASE v = m
  <2>1. v - m = 0
    BY <1>2, <1>12
  <2>2. Take(r, 0) = <<>>
    BY <1>3 DEF Take
  <2>3. more = <<>>
    <3>1. \A t \in Seq(B) : t = <<>> => Lossy(t) = <<>>
      BY LossyStep
    <3>2. Take(r, 0) \in Seq(B)
      BY <1>3, <1>6, <2>1, Taken
    <3>. QED
      BY <1>5, <2>1, <2>2, <3>1, <3>2, Zenon
  <2>4. all = one
    BY <1>5, <1>7, <2>3, SeqsJoin
  <2>5. e = r
    BY <1>1, <1>8, <1>12
  <2>6. Len(r) < Len(s)
    BY <1>2, <1>3
  <2>. QED
    BY <1>3, <1>5, <1>10, <2>4, <2>5, <2>6, Zenon
<1>13. CASE v # m
  <2>1. ParseCommand(r) = Ok(v - m, more)
    BY <1>4, <1>5, <1>13, CommandSplits, Zenon DEF ChunkOf
  <2>2. ParseCommand(r).used = v - m /\ ParseCommand(r).cmds = more
    BY <2>1, OutcomeOf
  <2>3. v - m # 0 /\ r # <<>>
    BY <1>2, <1>4, <1>13 DEF ChunkOf
  <2>4. Proceeds(r, Drop(r, ParseCommand(r).used))
    BY <1>3, <2>2, <2>3, DecodeSettles, Zenon
  <2>5. Drop(r, v - m) = e
    <3>1. Drop(Drop(s, m), v - m) = Drop(s, m + (v - m))
      <4>1. \A n \in 0 .. Len(s) : \A k \in 0 .. Len(s) - n : Drop(Drop(s, n), k) = Drop(s, n + k)
        BY Dropped
      <4>2. m \in 0 .. Len(s) /\ v - m \in 0 .. Len(s) - m
        BY <1>2
      <4>. QED
        BY <4>1, <4>2, Zenon
    <3>2. m + (v - m) = v
      BY <1>2
    <3>. QED
      BY <1>1, <1>8, <3>1, <3>2
  <2>6. Decoded(r).rest = Decoded(e).rest /\ Decoded(r).cmds = more \o Decoded(e).cmds
    BY <2>2, <2>4, <2>5, Zenon DEF Proceeds
  <2>7. (one \o more) \o Decoded(e).cmds = one \o (more \o Decoded(e).cmds)
    <3>1. PICK cmds : cmds = Decoded(e).cmds
      OBVIOUS
    <3>2. IsSeq(cmds)
      BY <1>11, <3>1
    <3>3. (one \o more) \o cmds = one \o (more \o cmds)
      BY <1>7, <3>2, SeqsJoin
    <3>. QED
      BY <3>1, <3>3, Zenon
  <2>8. Len(r) < Len(s)
    BY <1>2, <1>3
  <2>. QED
    BY <1>3, <1>5, <1>10, <2>6, <2>7, <2>8, Zenon
<1>. QED
  BY <1>12, <1>13

-----------------------------------------------------------------------------
(* Streams that are UTF-8.                                                  *)

FormAt(s, d, from, i) ==
    \/ i > Len(s)
    \/ Unit(s, i).open
    \/ Unit(s, i).ok /\ from[i + Unit(s, i).len]
Forming == INSTANCE LoopLemmas WITH Body <- FormAt

\* Whether a stream is UTF-8 is told from its end, ...
LEMMA FormLooksAhead ==
    ASSUME NEW B, NEW s \in Seq(B)
    PROVE  Forming!LooksAhead(s, 0, 1, Len(s) + 1)
<1>1. SUFFICES ASSUME NEW i \in 1 .. Len(s) + 1, NEW f, NEW g, \A j \in i + 1 .. Len(s) + 1 : f[j] = g[j]
               PROVE  FormAt(s, 0, f, i) = FormAt(s, 0, g, i)
  BY Zenon DEF Forming!LooksAhead
<1>2. CASE i > Len(s)
  BY <1>2, Zenon DEF FormAt
<1>3. CASE ~(i > Len(s))
  <2>1. f[i + Unit(s, i).len] = g[i + Unit(s, i).len]
    BY <1>1, <1>3, NextUnit, Zenon
  <2>. QED
    BY <2>1, Zenon DEF FormAt
<1>. QED
  BY <1>2, <1>3

\* ... so what is left of one is told alike.
LEMMA FormShifts ==
    ASSUME NEW B, NEW s \in Seq(B), NEW k \in 0 .. Len(s), NEW mid, mid = Len(s) + 1 - k
    PROVE  Forming!ShiftsBy(s, Drop(s, k), 0, 1, mid, k)
<1>. SUFFICES ASSUME NEW i \in 1 .. mid, NEW f, NEW g, \A j \in i + 1 .. mid : f[j] = g[j + k]
              PROVE  FormAt(Drop(s, k), 0, f, i) = FormAt(s, 0, g, i + k)
  BY Zenon DEF Forming!ShiftsBy
<1>1. PICK t \in Seq(B) : t = Drop(s, k)
  BY Dropped
<1>2. Len(t) = Len(s) - k
  BY <1>1, Dropped
<1>3. i > Len(t) <=> i + k > Len(s)
  BY <1>2
<1>4. CASE i > Len(t)
  BY <1>1, <1>3, <1>4, Zenon DEF FormAt
<1>5. CASE ~(i > Len(t))
  <2>1. i \in 1 .. Len(s) - k /\ i \in 1 .. Len(t) + 1
    BY <1>2, <1>5
  <2>2. Unit(t, i) = Unit(s, i + k)
    BY <1>1, <1>2, <2>1, UnitDrop
  <2>3. PICK len : len = Unit(s, i + k).len
    OBVIOUS
  <2>4. i + len \in i + 1 .. Len(s) + 1 - k
    <3>1. i + Unit(t, i).len \in i + 1 .. Len(t) + 1
      BY <1>5, <2>1, NextUnit
    <3>. QED
      BY <1>2, <2>2, <2>3, <3>1
  <2>5. f[i + len] = g[i + k + len]
    <3>1. f[i + len] = g[(i + len) + k]
      BY <2>4
    <3>2. (i + len) + k = i + k + len
      <4>1. len \in Int
        <5>1. i + k \in 1 .. Len(s)
          BY <2>1
        <5>2. Unit(s, i + k).len \in 1 .. Len(s) - (i + k) + 1
          BY <5>1, UnitParts DEF UnitFound
        <5>. QED
          BY <2>3, <5>2
      <4>. QED
        BY <4>1
    <3>. QED
      BY <3>1, <3>2
  <2>. QED
    BY <1>1, <1>3, <1>5, <2>2, <2>3, <2>5, Zenon DEF FormAt
<1>. QED
  BY <1>4, <1>5

\* WellFormed one character at a time.
LEMMA WellStep ==
    ASSUME NEW B, NEW s \in Seq(B)
    PROVE  /\ s = <<>> => WellFormed(s)
           /\ s # <<>> => (WellFormed(s) <=> \/ Unit(s, 1).open
                                             \/ Unit(s, 1).ok /\ WellFormed(Drop(s, Unit(s, 1).len)))
<1>. DEFINE F(r) == Forming!Ahead(r, 0, 1, Len(r) + 1)
<1>1. \A r : WellFormed(r) <=> F(r)[1]
  BY Zenon DEF WellFormed, Forming!Ahead, FormAt
<1>. HIDE DEF F
<1>2. \A i \in 1 .. Len(s) + 1 : F(s)[i] = FormAt(s, 0, F(s), i)
  <2>1. PICK h \in Int : h = Len(s) + 1
    OBVIOUS
  <2>2. Forming!LooksAhead(s, 0, 1, h) /\ 1 <= h
    BY <2>1, FormLooksAhead
  <2>3. \A i \in 1 .. h : Forming!Ahead(s, 0, 1, h)[i] = FormAt(s, 0, Forming!Ahead(s, 0, 1, h), i)
    BY <2>2, Forming!AheadDefined
  <2>. QED
    BY <2>1, <2>3, Zenon DEF F
<1>3. CASE s = <<>>
  <2>1. 1 \in 1 .. Len(s) + 1 /\ 1 > Len(s)
    BY <1>3
  <2>2. F(s)[1]
    BY <1>2, <2>1, Zenon DEF FormAt
  <2>. QED
    BY <1>1, <1>3, <2>2, Zenon
<1>4. CASE s # <<>>
  <2>1. 1 \in 1 .. Len(s) + 1 /\ ~(1 > Len(s))
    BY <1>4
  <2>2. PICK k : k = Unit(s, 1).len
    OBVIOUS
  <2>3. F(s)[1] <=> Unit(s, 1).open \/ (Unit(s, 1).ok /\ F(s)[1 + k])
    BY <1>2, <2>1, <2>2, Zenon DEF FormAt
  <2>4. k \in 0 .. Len(s) /\ k \in Nat
    <3>2. 1 \in 1 .. Len(s)
      BY <2>1
    <3>3. k \in 1 .. Len(s) - 1 + 1
      BY <2>2, <3>2, UnitParts DEF UnitFound
    <3>. QED
      BY <3>3
  <2>5. PICK t \in Seq(B) : t = Drop(s, k)
    BY <2>4, Dropped
  <2>6. Len(t) = Len(s) - k
    BY <2>4, <2>5, Dropped
  <2>7. F(t)[1] = F(s)[1 + k]
    <3>1. PICK h \in Int, mid \in Int : h = Len(s) + 1 /\ mid = Len(s) + 1 - k
      BY <2>4
    <3>2. Len(t) + 1 = mid /\ mid = h - k /\ 1 <= mid /\ 1 \in 1 .. mid
      BY <2>4, <2>6, <3>1
    <3>3. Forming!LooksAhead(s, 0, 1, h) /\ Forming!LooksAhead(t, 0, 1, mid)
      BY <3>1, <3>2, FormLooksAhead
    <3>4. Forming!ShiftsBy(s, t, 0, 1, mid, k)
      BY <2>4, <2>5, <3>1, FormShifts
    <3>5. Forming!Apart(s, t, 0, 1, h, mid, k)
      <4>1. 1 \in Int /\ h \in Int /\ mid \in Int /\ k \in Nat /\ mid = h - k /\ 1 <= mid
        BY <2>4, <3>2
      <4>. QED
        BY ONLY <3>3, <3>4, <4>1, Forming!Shifted, Zenon
    <3>6. Forming!Ahead(t, 0, 1, mid)[1] = Forming!Ahead(s, 0, 1, h)[1 + k]
      BY <3>2, <3>5, Zenon DEF Forming!Apart
    <3>. QED
      BY <3>1, <3>2, <3>6, Zenon DEF F
  <2>. QED
    BY <1>1, <1>4, <2>2, <2>3, <2>5, <2>7, Zenon
<1>. QED
  BY <1>3, <1>4

\* A sequence with another behind it.
LEMMA Behind ==
    ASSUME NEW B, NEW s \in Seq(B), NEW c \in Seq(B)
    PROVE  /\ s \o c \in Seq(B) /\ Len(s \o c) = Len(s) + Len(c)
           /\ s # <<>> => s \o c # <<>>
           /\ \A n \in 0 .. Len(s) : /\ Drop(s, n) \in Seq(B) /\ Len(Drop(s, n)) = Len(s) - n
                                    /\ Drop(s \o c, n) = Drop(s, n) \o c
<1>1. s \o c \in Seq(B) /\ Len(s \o c) = Len(s) + Len(c)
  BY Joined
<1>2. s # <<>> => s \o c # <<>>
  <2>1. \A t \in Seq(B) : t # <<>> <=> Len(t) > 0
    OBVIOUS
  <2>2. Len(s) > 0 => Len(s) + Len(c) > 0
    OBVIOUS
  <2>. QED
    BY <1>1, <2>1, <2>2, Zenon
<1>3. \A n \in 0 .. Len(s) : Drop(s, n) \in Seq(B) /\ Len(Drop(s, n)) = Len(s) - n
  BY Dropped
<1>4. \A n \in 0 .. Len(s) : Drop(s \o c, n) = Drop(s, n) \o c
  BY DropJoined
<1>. QED
  BY <1>1, <1>2, <1>3, <1>4, Zenon

\* The first character, and what is left of the sequence.
LEMMA FirstUnit ==
    ASSUME NEW B, NEW s \in Seq(B), s # <<>>
    PROVE  /\ UnitFound(s, 1) /\ Unit(s, 1).len \in 1 .. Len(s)
           /\ Drop(s, Unit(s, 1).len) \in Seq(B) /\ Len(Drop(s, Unit(s, 1).len)) = Len(s) - Unit(s, 1).len
           /\ Unit(s, 1).open => Unit(s, 1).len = Len(s)
           /\ Unit(s, 1).open \/ Unit(s, 1).len > 1 => \A j \in 1 .. Unit(s, 1).len : ~Plain(s[j])
<1>1. PICK l \in Nat : l = Len(s) /\ 1 \in 1 .. l
  OBVIOUS
<1>2. PICK m, open : m = Unit(s, 1).len /\ open = Unit(s, 1).open
  OBVIOUS
<1>3. UnitFound(s, 1)
  BY <1>1, UnitParts
<1>4. /\ m \in 1 .. Len(s) - 1 + 1
      /\ open => m = Len(s) - 1 + 1
      /\ open \/ m > 1 => \A j \in 1 .. 1 + m - 1 : s[j] \in {"E2", "82"}
  BY <1>2, <1>3, Zenon DEF UnitFound
<1>5. m \in 1 .. l /\ Len(s) - 1 + 1 = l /\ 1 + m - 1 = m
  BY <1>1, <1>4
<1>6. Drop(s, m) \in Seq(B) /\ Len(Drop(s, m)) = Len(s) - m
  <2>1. \A n \in 0 .. Len(s) : Drop(s, n) \in Seq(B) /\ Len(Drop(s, n)) = Len(s) - n
    BY Dropped
  <2>2. m \in 0 .. Len(s)
    BY <1>1, <1>5
  <2>. QED
    BY <2>1, <2>2, Zenon
<1>7. open \/ m > 1 => \A j \in 1 .. m : ~Plain(s[j])
  <2>1. \A b \in {"E2", "82"} : ~Plain(b)
    BY DEF Plain
  <2>. QED
    BY <1>4, <1>5, <2>1, Zenon
<1>. QED
  BY <1>1, <1>2, <1>3, <1>4, <1>5, <1>6, <1>7, Zenon

\* What is left of UTF-8 behind a byte of one byte is UTF-8.
LEMMA SuffixWell ==
    ASSUME NEW B
    PROVE  \A s \in Seq(B) : WellFormed(s) =>
              \A u \in 1 .. Len(s) : Plain(s[u]) => WellFormed(Drop(s, u))
<1>. DEFINE Good(s) == WellFormed(s) => \A u \in 1 .. Len(s) : Plain(s[u]) => WellFormed(Drop(s, u))
            T == {n \in Nat : \A s \in Seq(B) : Len(s) = n => Good(s)}
<1>1. ASSUME NEW n \in Nat, \A k \in 0 .. n - 1 : k \in T PROVE n \in T
  <2>1. SUFFICES ASSUME NEW s \in Seq(B), Len(s) = n, WellFormed(s), NEW u \in 1 .. Len(s), Plain(s[u])
                 PROVE  WellFormed(Drop(s, u))
    OBVIOUS
  <2>2. s # <<>>
    BY <2>1
  <2>3. PICK m : m = Unit(s, 1).len
    OBVIOUS
  <2>4. PICK r \in Seq(B) : r = Drop(s, m) /\ Len(r) = n - m
    BY <2>1, <2>2, <2>3, FirstUnit
  <2>5. m \in 1 .. n /\ (Unit(s, 1).open => m = n)
        /\ (Unit(s, 1).open \/ m > 1 => \A j \in 1 .. m : ~Plain(s[j]))
    BY <2>1, <2>2, <2>3, FirstUnit, Zenon
  <2>6. ~Unit(s, 1).open
    <3>1. u \in 1 .. n
      BY <2>1
    <3>. QED
      BY <2>1, <2>5, <3>1, Zenon
  <2>7. WellFormed(r)
    BY <2>1, <2>2, <2>3, <2>4, <2>6, WellStep, Zenon
  <2>8. u >= m
    <3>1. m > 1 => ~(u \in 1 .. m)
      BY <2>1, <2>5, Zenon
    <3>2. u \in 1 .. n
      BY <2>1
    <3>. QED
      BY <2>5, <3>1, <3>2
  <2>9. CASE u = m
    BY <2>4, <2>7, <2>9
  <2>10. CASE u # m
    <3>1. u - m \in 1 .. Len(r) /\ n - m \in 0 .. n - 1 /\ m + (u - m) = u
      BY <2>1, <2>4, <2>5, <2>8, <2>10
    <3>2. r[u - m] = s[u]
      <4>1. \A k \in 0 .. Len(s) : \A j \in 1 .. Len(s) - k : Drop(s, k)[j] = s[j + k]
        BY Dropped
      <4>2. m \in 0 .. Len(s) /\ u - m \in 1 .. Len(s) - m /\ (u - m) + m = u
        BY <2>1, <2>4, <2>5, <3>1
      <4>. QED
        BY <2>4, <4>1, <4>2, Zenon
    <3>3. Drop(r, u - m) = Drop(s, u)
      <4>1. \A k \in 0 .. Len(s) : \A j \in 0 .. Len(s) - k : Drop(Drop(s, k), j) = Drop(s, k + j)
        BY Dropped
      <4>2. m \in 0 .. Len(s) /\ u - m \in 0 .. Len(s) - m
        BY <2>1, <2>4, <2>5, <3>1
      <4>. QED
        BY <2>4, <3>1, <4>1, <4>2, Zenon
    <3>4. Good(r)
      <4>1. n - m \in T
        BY <1>1, <3>1
      <4>. HIDE DEF Good
      <4>. QED
        BY <2>4, <4>1
    <3>. QED
      BY <2>1, <2>7, <3>1, <3>2, <3>3, <3>4, Zenon
  <2>. QED
    BY <2>9, <2>10
<1>2. \A n \in Nat : n \in T
  <2>. HIDE DEF T
  <2>. QED
    BY <1>1, Forming!Upward
<1>. HIDE DEF Good
<1>3. \A s \in Seq(B) : Good(s)
  BY <1>2
<1>. QED
  BY <1>3 DEF Good

\* What UTF-8 begins with is UTF-8, but for its last character.
LEMMA PrefixWell ==
    ASSUME NEW B
    PROVE  \A s, c \in Seq(B) : WellFormed(s \o c) => WellFormed(s)
<1>. DEFINE Good(s) == \A c \in Seq(B) : WellFormed(s \o c) => WellFormed(s)
            T == {n \in Nat : \A s \in Seq(B) : Len(s) = n => Good(s)}
<1>1. ASSUME NEW n \in Nat, \A k \in 0 .. n - 1 : k \in T PROVE n \in T
  <2>1. SUFFICES ASSUME NEW s \in Seq(B), Len(s) = n, NEW c \in Seq(B), WellFormed(s \o c)
                 PROVE  WellFormed(s)
    OBVIOUS
  <2>2. CASE s = <<>> \/ Unit(s, 1).open
    BY <2>2, WellStep, Zenon
  <2>3. CASE s # <<>> /\ ~Unit(s, 1).open
    <3>1. PICK m : m = Unit(s, 1).len
      OBVIOUS
    <3>2. PICK r \in Seq(B) : r = Drop(s, m) /\ Len(r) = n - m
      BY <2>1, <2>3, <3>1, FirstUnit
    <3>3. m \in 1 .. Len(s)
      BY <2>3, <3>1, FirstUnit
    <3>4. PICK t \in Seq(B) : t = s \o c /\ t # <<>>
      BY <2>3, Behind, Zenon
    <3>5. Unit(t, 1) = Unit(s, 1)
      <4>1. 1 \in 1 .. Len(s)
        BY <2>3
      <4>. QED
        BY <2>3, <3>4, <4>1, UnitStays
    <3>6. Drop(t, m) = r \o c
      <4>1. \A k \in 0 .. Len(s) : Drop(s \o c, k) = Drop(s, k) \o c
        BY DropJoined
      <4>2. m \in 0 .. Len(s)
        BY <3>3
      <4>. QED
        BY <3>2, <3>4, <4>1, <4>2, Zenon
    <3>7. Unit(s, 1).ok /\ WellFormed(r \o c)
      <4>1. WellFormed(t) => Unit(t, 1).open \/ (Unit(t, 1).ok /\ WellFormed(Drop(t, Unit(t, 1).len)))
        BY <3>4, WellStep, Zenon
      <4>. QED
        BY <2>1, <2>3, <3>1, <3>4, <3>5, <3>6, <4>1, Zenon
    <3>8. Good(r)
      <4>1. n - m \in 0 .. n - 1
        BY <2>1, <3>3
      <4>2. n - m \in T
        BY <1>1, <4>1
      <4>. HIDE DEF Good
      <4>. QED
        BY <3>2, <4>2
    <3>9. WellFormed(r)
      BY <3>7, <3>8, Zenon
    <3>. QED
      BY <2>3, <3>1, <3>2, <3>7, <3>9, WellStep, Zenon
  <2>. QED
    BY <2>2, <2>3, Zenon
<1>2. \A n \in Nat : n \in T
  <2>. HIDE DEF T
  <2>. QED
    BY <1>1, Forming!Upward
<1>. HIDE DEF Good
<1>3. \A s \in Seq(B) : Good(s)
  BY <1>2
<1>. QED
  BY <1>3 DEF Good

-----------------------------------------------------------------------------
(* Feeding in chunks.                                                       *)

\* What a chunk adds to what was decoded before it makes the whole.
Composes(s, c) ==
    /\ Decoded(s \o c).rest = Decoded(Decoded(s).rest \o c).rest
    /\ Decoded(s \o c).cmds = Decoded(s).cmds \o Decoded(Decoded(s).rest \o c).cmds

\* Of which nothing was decoded yet.
LEMMA HeldComposes ==
    ASSUME NEW B, NEW s \in Seq(B), NEW c \in Seq(B), Decoded(s).rest = s, Decoded(s).cmds = <<>>
    PROVE  Composes(s, c)
<1>1. PICK t \in Seq(B) : t = s \o c
  BY Joined
<1>2. PICK cmds : cmds = Decoded(t).cmds /\ IsSeq(cmds)
  BY DecodeSettles, Zenon DEF Settled
<1>3. <<>> \o cmds = cmds
  BY <1>2, SeqsJoin
<1>. QED
  BY <1>1, <1>2, <1>3, Zenon DEF Composes

\* One round makes `r` of `s`, and the same commands with `c` behind.
Follows(s, r, new) == Decoded(s).rest = Decoded(r).rest /\ Decoded(s).cmds = new \o Decoded(r).cmds

\* One round more.
LEMMA RoundComposes ==
    ASSUME NEW B, NEW s \in Seq(B), NEW r \in Seq(B), NEW c \in Seq(B), NEW new, IsSeq(new),
           Follows(s, r, new), Follows(s \o c, r \o c, new), Composes(r, c)
    PROVE  Composes(s, c)
<1>1. PICK rest, cmds :
         rest \in Seq(B) /\ IsSeq(cmds) /\ rest = Decoded(r).rest /\ cmds = Decoded(r).cmds
  BY DecodeSettles, Zenon DEF Settled
<1>2. PICK more : more = Decoded(rest \o c).cmds /\ IsSeq(more)
  <2>1. rest \o c \in Seq(B)
    BY <1>1, Joined
  <2>. QED
    BY <2>1, DecodeSettles, Zenon DEF Settled
<1>3. (new \o cmds) \o more = new \o (cmds \o more)
  <2>1. IsSeq(cmds) /\ IsSeq(more)
    BY <1>1, <1>2, Zenon
  <2>. QED
    BY <2>1, SeqsJoin
<1>4. Decoded(s \o c).cmds = new \o (cmds \o more)
  BY <1>1, <1>2, Zenon DEF Follows, Composes
<1>. QED
  BY <1>1, <1>2, <1>3, <1>4, Zenon DEF Follows, Composes

\* A command that begins with a control, if it is finished.
LEMMA ControlFollows ==
    ASSUME NEW B, NEW s \in Seq(B), NEW c \in Seq(B), s # <<>>, s[1] \in Controls, ParseCommand(s).used # 0
    PROVE  \E u \in 1 .. Len(s) :
              /\ Plain(s[u]) /\ IsSeq(ParseCommand(s).cmds)
              /\ Follows(s, Drop(s, u), ParseCommand(s).cmds)
              /\ Follows(s \o c, Drop(s, u) \o c, ParseCommand(s).cmds)
<1>1. PICK u, cmds : u = ParseCommand(s).used /\ cmds = ParseCommand(s).cmds
  OBVIOUS
<1>2. u \in 0 .. Len(s) /\ Plain(s[u]) /\ IsSeq(cmds)
  BY <1>1, ControlIs, Zenon DEF CommandFound
<1>3. PICK t \in Seq(B) : t = s \o c /\ t # <<>>
  BY Behind, Zenon
<1>4. ParseCommand(t).used = u /\ ParseCommand(t).cmds = cmds
  BY <1>1, <1>3, ControlIs, Zenon
<1>5. Follows(s, Drop(s, u), cmds)
  BY <1>1, DecodeSettles, Zenon DEF Proceeds, Follows
<1>6. Follows(t, Drop(t, u), cmds)
  BY <1>1, <1>3, <1>4, DecodeSettles, Zenon DEF Proceeds, Follows
<1>7. Drop(t, u) = Drop(s, u) \o c
  <2>1. \A k \in 0 .. Len(s) : Drop(s \o c, k) = Drop(s, k) \o c
    BY DropJoined
  <2>. QED
    BY <1>2, <1>3, <2>1, Zenon
<1>8. u \in 1 .. Len(s)
  BY <1>1, <1>2
<1>. QED
  BY <1>1, <1>2, <1>3, <1>5, <1>6, <1>7, <1>8, Zenon

\* A whole character.
LEMMA TextFollows ==
    ASSUME NEW B, NEW s \in Seq(B), NEW c \in Seq(B), s # <<>>, s[1] \notin Controls,
           ~Unit(s, 1).open, Unit(s, 1).ok, NEW r, r = Drop(s, Unit(s, 1).len)
    PROVE  Follows(s, r, << Shown(s, 1) >>) /\ Follows(s \o c, r \o c, << Shown(s, 1) >>)
<1>1. 1 \in 1 .. Len(s)
  OBVIOUS
<1>2. PICK t \in Seq(B) : t = s \o c /\ t # <<>>
  BY Behind, Zenon
<1>3. t[1] = s[1]
  BY <1>1, <1>2, Joined
<1>4. Unit(t, 1) = Unit(s, 1)
  BY <1>1, <1>2, UnitStays
<1>5. Shown(t, 1) = Shown(s, 1)
  BY <1>3, <1>4, Zenon DEF Shown
<1>6. Drop(t, Unit(t, 1).len) = r \o c
  <2>1. \A k \in 0 .. Len(s) : Drop(s \o c, k) = Drop(s, k) \o c
    BY DropJoined
  <2>2. Unit(s, 1).len \in 0 .. Len(s)
    BY FirstUnit
  <2>. QED
    BY <1>2, <1>4, <2>1, <2>2, Zenon
<1>7. Follows(s, r, << Shown(s, 1) >>)
  BY TextStep, Zenon DEF Follows
<1>8. Follows(t, r \o c, << Shown(t, 1) >>)
  <2>1. t \in Seq(B) /\ t # <<>> /\ t[1] \notin Controls /\ Unit(t, 1).ok
    BY <1>2, <1>3, <1>4, Zenon
  <2>2. \A x : x = Drop(t, Unit(t, 1).len) => Follows(t, x, << Shown(t, 1) >>)
    BY <2>1, TextStep, Zenon DEF Follows
  <2>. QED
    BY <1>6, <2>2, Zenon
<1>. QED
  BY <1>2, <1>5, <1>7, <1>8, Zenon

\* Where the stream is cut makes no difference.
LEMMA ChunkComposes ==
    ASSUME NEW B
    PROVE  \A s, c \in Seq(B) : WellFormed(s \o c) => Composes(s, c)
<1>. DEFINE Good(s) == \A c \in Seq(B) : WellFormed(s \o c) => Composes(s, c)
            T == {n \in Nat : \A s \in Seq(B) : Len(s) = n => Good(s)}
<1>1. ASSUME NEW n \in Nat, \A k \in 0 .. n - 1 : k \in T PROVE n \in T
  <2>1. SUFFICES ASSUME NEW s \in Seq(B), Len(s) = n, NEW c \in Seq(B), WellFormed(s \o c)
                 PROVE  Composes(s, c)
    OBVIOUS
  <2>2. ASSUME NEW r \in Seq(B), Len(r) \in 0 .. n - 1, WellFormed(r \o c) PROVE Composes(r, c)
    <3>1. Len(r) \in T
      BY <1>1, <2>2
    <3>2. Good(r)
      <4>. HIDE DEF Good
      <4>. QED
        BY <3>1
    <3>. QED
      BY <2>2, <3>2
  <2>3. CASE s = <<>>
    BY <2>3, DecodeSettles, HeldComposes, Zenon
  <2>4. CASE s # <<>> /\ s[1] \in Controls /\ ParseCommand(s).used = 0
    BY <2>4, DecodeSettles, HeldComposes, Zenon
  <2>5. CASE s # <<>> /\ s[1] \in Controls /\ ParseCommand(s).used # 0
    <3>1. PICK u, cmds :
             /\ u \in 1 .. Len(s)
             /\ Plain(s[u]) /\ IsSeq(cmds)
             /\ Follows(s, Drop(s, u), cmds) /\ Follows(s \o c, Drop(s, u) \o c, cmds)
      BY <2>5, ControlFollows
    <3>2. PICK r \in Seq(B) : r = Drop(s, u) /\ Len(r) = n - u /\ Drop(s \o c, u) = r \o c
      <4>1. \A k \in 0 .. Len(s) : /\ Drop(s, k) \in Seq(B) /\ Len(Drop(s, k)) = Len(s) - k
                                   /\ Drop(s \o c, k) = Drop(s, k) \o c
        BY Behind
      <4>2. u \in 0 .. Len(s)
        BY <3>1
      <4>. QED
        BY <2>1, <4>1, <4>2, Zenon
    <3>3. WellFormed(r \o c)
      <4>1. PICK t \in Seq(B) : t = s \o c /\ Len(t) = Len(s) + Len(c) /\ \A j \in 1 .. Len(s) : t[j] = s[j]
        <5>1. s \o c \in Seq(B) /\ Len(s \o c) = Len(s) + Len(c) /\ \A j \in 1 .. Len(s) : (s \o c)[j] = s[j]
          BY Joined
        <5>. QED
          BY <5>1, Zenon
      <4>2. u \in 1 .. Len(t) /\ t[u] = s[u]
        BY <3>1, <4>1
      <4>3. WellFormed(t) => \A j \in 1 .. Len(t) : Plain(t[j]) => WellFormed(Drop(t, j))
        BY SuffixWell, Zenon
      <4>. QED
        BY <2>1, <3>1, <3>2, <4>1, <4>2, <4>3, Zenon
    <3>4. Composes(r, c)
      <4>1. n - u \in 0 .. n - 1
        BY <2>1, <3>1
      <4>. QED
        BY <2>2, <3>2, <3>3, <4>1, Zenon
    <3>. QED
      BY <3>1, <3>2, <3>4, RoundComposes, Zenon
  <2>6. CASE s # <<>> /\ s[1] \notin Controls /\ Unit(s, 1).open
    <3>1. Decoded(s).rest = s /\ Decoded(s).cmds = <<>>
      BY <2>6, OpenStep, Zenon
    <3>. QED
      BY <3>1, HeldComposes, Zenon
  <2>7. CASE s # <<>> /\ s[1] \notin Controls /\ ~Unit(s, 1).open
    <3>1. PICK t \in Seq(B) : t = s \o c /\ t # <<>>
      BY <2>7, Behind, Zenon
    <3>2. Unit(t, 1) = Unit(s, 1)
      <4>1. 1 \in 1 .. Len(s)
        BY <2>7
      <4>. QED
        BY <2>7, <3>1, <4>1, UnitStays
    <3>3. PICK m \in 1 .. Len(s) : m = Unit(s, 1).len
      BY <2>7, FirstUnit
    <3>4. PICK r \in Seq(B) : r = Drop(s, m) /\ Len(r) = n - m /\ Drop(t, m) = r \o c
      <4>1. \A k \in 0 .. Len(s) : /\ Drop(s, k) \in Seq(B) /\ Len(Drop(s, k)) = Len(s) - k
                                   /\ Drop(s \o c, k) = Drop(s, k) \o c
        BY Behind
      <4>2. m \in 0 .. Len(s)
        OBVIOUS
      <4>. QED
        BY <2>1, <3>1, <4>1, <4>2, Zenon
    <3>5. Unit(s, 1).ok /\ WellFormed(r \o c)
      <4>1. WellFormed(t) => Unit(t, 1).open \/ (Unit(t, 1).ok /\ WellFormed(Drop(t, Unit(t, 1).len)))
        BY <3>1, WellStep, Zenon
      <4>. QED
        BY <2>1, <2>7, <3>1, <3>2, <3>3, <3>4, <4>1, Zenon
    <3>6. Composes(r, c)
      <4>1. n - m \in 0 .. n - 1
        BY <2>1
      <4>. QED
        BY <2>2, <3>4, <3>5, <4>1, Zenon
    <3>7. Follows(s, r, << Shown(s, 1) >>) /\ Follows(s \o c, r \o c, << Shown(s, 1) >>)
      BY <2>7, <3>3, <3>4, <3>5, TextFollows, Zenon
    <3>8. IsSeq(<< Shown(s, 1) >>)
      BY SeqsShort, Zenon
    <3>. QED
      BY <3>6, <3>7, <3>8, RoundComposes, Zenon
  <2>. QED
    BY <2>3, <2>4, <2>5, <2>6, <2>7, Zenon
<1>2. \A n \in Nat : n \in T
  <2>. HIDE DEF T
  <2>. QED
    BY <1>1, Forming!Upward
<1>. HIDE DEF Good
<1>3. \A s \in Seq(B) : Good(s)
  BY <1>2
<1>. QED
  BY <1>3 DEF Good

\* What holds between two chunks: nothing is held back that could be parsed, and
\* for a stream that is UTF-8 so far, the buffer and the commands are those of
\* all of it.
FeedInv ==
    /\ alphabet \in Alphabets
    /\ sent \in Seq(Bytes) /\ buf \in Seq(Bytes)
    /\ ChunksDoNotMatter
    /\ buf # <<>> => ParseCommand(buf).used = 0

\* The record of what the loop leaves, and its fields.
LEMMA DecodedIs ==
    ASSUME NEW s \in Seq(Bytes), NEW rest, NEW cmds
    PROVE  Decoded(s) = [rest |-> rest, cmds |-> cmds] <=> cmds = Decoded(s).cmds /\ rest = Decoded(s).rest
<1>1. PICK d : d = Decoded(s)
  OBVIOUS
<1>2. d = [rest |-> d.rest, cmds |-> d.cmds]
  BY <1>1, DecodeSettles, VtParserAssumption, Zenon DEF Settled
<1>3. d = [rest |-> rest, cmds |-> cmds] => cmds = d.cmds /\ rest = d.rest
  BY RecordIs, Zenon
<1>. QED
  BY <1>1, <1>2, <1>3, Zenon

\* It holds at the start.
LEMMA FeedInit == ParserInit => FeedInv
<1>1. SUFFICES ASSUME ParserInit PROVE FeedInv
  OBVIOUS
<1>2. PICK none \in Seq(Bytes) : none = <<>>
  <2>1. <<>> \in Seq(Bytes)
    OBVIOUS
  <2>. QED
    BY <2>1
<1>3. Decoded(none).rest = none /\ Decoded(none).cmds = none
  BY <1>2, DecodeSettles, Zenon
<1>4. alphabet \in Alphabets /\ sent = none /\ buf = none /\ out = none
  BY <1>1, <1>2, Zenon DEF ParserInit
<1>. QED
  BY <1>2, <1>3, <1>4, DecodedIs, Zenon DEF FeedInv, ChunksDoNotMatter

\* A chunk keeps it.
LEMMA FeedStep == FeedInv /\ [ParserNext]_parserVars => FeedInv'
<1>. USE VtParserAssumption
<1>1. ASSUME FeedInv, NEW c \in Seq(Bytes), Feed(c) PROVE FeedInv'
  <2>1. alphabet' \in Alphabets /\ sent' = sent \o c
    BY <1>1, Zenon DEF FeedInv, Feed
  <2>2. PICK t \in Seq(Bytes) : t = buf \o c
    BY <1>1, Joined, Zenon DEF FeedInv
  <2>3. buf' = Decoded(t).rest /\ out' = out \o Decoded(t).cmds
    BY <1>1, <2>2, Zenon DEF Feed
  <2>4. Settled(t, Bytes)
    BY DecodeSettles, Zenon
  <2>5. sent' \in Seq(Bytes)
    BY <1>1, <2>1, Joined, Zenon DEF FeedInv
  <2>6. buf' \in Seq(Bytes) /\ (buf' # <<>> => ParseCommand(buf').used = 0)
    BY <2>3, <2>4, Zenon DEF Settled
  <2>7. ASSUME WellFormed(sent') PROVE out' = Decoded(sent').cmds /\ buf' = Decoded(sent').rest
    <3>1. sent \in Seq(Bytes) /\ WellFormed(sent \o c)
      BY <1>1, <2>1, <2>7, Zenon DEF FeedInv
    <3>2. WellFormed(sent)
      BY <3>1, PrefixWell, Zenon
    <3>3. out = Decoded(sent).cmds /\ buf = Decoded(sent).rest
      BY <1>1, <3>1, <3>2, DecodedIs, Zenon DEF FeedInv, ChunksDoNotMatter
    <3>4. Composes(sent, c)
      BY <3>1, ChunkComposes, Zenon
    <3>. QED
      BY <2>1, <2>2, <2>3, <3>3, <3>4, Zenon DEF Composes
  <2>8. ChunksDoNotMatter'
    BY <2>5, <2>7, DecodedIs, Zenon DEF ChunksDoNotMatter
  <2>. QED
    BY <2>1, <2>5, <2>6, <2>8, Zenon DEF FeedInv
<1>2. ASSUME FeedInv, ParserNext PROVE FeedInv'
  <2>1. PICK n \in 1 .. Minimum(MaxChunk, MaxBytes - Len(sent)) : \E chunk \in [1 .. n -> alphabet] : Feed(chunk)
    BY <1>2, Zenon DEF ParserNext
  <2>3. PICK c \in [1 .. n -> alphabet] : Feed(c)
    BY <2>1
  <2>2. c \in Seq(Bytes)
    <3>1. alphabet \subseteq Bytes
      BY <1>2 DEF FeedInv, VtParserAssumption
    <3>2. n \in Nat
      OBVIOUS
    <3>. QED
      BY <3>1, <3>2
  <2>. QED
    BY <1>1, <1>2, <2>2, <2>3
<1>3. ASSUME FeedInv, UNCHANGED parserVars PROVE FeedInv'
  BY <1>3, Zenon DEF FeedInv, parserVars, ChunksDoNotMatter
<1>. QED
  BY <1>2, <1>3, Zenon

\* In every run: wherever the chunks of a UTF-8 stream end, in a character or in
\* a sequence, the screen has the commands it would have from all of it at once,
\* and no later (feed, vt.rs).
THEOREM ChunksJoin == ParserSpec => []ChunksDoNotMatter
<1>1. FeedInv => ChunksDoNotMatter
  BY Zenon DEF FeedInv
<1>. QED
  BY FeedInit, FeedStep, <1>1, PTL DEF ParserSpec

\* In every run, of any bytes: what is held back is the beginning of one
\* character or of one sequence, nothing that is finished (feed, vt.rs).
THEOREM HeldBack == ParserSpec => []HeldBackUnfinished
<1>1. FeedInv => HeldBackUnfinished
  <2>1. SUFFICES ASSUME FeedInv, buf # <<>> PROVE Begun(buf)
    BY Zenon DEF HeldBackUnfinished, Begun
  <2>2. buf \in Seq(Bytes) /\ ParseCommand(buf).used = 0
    BY <2>1, Zenon DEF FeedInv
  <2>. QED
    BY <2>1, <2>2, CommandIs, Zenon DEF CommandFound
<1>. QED
  BY FeedInit, FeedStep, <1>1, PTL DEF ParserSpec
=============================================================================

--------------------------- MODULE BoundaryProofs ---------------------------
(***************************************************************************)
(* Proofs about Boundary and FrameCopy, the two halves of the C ABI, for   *)
(* any configurations, grids and bounds.                                   *)
(*                                                                         *)
(* Boundary.  Ownership: the handle is there exactly while the session     *)
(* lives, and the main thread is in a call only then.  The title of a      *)
(* session that has ended: the reader has stopped before the suffix is     *)
(* set, so the two calls that copy the title see the same one, and nothing *)
(* else can come between the suffix and the window.                        *)
(***************************************************************************)
EXTENDS Boundary, FrameCopy, TLAPS

TitleCalls == {"titleLength", "title"}

\* The handle is the session's, and there while a call is made.
Ownership ==
    /\ handle <=> session = "live"
    /\ freed = (IF session = "freed" THEN 1 ELSE 0)
    /\ main \in Calls \cup {"unwinding"} => handle
    /\ main \in {"launching", "spawning"} => session = "none"
    /\ main = "terminated" => ~handle

\* The place that was noted is the last panic's.
Noted == place = panics /\ caught.panic <= panics /\ PlaceNotStale

\* A title that is being copied while there is a suffix does not change, and a
\* window that does not show the suffix yet is about to.
Presented ==
    /\ ended /\ open => suffix # "none"
    /\ suffix # "none" => reader \notin {"reading"}
    /\ suffix # "none" /\ main = "title" => title.len = asked
    /\ suffix # "none" /\ shown.suffix # suffix =>
          main \in TitleCalls \/ (main = "unwinding" /\ caught.call \in TitleCalls)
    /\ main \in {"launching", "spawning"} => reader = "none" /\ suffix = "none" /\ ~ended

\* A shell has all of a usable configuration; without one there is no session,
\* and one that could not be started is what the view shows.
Begun ==
    /\ shell # <<>> => shell = Started(config, Inherited) /\ Usable(config)
    /\ main \in {"launching", "spawning"} => shell = <<>> /\ child = "none"
    /\ suffix = "noShell" =>
          /\ session = "none" /\ shell = <<>> /\ child \in {"none", "abandoned"}
          /\ Usable(config) => overlay = "create"

Inv == TypeOK /\ Ownership /\ Noted /\ Presented /\ Begun

-----------------------------------------------------------------------------
(* What the shell is given.                                                 *)

Pairs == [key : STRING, value : STRING]

\* Command::env, once per pair of the configuration.
SetVar(c, d, given, pair) == With(given, pair.key, pair.value)
Setting == INSTANCE LoopLemmas WITH Body <- SetVar

\* `given` is `base` with the first k pairs set over it, the last of a name first.
SetOver(base, env, k, given) ==
    /\ DOMAIN given = DOMAIN base \cup {env[i].key : i \in 1 .. k}
    /\ \A i \in 1 .. k : (\A j \in i + 1 .. k : env[j].key # env[i].key) =>
          given[env[i].key] = env[i].value
    /\ \A name \in DOMAIN base : (\A i \in 1 .. k : env[i].key # name) => given[name] = base[name]

\* Setting one more variable leaves the others, and takes the place of its own.
LEMMA OneSet ==
    ASSUME NEW base, NEW env, NEW k \in Nat, NEW given, SetOver(base, env, k, given)
    PROVE  SetOver(base, env, k + 1, With(given, env[k + 1].key, env[k + 1].value))
<1>. DEFINE key(i) == env[i].key
            val(i) == env[i].value
<1>1. PICK new : new = With(given, key(k + 1), val(k + 1))
  OBVIOUS
<1>2. /\ DOMAIN new = DOMAIN given \cup {key(k + 1)}
      /\ new[key(k + 1)] = val(k + 1)
      /\ \A n \in DOMAIN given : n # key(k + 1) => new[n] = given[n]
  <2>. HIDE DEF key, val
  <2>. QED
    BY <1>1 DEF With
<1>3. /\ DOMAIN given = DOMAIN base \cup {key(i) : i \in 1 .. k}
      /\ \A i \in 1 .. k : (\A j \in i + 1 .. k : key(j) # key(i)) => given[key(i)] = val(i)
      /\ \A name \in DOMAIN base : (\A i \in 1 .. k : key(i) # name) => given[name] = base[name]
  BY Zenon DEF SetOver
<1>4. /\ k + 1 \in 1 .. k + 1 /\ \A i \in 1 .. k : i \in 1 .. k + 1
      /\ \A i \in 1 .. k + 1 : i \in 1 .. k \/ i = k + 1
      /\ \A i \in 1 .. k : k + 1 \in i + 1 .. k + 1 /\ \A j \in i + 1 .. k : j \in i + 1 .. k + 1
  OBVIOUS
<1>. HIDE DEF key, val
<1>5. DOMAIN new = DOMAIN base \cup {key(i) : i \in 1 .. k + 1}
  BY <1>2, <1>3, <1>4
<1>6. ASSUME NEW i \in 1 .. k + 1, \A j \in i + 1 .. k + 1 : key(j) # key(i)
      PROVE  new[key(i)] = val(i)
  <2>1. CASE i = k + 1
    BY <1>2, <2>1
  <2>2. CASE i \in 1 .. k
    <3>1. key(i) # key(k + 1) /\ \A j \in i + 1 .. k : key(j) # key(i)
      BY <1>4, <1>6, <2>2, Zenon
    <3>2. key(i) \in DOMAIN given /\ given[key(i)] = val(i)
      BY <1>3, <2>2, <3>1, Zenon
    <3>. QED
      BY <1>2, <3>1, <3>2, Zenon
  <2>. QED
    BY <1>4, <2>1, <2>2, Zenon
<1>7. ASSUME NEW name \in DOMAIN base, \A i \in 1 .. k + 1 : key(i) # name
      PROVE  new[name] = base[name]
  <2>1. name # key(k + 1) /\ \A i \in 1 .. k : key(i) # name
    BY <1>4, <1>7, Zenon
  <2>2. name \in DOMAIN given /\ given[name] = base[name]
    BY <1>3, <2>1, Zenon
  <2>. QED
    BY <1>2, <2>1, <2>2, Zenon
<1>8. SetOver(base, env, k + 1, new)
  BY <1>5, <1>6, <1>7, Zenon DEF SetOver, key, val
<1>. QED
  BY <1>1, <1>8, Zenon DEF key, val

\* The environment is the engine's, with every pair set over it.
LEMMA EnvironmentSet ==
    ASSUME NEW env \in Seq(Pairs)
    PROVE  SetOver(EngineVars(Inherited), env, Len(env), Environment(env, Inherited))
<1>. DEFINE n == Len(env)
<1>1. PICK base : base = EngineVars(Inherited)
  OBVIOUS
<1>2. n \in Nat /\ DOMAIN env = 1 .. n
  OBVIOUS
<1>. HIDE DEF n
<1>3. PICK t : Setting!Trace(0, 0, base, env, n, t) /\ Setting!FoldOf(0, 0, base, env) = t[n]
  BY <1>2, Setting!FoldTrace
<1>4. Environment(env, Inherited) = Setting!FoldOf(0, 0, base, env)
  BY <1>1, Zenon DEF Environment, SetVar, FoldLeft, MapThenFoldSet, Max,
                     Setting!FoldOf, Setting!MapThenFoldSet, Setting!Greatest
<1>. DEFINE T == {k \in 0 .. n : SetOver(base, env, k, t[k])}
<1>5. 0 \in T
  <2>1. t[0] = base
    BY <1>3, Zenon DEF Setting!Trace
  <2>2. SetOver(base, env, 0, base)
    <3>. DEFINE key(i) == env[i].key
    <3>1. 1 .. 0 = {}
      OBVIOUS
    <3>2. DOMAIN base = DOMAIN base \cup {key(i) : i \in 1 .. 0}
      <4>. HIDE DEF key
      <4>. QED
        BY <3>1
    <3>. QED
      BY <3>1, <3>2, Zenon DEF SetOver
  <2>. QED
    BY <1>2, <2>1, <2>2
<1>6. ASSUME NEW k \in 0 .. n - 1, k \in T PROVE k + 1 \in T
  <2>1. k \in Nat /\ k + 1 \in 1 .. n /\ k + 1 \in 0 .. n /\ (k + 1) - 1 = k
    BY <1>2
  <2>2. t[k + 1] = With(t[(k + 1) - 1], env[k + 1].key, env[k + 1].value)
    BY <1>3, <2>1, Zenon DEF Setting!Trace, SetVar
  <2>3. SetOver(base, env, k, t[k])
    BY <1>6
  <2>4. SetOver(base, env, k + 1, With(t[k], env[k + 1].key, env[k + 1].value))
    BY <2>1, <2>3, OneSet
  <2>5. SetOver(base, env, k + 1, t[k + 1])
    BY <2>1, <2>2, <2>4, Zenon
  <2>. QED
    BY <2>1, <2>5
<1>. HIDE DEF T
<1>7. n \in T
  <2>1. \A k \in 0 .. n : k \in T
    BY <1>2, <1>5, <1>6, Setting!Induction
  <2>2. n \in 0 .. n
    BY <1>2
  <2>. QED
    BY <2>1, <2>2
<1>. QED
  BY <1>1, <1>3, <1>4, <1>7, Zenon DEF T, n

\* The engine's own are over what the app was started with.
LEMMA EngineSets ==
    LET base == EngineVars(Inherited)
    IN  /\ DOMAIN base = {"HOME", "PATH", "TERM", "COLORTERM"}
        /\ base["TERM"] = DefaultTerm /\ base["COLORTERM"] = DefaultColorTerm
        /\ base["HOME"] = Inherited["HOME"] /\ base["PATH"] = Inherited["PATH"]
<1>. DEFINE base == EngineVars(Inherited)
            one == With(Inherited, "TERM", DefaultTerm)
<1>1. DOMAIN Inherited = {"HOME", "PATH"}
  BY DEF Inherited
<1>. HIDE DEF Inherited
<1>2. /\ DOMAIN one = {"HOME", "PATH", "TERM"} /\ one["TERM"] = DefaultTerm
      /\ one["HOME"] = Inherited["HOME"] /\ one["PATH"] = Inherited["PATH"]
  BY <1>1 DEF With
<1>3. base = With(one, "COLORTERM", DefaultColorTerm)
  BY Zenon DEF EngineVars
<1>. HIDE DEF base, one
<1>4. /\ DOMAIN base = {"HOME", "PATH", "TERM", "COLORTERM"}
      /\ base["TERM"] = DefaultTerm /\ base["COLORTERM"] = DefaultColorTerm
      /\ base["HOME"] = Inherited["HOME"] /\ base["PATH"] = Inherited["PATH"]
  BY <1>2, <1>3 DEF With
<1>. QED
  BY <1>4 DEF base

\* Every pair is in the environment, the engine's two are, and each name has the
\* last word said of it.
Given(env) ==
    /\ \A i \in DOMAIN config.env : config.env[i].key \in DOMAIN env
    /\ \A name \in DOMAIN env : env[name] = Told(name)
    /\ {"TERM", "COLORTERM"} \subseteq DOMAIN env

\* What Told says is what Environment makes.
LEMMA EnvironmentTold == config \in Configs => Given(Environment(config.env, Inherited))
<1>. SUFFICES ASSUME config \in Configs PROVE Given(Environment(config.env, Inherited))
  OBVIOUS
<1>1. PICK env \in Seq(Pairs) : env = config.env
  BY BoundaryAssumption DEF Pairs
<1>2. PICK given : given = Environment(env, Inherited)
  OBVIOUS
<1>3. PICK base : base = EngineVars(Inherited)
  OBVIOUS
<1>4. SetOver(base, env, Len(env), given)
  BY <1>2, <1>3, EnvironmentSet, Zenon
<1>5. PICK n \in Nat : n = Len(env)
  OBVIOUS
<1>6. DOMAIN env = 1 .. n
  BY <1>5
<1>. DEFINE key(i) == env[i].key
            val(i) == env[i].value
<1>7. /\ DOMAIN given = DOMAIN base \cup {key(i) : i \in 1 .. n}
      /\ \A i \in 1 .. n : (\A j \in i + 1 .. n : key(j) # key(i)) => given[key(i)] = val(i)
      /\ \A name \in DOMAIN base : (\A i \in 1 .. n : key(i) # name) => given[name] = base[name]
  BY <1>4, <1>5, Zenon DEF SetOver
<1>8. /\ DOMAIN base = {"HOME", "PATH", "TERM", "COLORTERM"}
      /\ base["TERM"] = DefaultTerm /\ base["COLORTERM"] = DefaultColorTerm
      /\ base["HOME"] = Inherited["HOME"] /\ base["PATH"] = Inherited["PATH"]
  BY <1>3, EngineSets, Zenon
<1>9. ASSUME NEW name \in DOMAIN given PROVE given[name] = Told(name)
  <2>. DEFINE told == {i \in 1 .. n : key(i) = name}
  <2>1. told = {i \in DOMAIN config.env : config.env[i].key = name}
    BY <1>1, <1>6, Zenon
  <2>2. CASE told # {}
    <3>1. told \in SUBSET (1 .. n)
      OBVIOUS
    <3>2. PICK m : m = Max(told)
      OBVIOUS
    <3>3. m \in told /\ \A y \in told : m >= y
      <4>. HIDE DEF told
      <4>1. Setting!Greatest(told) \in told /\ \A y \in told : Setting!Greatest(told) >= y
        BY <2>2, <3>1, Setting!LargestNumber
      <4>2. Max(told) = Setting!Greatest(told)
        BY Zenon DEF Max, Setting!Greatest
      <4>. QED
        BY <3>2, <4>1, <4>2, Zenon
    <3>4. m \in 1 .. n /\ key(m) = name
      BY <3>3
    <3>5. ASSUME NEW j \in m + 1 .. n PROVE key(j) # key(m)
      <4>1. j \in 1 .. n /\ ~(m >= j)
        BY <3>4
      <4>2. j \notin told
        <5>. HIDE DEF told
        <5>. QED
          BY <3>3, <4>1
      <4>. QED
        BY <3>4, <4>1, <4>2
    <3>6. given[name] = val(m)
      <4>. HIDE DEF key, val
      <4>. QED
        BY <1>7, <3>4, <3>5, Zenon
    <3>7. Told(name) = config.env[m].value
      <4>. HIDE DEF told
      <4>. QED
        BY <2>1, <2>2, <3>2, Zenon DEF Told
    <3>. QED
      BY <1>1, <3>6, <3>7, Zenon
  <2>3. CASE told = {}
    <3>1. \A i \in 1 .. n : key(i) # name
      BY <2>3
    <3>2. name \in DOMAIN base /\ given[name] = base[name]
      <4>. HIDE DEF key, val, told
      <4>. QED
        BY <1>7, <3>1
    <3>3. name \in {"HOME", "PATH", "TERM", "COLORTERM"}
      BY <1>8, <3>2
    <3>. HIDE DEF told
    <3>4. CASE name = "TERM"
      BY <1>8, <2>1, <2>3, <3>2, <3>4, Zenon DEF Told
    <3>5. CASE name = "COLORTERM"
      BY <1>8, <2>1, <2>3, <3>2, <3>5, Zenon DEF Told
    <3>6. CASE name \in {"HOME", "PATH"}
      <4>1. name \notin {"TERM", "COLORTERM"} /\ name # "TERM" /\ name # "COLORTERM"
        BY <3>6, Zenon
      <4>2. base[name] = Inherited[name]
        BY <1>8, <3>6, Zenon
      <4>. QED
        BY <2>1, <2>3, <3>2, <4>1, <4>2, Zenon DEF Told
    <3>. QED
      BY <3>3, <3>4, <3>5, <3>6, Zenon
  <2>. QED
    BY <2>2, <2>3, Zenon
<1>10. \A i \in DOMAIN config.env : config.env[i].key \in DOMAIN given
  <2>1. \A i \in 1 .. n : key(i) \in DOMAIN given
    <3>. HIDE DEF key, val
    <3>. QED
      BY <1>7
  <2>. QED
    BY <1>1, <1>6, <2>1, Zenon
<1>11. {"TERM", "COLORTERM"} \subseteq DOMAIN given
  BY <1>7, <1>8
<1>. HIDE DEF key, val
<1>12. Given(given)
  BY <1>9, <1>10, <1>11, Zenon DEF Given
<1>. QED
  BY <1>1, <1>2, <1>12, Zenon

-----------------------------------------------------------------------------
\* All of it holds at first...
LEMMA InvInit == Init => Inv
<1> SUFFICES ASSUME Init PROVE Inv
  OBVIOUS
<1> USE BoundaryAssumption DEF Init, BoundaryAssumption, NoError, AppName, Calls, TitleSuffixes
<1>1. TypeOK
  <2>1. shown \in [title : AppName .. MaxTitles, suffix : TitleSuffixes]  OBVIOUS
  <2>2. lastError \in [about : {"nothing", "logging", "create", "panic"}, panic : Nat, place : Nat]
    OBVIOUS
  <2>3. main \in Calls \cup {"launching", "spawning", "idle", "unwinding", "terminated"}  OBVIOUS
  <2>4. caught \in [call : Calls, panic : Nat]  OBVIOUS
  <2>5. title \in [id : 0 .. MaxTitles, len : 0 .. MaxLen]  OBVIOUS
  <2>6. /\ config \in Configs /\ handle \in BOOLEAN /\ ended \in BOOLEAN /\ open \in BOOLEAN
        /\ session = "none" /\ child = "none" /\ reader = "none" /\ caller = "tick"
        /\ suffix \in TitleSuffixes /\ overlay = "nothing"
    OBVIOUS
  <2>7. freed \in Nat /\ place \in Nat /\ panics \in 0 .. MaxPanics /\ asked \in 0 .. MaxLen
    OBVIOUS
  <2> HIDE DEF Init
  <2> QED  BY <2>1, <2>2, <2>3, <2>4, <2>5, <2>6, <2>7 DEF TypeOK
<1>2. Ownership  BY DEF Ownership
<1>3. Noted  BY DEF Noted, PlaceNotStale
<1>4. Presented  BY DEF Presented, TitleCalls
<1>5. Begun  BY DEF Begun
<1> QED  BY <1>1, <1>2, <1>3, <1>4, <1>5 DEF Inv

\* Closing keeps the types of what it changes, ...
LEMMA CloseTypes ==
    ASSUME TypeOK, Close
    PROVE  /\ freed' \in Nat
           /\ handle' \in BOOLEAN /\ session' \in {"none", "live", "freed"}
           /\ child' \in {"none", "running", "clean", "failed", "abandoned", "reaped"}
           /\ reader' \in {"none", "reading", "hungUp", "panicked", "joined"}
<1>1. freed \in Nat  BY DEF TypeOK
<1>2. freed' \in {freed, freed + 1}  BY Zenon DEF Close, Destroy
<1>3. freed' \in Nat  BY <1>1, <1>2
<1>4. /\ handle' \in BOOLEAN /\ session' \in {"none", "live", "freed"}
      /\ child' \in {"none", "running", "clean", "failed", "abandoned", "reaped"}
      /\ reader' \in {"none", "reading", "hungUp", "panicked", "joined"}
  BY Zenon DEF TypeOK, Close, Destroy
<1> QED  BY <1>3, <1>4

\* ... and so does every step.
LEMMA TypeStep == Inv /\ [Next]_vars => TypeOK'
<1> SUFFICES ASSUME TypeOK, [Next]_vars PROVE TypeOK'
  BY DEF Inv
<1> USE BoundaryAssumption DEF TypeOK, BoundaryAssumption, Calls, TitleSuffixes, AppName, engineVars, errorVars, titleCall, viewVars
<1>1. CASE InitLogging  BY <1>1 DEF InitLogging, Error
<1>2. CASE CreateRefused  BY <1>2 DEF CreateRefused, NoShell, LastEngineError
<1>3. CASE CreateFails  BY <1>3 DEF CreateFails, NoShell, Error, LastEngineError
<1>4. CASE Create  BY <1>4 DEF Create
<1>5. CASE TitleLength  BY <1>5 DEF TitleLength, SetWindowTitle, Untitled
<1>6. CASE Title  BY <1>6, SMTT(40) DEF Title, SetWindowTitle, Untitled
<1>7. CASE StatusRunning  BY <1>7 DEF StatusRunning
<1>8. CASE StatusClean
  <2>1. freed' \in Nat  BY <1>8 DEF StatusClean, Destroy
  <2>2. session' \in {"none", "live", "freed"} /\ handle' \in BOOLEAN  BY Zenon, <1>8 DEF StatusClean, Destroy
  <2> QED  BY <1>8, <2>1, <2>2, ZenonT(60) DEF StatusClean, Destroy
<1>9. CASE StatusTrouble  BY <1>9 DEF StatusTrouble, LastEngineError
<1>10. CASE Frame  BY <1>10 DEF Frame
<1>11. CASE Send  BY <1>11 DEF Send
<1>12. CASE Caught
  <2>1. shown' \in [title : AppName .. MaxTitles, suffix : TitleSuffixes]
    <3>1. shown' \in {shown, Untitled}  BY <1>12 DEF Caught, SetWindowTitle
    <3>2. Untitled \in [title : AppName .. MaxTitles, suffix : TitleSuffixes]  BY DEF Untitled
    <3> QED  BY <3>1, <3>2
  <2>2. main' \in {"idle", "frame"}  BY <1>12 DEF Caught, SetWindowTitle, Untitled
  <2>3. lastError' \in [about : {"nothing", "logging", "create", "panic"}, panic : Nat, place : Nat]
    BY <1>12 DEF Caught
  <2> QED  BY <1>12, <2>1, <2>2, <2>3 DEF Caught
<1>13. CASE SetTitle  BY <1>13 DEF SetTitle
<1>14. CASE ShellEnds  BY <1>14 DEF ShellEnds
<1>15. CASE ReaderHangsUp  BY <1>15 DEF ReaderHangsUp
<1>16. CASE ReaderPanics  BY <1>16 DEF ReaderPanics
<1>17. CASE Draw  BY <1>17 DEF Draw
<1>18. CASE Input  BY <1>18 DEF Input
<1>19. CASE CloseWindow
  <2>1. Close  BY <1>19 DEF CloseWindow
  <2> QED  BY <1>19, <2>1, CloseTypes DEF CloseWindow, Close, Destroy
<1>20. CASE Terminate
  <2>1. Close  BY <1>20 DEF Terminate
  <2> QED  BY <1>20, <2>1, CloseTypes, ZenonT(60) DEF Terminate, Close, Destroy
<1>21. CASE PanicInCall  BY <1>21 DEF PanicInCall
<1>22. CASE Tick  BY <1>22 DEF Tick
<1>23. CASE UNCHANGED vars  BY <1>23 DEF vars
<1> QED
  BY <1>1, <1>2, <1>3, <1>4, <1>5, <1>6, <1>7, <1>8, <1>9, <1>10, <1>11, <1>12, <1>13, <1>14,
     <1>15, <1>16, <1>17, <1>18, <1>19, <1>20, <1>21, <1>22, <1>23 DEF Next, Main, Event
\* The handle follows the session, whoever ends it.
LEMMA OwnershipStep == Inv /\ [Next]_vars => Ownership'
<1> SUFFICES ASSUME Inv, [Next]_vars PROVE Ownership'
  OBVIOUS
<1> USE DEF Inv, Ownership, Calls, engineVars, errorVars, titleCall, viewVars
<1>1. CASE InitLogging  BY <1>1 DEF InitLogging, Error
<1>2. CASE CreateRefused  BY <1>2 DEF CreateRefused, NoShell, LastEngineError
<1>3. CASE CreateFails  BY <1>3 DEF CreateFails, NoShell, Error, LastEngineError
<1>4. CASE Create  BY <1>4 DEF Create
<1>5. CASE TitleLength  BY <1>5 DEF TitleLength, SetWindowTitle, Untitled
<1>6. CASE Title  BY <1>6 DEF Title, SetWindowTitle, Untitled
<1>7. CASE StatusRunning  BY <1>7 DEF StatusRunning
<1>8. CASE StatusClean  BY <1>8 DEF StatusClean, Destroy
<1>9. CASE StatusTrouble  BY <1>9 DEF StatusTrouble, LastEngineError
<1>10. CASE Frame  BY <1>10 DEF Frame
<1>11. CASE Send  BY <1>11 DEF Send
<1>12. CASE Caught
  <2>1. main = "unwinding" /\ UNCHANGED <<handle, session, freed>>  BY <1>12 DEF Caught
  <2>2. main' \in {"idle", "frame"}  BY <1>12 DEF TypeOK, Caught, SetWindowTitle
  <2> QED  BY <2>1, <2>2
<1>13. CASE SetTitle  BY <1>13 DEF SetTitle
<1>14. CASE ShellEnds  BY <1>14 DEF ShellEnds
<1>15. CASE ReaderHangsUp  BY <1>15 DEF ReaderHangsUp
<1>16. CASE ReaderPanics  BY <1>16 DEF ReaderPanics
<1>17. CASE Draw  BY <1>17 DEF Draw
<1>18. CASE Input  BY <1>18 DEF Input
<1>19. CASE CloseWindow  BY <1>19 DEF CloseWindow, Close, Destroy
<1>20. CASE Terminate  BY <1>20 DEF Terminate, Close, Destroy
<1>21. CASE PanicInCall  BY <1>21 DEF PanicInCall
<1>22. CASE Tick  BY <1>22 DEF Tick
<1>23. CASE UNCHANGED vars  BY <1>23 DEF vars
<1> QED
  BY <1>1, <1>2, <1>3, <1>4, <1>5, <1>6, <1>7, <1>8, <1>9, <1>10, <1>11, <1>12, <1>13,
     <1>14, <1>15, <1>16, <1>17, <1>18, <1>19, <1>20, <1>21, <1>22, <1>23 DEF Next, Main, Event

\* The hook always knows the last panic, and a text is made after its own.
LEMMA NotedStep == Inv /\ [Next]_vars => Noted'
<1> SUFFICES ASSUME Inv, [Next]_vars PROVE Noted'
  OBVIOUS
<1> USE DEF Inv, TypeOK, Noted, PlaceNotStale, engineVars, errorVars, titleCall, viewVars
<1>1. CASE InitLogging  BY <1>1 DEF InitLogging, Error
<1>2. CASE CreateRefused  BY <1>2 DEF CreateRefused, NoShell, LastEngineError
<1>3. CASE CreateFails  BY <1>3 DEF CreateFails, NoShell, Error, LastEngineError
<1>4. CASE Create  BY <1>4 DEF Create
<1>5. CASE TitleLength  BY <1>5 DEF TitleLength, SetWindowTitle, Untitled
<1>6. CASE Title  BY <1>6 DEF Title, SetWindowTitle, Untitled
<1>7. CASE StatusRunning  BY <1>7 DEF StatusRunning
<1>8. CASE StatusClean  BY <1>8 DEF StatusClean, Destroy
<1>9. CASE StatusTrouble  BY <1>9 DEF StatusTrouble, LastEngineError
<1>10. CASE Frame  BY <1>10 DEF Frame
<1>11. CASE Send  BY <1>11 DEF Send
<1>12. CASE Caught  BY <1>12 DEF Caught, SetWindowTitle, Untitled
<1>13. CASE SetTitle  BY <1>13 DEF SetTitle
<1>14. CASE ShellEnds  BY <1>14 DEF ShellEnds
<1>15. CASE ReaderHangsUp  BY <1>15 DEF ReaderHangsUp
<1>16. CASE ReaderPanics  BY <1>16 DEF ReaderPanics
<1>17. CASE Draw  BY <1>17 DEF Draw
<1>18. CASE Input  BY <1>18 DEF Input
<1>19. CASE CloseWindow  BY <1>19 DEF CloseWindow, Close, Destroy
<1>20. CASE Terminate  BY <1>20 DEF Terminate, Close, Destroy
<1>21. CASE PanicInCall  BY <1>21 DEF PanicInCall
<1>22. CASE Tick  BY <1>22 DEF Tick
<1>23. CASE UNCHANGED vars  BY <1>23 DEF vars
<1> QED
  BY <1>1, <1>2, <1>3, <1>4, <1>5, <1>6, <1>7, <1>8, <1>9, <1>10, <1>11, <1>12, <1>13,
     <1>14, <1>15, <1>16, <1>17, <1>18, <1>19, <1>20, <1>21, <1>22, <1>23 DEF Next, Main, Event

\* A suffix gets from the view to the window.
LEMMA PresentedStep == Inv /\ [Next]_vars => Presented'
<1> SUFFICES ASSUME Inv, [Next]_vars PROVE Presented'
  OBVIOUS
<1> USE DEF Inv, TypeOK, Ownership, Presented, TitleCalls, Calls, engineVars, errorVars, titleCall, viewVars
<1>1. CASE InitLogging  BY <1>1 DEF InitLogging, Error
<1>2. CASE CreateRefused  BY <1>2 DEF CreateRefused, NoShell, LastEngineError
<1>3. CASE CreateFails  BY <1>3 DEF CreateFails, NoShell, Error, LastEngineError
<1>4. CASE Create  BY <1>4 DEF Create
<1>5. CASE TitleLength  BY <1>5 DEF TitleLength, SetWindowTitle, Untitled
<1>6. CASE Title  BY <1>6 DEF Title, SetWindowTitle, Untitled
<1>7. CASE StatusRunning  BY <1>7 DEF StatusRunning
<1>8. CASE StatusClean  BY <1>8 DEF StatusClean, Destroy
<1>9. CASE StatusTrouble  BY <1>9 DEF StatusTrouble, LastEngineError
<1>10. CASE Frame  BY <1>10 DEF Frame
<1>11. CASE Send  BY <1>11 DEF Send
<1>12. CASE Caught
  <2>1. caught.call \in Calls  BY <1>12
  <2>2. main' \in {"idle", "frame"} /\ UNCHANGED <<ended, open, suffix, reader, title, asked, caught>>
    BY <1>12, <2>1 DEF Caught, SetWindowTitle
  <2>3. suffix # "none" => shown'.suffix = suffix
    <3>1. CASE caught.call \in TitleCalls
      <4>1. shown' = Untitled  BY <1>12, <2>1, <3>1 DEF Caught, SetWindowTitle
      <4> QED  BY <4>1 DEF Untitled
    <3>2. CASE caught.call \notin TitleCalls
      <4>1. shown' = shown  BY <1>12, <2>1, <3>2 DEF Caught
      <4>2. main = "unwinding"  BY <1>12 DEF Caught
      <4> QED  BY <3>2, <4>1, <4>2
    <3> QED  BY <3>1, <3>2
  <2> QED  BY <2>2, <2>3
<1>13. CASE SetTitle  BY <1>13 DEF SetTitle
<1>14. CASE ShellEnds  BY <1>14 DEF ShellEnds
<1>15. CASE ReaderHangsUp  BY <1>15 DEF ReaderHangsUp
<1>16. CASE ReaderPanics  BY <1>16 DEF ReaderPanics
<1>17. CASE Draw  BY <1>17 DEF Draw
<1>18. CASE Input  BY <1>18 DEF Input
<1>19. CASE CloseWindow  BY <1>19 DEF CloseWindow, Close, Destroy
<1>20. CASE Terminate  BY <1>20 DEF Terminate, Close, Destroy
<1>21. CASE PanicInCall  BY <1>21 DEF PanicInCall
<1>22. CASE Tick  BY <1>22 DEF Tick
<1>23. CASE UNCHANGED vars  BY <1>23 DEF vars
<1> QED
  BY <1>1, <1>2, <1>3, <1>4, <1>5, <1>6, <1>7, <1>8, <1>9, <1>10, <1>11, <1>12, <1>13,
     <1>14, <1>15, <1>16, <1>17, <1>18, <1>19, <1>20, <1>21, <1>22, <1>23 DEF Next, Main, Event

\* Nothing changes what the shell was started with, or why there is none.
LEMMA BegunStep == Inv /\ [Next]_vars => Begun'
<1> SUFFICES ASSUME Inv, [Next]_vars PROVE Begun'
  OBVIOUS
<1> USE DEF Inv, Ownership, Presented, Begun, Calls, engineVars, errorVars, titleCall, viewVars
<1>1. CASE InitLogging  BY <1>1 DEF InitLogging, Error
<1>2. CASE CreateRefused  BY <1>2 DEF CreateRefused, NoShell, LastEngineError
<1>3. CASE CreateFails  BY <1>3 DEF CreateFails, NoShell, Error, LastEngineError
<1>4. CASE Create  BY <1>4 DEF Create
<1>5. CASE TitleLength  BY <1>5 DEF TitleLength, SetWindowTitle, Untitled
<1>6. CASE Title  BY <1>6 DEF Title, SetWindowTitle, Untitled
<1>7. CASE StatusRunning  BY <1>7 DEF StatusRunning
<1>8. CASE StatusClean  BY <1>8 DEF StatusClean, Destroy
<1>9. CASE StatusTrouble  BY <1>9 DEF StatusTrouble, LastEngineError
<1>10. CASE Frame  BY <1>10 DEF Frame
<1>11. CASE Send  BY <1>11 DEF Send
<1>12. CASE Caught
  <2>1. UNCHANGED <<config, session, shell, child, suffix, overlay>>  BY <1>12 DEF Caught
  <2>2. main' \in {"idle", "frame"}  BY <1>12 DEF TypeOK, Caught, SetWindowTitle
  <2> QED  BY <2>1, <2>2
<1>13. CASE SetTitle  BY <1>13 DEF SetTitle
<1>14. CASE ShellEnds  BY <1>14 DEF ShellEnds
<1>15. CASE ReaderHangsUp  BY <1>15 DEF ReaderHangsUp
<1>16. CASE ReaderPanics  BY <1>16 DEF ReaderPanics
<1>17. CASE Draw  BY <1>17 DEF Draw
<1>18. CASE Input  BY <1>18 DEF Input
<1>19. CASE CloseWindow  BY <1>19 DEF CloseWindow, Close, Destroy
<1>20. CASE Terminate  BY <1>20 DEF Terminate, Close, Destroy
<1>21. CASE PanicInCall  BY <1>21 DEF PanicInCall
<1>22. CASE Tick  BY <1>22 DEF Tick
<1>23. CASE UNCHANGED vars  BY <1>23 DEF vars
<1> QED
  BY <1>1, <1>2, <1>3, <1>4, <1>5, <1>6, <1>7, <1>8, <1>9, <1>10, <1>11, <1>12, <1>13,
     <1>14, <1>15, <1>16, <1>17, <1>18, <1>19, <1>20, <1>21, <1>22, <1>23 DEF Next, Main, Event

-----------------------------------------------------------------------------
\* The invariant holds throughout.
LEMMA Invariant == Spec => []Inv
<1>1. Inv /\ [Next]_vars => Inv'
  BY TypeStep, OwnershipStep, NotedStep, PresentedStep, BegunStep DEF Inv
<1> QED  BY InvInit, <1>1, PTL DEF Spec

\* Boundary is well typed: glue::Session and lib.rs never leave the states named
\* there.
THEOREM TypeCorrect == Spec => []TypeOK
<1>1. Inv => TypeOK  BY DEF Inv
<1> QED  BY Invariant, <1>1, PTL

\* glue::Session makes its calls into a live session only and destroys it once,
\* whichever of the shell, the window and the application goes first.
THEOREM SessionOwnedOnce == Spec => []OwnedOnce
<1>1. Inv => OwnedOnce  BY DEF Inv, TypeOK, Ownership, OwnedOnce
<1> QED  BY Invariant, <1>1, PTL

\* A view that has stopped taking input shows why as soon as the redraw is over,
\* though the title is copied in two calls and either may panic.
THEOREM SuffixReachesTitle == Spec => []EndIsShown
<1>1. Inv => EndIsShown  BY DEF Inv, Presented, EndIsShown, TitleCalls
<1> QED  BY Invariant, <1>1, PTL

\* The place in an error text, which PANIC_LOCATION shares between threads, is
\* never that of an earlier panic.
THEOREM NoStalePlace == Spec => []PlaceNotStale
<1>1. Inv => PlaceNotStale  BY DEF Inv, Noted
<1> QED  BY Invariant, <1>1, PTL

\* A usable configuration is readable throughout, so what is made of it is.
LEMMA StartedWhole ==
    ASSUME config \in Configs, Usable(config), shell = Started(config, Inherited)
    PROVE  /\ \A i \in DOMAIN config.env : config.env[i].key \in DOMAIN shell.env \ {""}
           /\ \A name \in DOMAIN shell.env : shell.env[name] = Told(name)
           /\ {"TERM", "COLORTERM"} \subseteq DOMAIN shell.env
           /\ NullBytes \notin {shell.program, shell.cwd} \cup Range(shell.args)
           /\ shell.rows > 0 /\ shell.cols > 0
<1>1. /\ shell.program = config.program /\ shell.args = config.args
      /\ shell.rows = config.rows /\ shell.cols = config.cols
      /\ shell.cwd = WorkDir(config.cwd, Inherited)
      /\ shell.env = Environment(config.env, Inherited)
  BY DEF Started
<1>2. Given(shell.env)
  BY <1>1, EnvironmentTold, Zenon
<1>3. \A i \in DOMAIN config.env : config.env[i].key # ""
  BY Zenon DEF Usable, ReadableEnv, Range
<1>4. shell.rows > 0 /\ shell.cols > 0
  BY <1>1, Zenon DEF Usable
<1>5. /\ Readable(config.program) /\ Readable(config.cwd)
      /\ \A i \in DOMAIN config.args : Readable(config.args[i])
  BY Zenon DEF Usable, ReadableArgs
<1>6. \A buffer : Readable(buffer) => buffer # NullBytes
  BY Zenon DEF Readable
<1>7. shell.cwd # NullBytes
  <2>1. WorkDir(config.cwd, Inherited) \in {config.cwd, "/Users/me", "/"}
    BY Zenon DEF WorkDir, Inherited
  <2>2. "/Users/me" # NullBytes /\ "/" # NullBytes
    BY Zenon DEF NullBytes
  <2>. QED
    BY <1>1, <1>5, <1>6, <2>1, <2>2, Zenon
<1>8. NullBytes \notin Range(shell.args)
  BY <1>1, <1>5, <1>6, Zenon DEF Range
<1>9. NullBytes \notin {shell.program, shell.cwd} \cup Range(shell.args)
  BY <1>1, <1>5, <1>6, <1>7, <1>8, Zenon
<1>. QED
  BY <1>2, <1>3, <1>4, <1>9, Zenon DEF Given

\* terminal_create starts a shell with all it was asked for or none at all, each
\* variable as the last word has it; and when it could not, that is on screen.
THEOREM StartsWhole == Spec => []StartTold
<1>1. Inv => StartTold
  <2>. SUFFICES ASSUME Inv PROVE StartTold
    OBVIOUS
  <2>1. config \in Configs /\ Begun
    BY Zenon DEF Inv, TypeOK
  <2>. QED
    BY <2>1, StartedWhole, Zenon DEF Begun, StartTold
<1> QED  BY Invariant, <1>1, PTL
-----------------------------------------------------------------------------
(***************************************************************************)
(* FrameCopy.                                                              *)
(*                                                                         *)
(* A copy that fails twice was overtaken by output between its two calls.  *)
(* By then the first call had cleared the flag, so the output's mark found *)
(* an edge and a wake-up is posted (DirtyOwed, OvertakenOwed): the queue is *)
(* not served while the view draws, and the wake-up outlives the failure.  *)
(***************************************************************************)

\* Output and resizes are what there are versions of.
VersionBounded == screen.version <= MaxOutputs + resizes

RedrawOwed == needsDisplay \/ posted > 0

\* A set flag has a redraw coming, or is about to be cleared by one's first call.
DirtyOwed == dirty => RedrawOwed \/ (draw = "clearing" /\ attempt = 1)

\* The second call finds too little room only when there was output since the
\* first.
OvertakenOwed ==
    draw # "no" /\ attempt = 2 /\ ~ Fits(screen.need, caps) => RedrawOwed \/ thread = "marking"

CopyInv ==
    /\ CopyTypeOK /\ VersionBounded /\ BuffersWhole
    /\ DirtyOwed /\ OvertakenOwed /\ FailureIsRetried

\* Growing makes room, for what did not fit and for what did.
LEMMA GrownFits ==
    ASSUME NEW room \in Needs, NEW need \in Needs
    PROVE  /\ Grown(room, need) \in Needs
           /\ Fits(need, Grown(room, need))
           /\ \A other \in Needs : Fits(other, room) => Fits(other, Grown(room, need))
  BY FrameCopyAssumption DEF FrameCopyAssumption, Needs, Grown, Larger, Fits

\* All of it holds at first...
LEMMA CopyInvInit == CopyInit => CopyInv
<1> SUFFICES ASSUME CopyInit PROVE CopyInv
  OBVIOUS
<1> USE FrameCopyAssumption
    DEF CopyInit, FrameCopyAssumption, Nothing, NoFrame, Blank, Needs, MaxVersion
<1>1. CopyTypeOK
  <2>1. Nothing \in Needs /\ NoFrame \in {NoFrame}  OBVIOUS
  <2>2. screen \in [version : 0 .. MaxVersion, grid : Grids, need : Needs]
    BY <2>1 DEF Nothing
  <2>3. {info, contents} \subseteq
            [version : 0 .. MaxVersion, grid : Grids, need : Needs] \cup {NoFrame}
    BY Zenon
  <2>4. glass \in Blank .. MaxVersion /\ resizes \in 0 .. MaxResizes /\ posted \in Nat  OBVIOUS
  <2>5. caps \in Needs  BY <2>1
  <2>6. /\ thread = "idle" /\ draw = "no" /\ attempt = 1 /\ dirty \in BOOLEAN
        /\ needsDisplay \in BOOLEAN /\ bounds \in Grids
    OBVIOUS
  <2> HIDE DEF CopyInit, Needs, NoFrame
  <2> QED  BY <2>2, <2>3, <2>4, <2>5, <2>6 DEF CopyTypeOK
<1>2. VersionBounded  BY DEF VersionBounded
<1>3. BuffersWhole  BY DEF BuffersWhole, Fits
<1>4. DirtyOwed /\ OvertakenOwed /\ FailureIsRetried
  BY DEF DirtyOwed, OvertakenOwed, FailureIsRetried, RedrawOwed
<1> QED  BY <1>1, <1>2, <1>3, <1>4 DEF CopyInv

\* ... the types are kept, ...
LEMMA CopyTypeStep == CopyInv /\ [CopyNext]_copyVars => CopyTypeOK' /\ VersionBounded'
<1> SUFFICES ASSUME CopyInv, [CopyNext]_copyVars PROVE CopyTypeOK' /\ VersionBounded'
  OBVIOUS
<1> USE FrameCopyAssumption
    DEF FrameCopyAssumption, CopyInv, CopyTypeOK, VersionBounded, MaxVersion, Blank
<1>1. CASE Output
  <2>1. PICK need \in Needs : screen' = [screen EXCEPT !.version = @ + 1, !.need = need]
    BY <1>1 DEF Output
  <2>2. screen.version + 1 \in 0 .. MaxVersion  BY <1>1 DEF Output
  <2>3. screen' \in [version : 0 .. MaxVersion, grid : Grids, need : Needs]  BY <2>1, <2>2
  <2>4. screen'.version = screen.version + 1 /\ resizes' = resizes  BY <1>1, <2>1 DEF Output
  <2> QED  BY <1>1, <2>2, <2>3, <2>4 DEF Output
<1>2. CASE Mark  BY <1>2 DEF Mark
<1>3. CASE RunPosted  BY <1>3 DEF RunPosted
<1>4. CASE BoundsChange
  <2>1. PICK grid \in Grids : bounds' = grid /\ SyncTerminalSize(grid)  BY <1>4 DEF BoundsChange
  <2>2. CASE grid = info.grid  BY <1>4, <2>1, <2>2 DEF BoundsChange, SyncTerminalSize
  <2>3. CASE grid # info.grid  BY <1>4, <2>1, <2>3 DEF BoundsChange, SyncTerminalSize
  <2> QED  BY <2>2, <2>3
<1>5. CASE BeginDraw  BY <1>5 DEF BeginDraw
<1>6. CASE ClearDirty  BY <1>6 DEF ClearDirty
<1>7. CASE CopyFits  BY <1>7 DEF CopyFits
<1>8. CASE CopyTooSmall
  <2>1. screen.need \in Needs  OBVIOUS
  <2> QED  BY <1>8, <2>1, GrownFits DEF CopyTooSmall
<1>9. CASE CopyFails  BY <1>9 DEF CopyFails
<1>10. CASE UNCHANGED copyVars  BY <1>10 DEF copyVars
<1> QED
  BY <1>1, <1>2, <1>3, <1>4, <1>5, <1>6, <1>7, <1>8, <1>9, <1>10 DEF CopyNext, MainThread

\* ... the buffers stay whole, ...
LEMMA BuffersStep == CopyInv /\ [CopyNext]_copyVars => BuffersWhole'
<1> SUFFICES ASSUME CopyInv, [CopyNext]_copyVars PROVE BuffersWhole'
  OBVIOUS
<1> USE DEF CopyInv, BuffersWhole
<1>1. CASE CopyFits  BY <1>1 DEF CopyFits
<1>2. CASE CopyTooSmall
  <2>1. screen.need \in Needs /\ info.need \in Needs
    BY FrameCopyAssumption DEF FrameCopyAssumption, CopyTypeOK, NoFrame, Nothing, Needs
  <2>2. caps \in Needs  BY DEF CopyTypeOK
  <2> QED  BY <1>2, <2>1, <2>2, GrownFits DEF CopyTooSmall
<1>3. CASE UNCHANGED <<contents, info, caps>>  BY <1>3
<1> QED
  BY <1>1, <1>2, <1>3 DEF CopyNext, MainThread, Output, Mark, BoundsChange, RunPosted, BeginDraw,
                          ClearDirty, CopyFails, copyVars

\* ... and a redraw stays owed wherever one is needed.
LEMMA OwedStep ==
    CopyInv /\ [CopyNext]_copyVars => DirtyOwed' /\ OvertakenOwed' /\ FailureIsRetried'
<1> SUFFICES ASSUME CopyInv, [CopyNext]_copyVars
             PROVE  DirtyOwed' /\ OvertakenOwed' /\ FailureIsRetried'
  OBVIOUS
<1>0. posted \in Nat /\ draw \in {"no", "clearing", "copying"} /\ attempt \in {1, 2}
      /\ dirty \in BOOLEAN /\ needsDisplay \in BOOLEAN
  BY DEF CopyInv, CopyTypeOK
<1> USE <1>0 DEF CopyInv, DirtyOwed, OvertakenOwed, FailureIsRetried, RedrawOwed
<1>1. CASE Output  BY <1>1 DEF Output
<1>2. CASE Mark  BY <1>2 DEF Mark
<1>3. CASE RunPosted  BY <1>3 DEF RunPosted
<1>4. CASE BoundsChange
  <2>1. PICK grid \in Grids : SyncTerminalSize(grid)  BY <1>4 DEF BoundsChange
  <2>2. CASE grid = info.grid  BY <1>4, <2>1, <2>2 DEF BoundsChange, SyncTerminalSize
  <2>3. CASE grid # info.grid
    <3>1. needsDisplay' /\ UNCHANGED <<draw, attempt, thread>>
      BY <1>4, <2>1, <2>3 DEF BoundsChange, SyncTerminalSize
    <3> QED  BY <3>1
  <2> QED  BY <2>2, <2>3
<1>5. CASE BeginDraw  BY <1>5 DEF BeginDraw
<1>6. CASE ClearDirty  BY <1>6 DEF ClearDirty
<1>7. CASE CopyFits  BY <1>7 DEF CopyFits
<1>8. CASE CopyTooSmall
  <2>1. Fits(screen.need, caps)'
    <3>1. screen.need \in Needs /\ caps \in Needs  BY DEF CopyTypeOK
    <3>2. caps' = Grown(caps, screen.need) /\ screen' = screen  BY <1>8 DEF CopyTooSmall
    <3> QED  BY <3>1, <3>2, GrownFits
  <2> QED  BY <1>8, <2>1 DEF CopyTooSmall
<1>9. CASE CopyFails  BY <1>9 DEF CopyFails
<1>10. CASE UNCHANGED copyVars  BY <1>10 DEF copyVars
<1> QED
  BY <1>1, <1>2, <1>3, <1>4, <1>5, <1>6, <1>7, <1>8, <1>9, <1>10 DEF CopyNext, MainThread

\* The invariant holds throughout.
LEMMA CopyInvariant == CopySpec => []CopyInv
<1>1. CopyInv /\ [CopyNext]_copyVars => CopyInv'
  BY CopyTypeStep, BuffersStep, OwedStep DEF CopyInv
<1> QED  BY CopyInvInit, <1>1, PTL DEF CopySpec

\* FrameCopy is well typed: the buffers never ask for more than a frame can need.
THEOREM CopyTypeCorrect == CopySpec => []CopyTypeOK
<1>1. CopyInv => CopyTypeOK  BY DEF CopyInv
<1> QED  BY CopyInvariant, <1>1, PTL

\* FrameBuffers::info describes the bytes that are in the buffers, and they fit,
\* after any sequence of copies that succeed, grow or fail.
THEOREM BuffersAlwaysWhole == CopySpec => []BuffersWhole
<1>1. CopyInv => BuffersWhole  BY DEF CopyInv
<1> QED  BY CopyInvariant, <1>1, PTL

\* An empty window after a copy that failed twice has its redraw on the way.
THEOREM FailuresRetried == CopySpec => []FailureIsRetried
<1>1. CopyInv => FailureIsRetried  BY DEF CopyInv
<1> QED  BY CopyInvariant, <1>1, PTL
=============================================================================

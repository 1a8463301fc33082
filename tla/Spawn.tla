-------------------------------- MODULE Spawn --------------------------------
(***************************************************************************)
(* What terminal_create makes of a configuration (terminal-ffi/src/lib.rs) *)
(* and what Pty::spawn_with gives the shell (terminal-pty/src/pty.rs): the *)
(* checks at the C boundary, then the environment and the directory.       *)
(*                                                                         *)
(* A byte buffer is its text, or one of two that are refused: no pointer   *)
(* with a length, and bytes that are not UTF-8.  `nulls` names the arrays  *)
(* that have a length and no pointer.                                      *)
(***************************************************************************)
EXTENDS Sequences, SequencesExt

NullBytes == "no pointer"
NotUtf8 == "not utf-8"

\* as_slice, then from_utf8.
Readable(buffer) == buffer \notin {NullBytes, NotUtf8}

ReadableArgs(config) ==
    "args" \notin config.nulls /\ \A i \in DOMAIN config.args : Readable(config.args[i])

ReadableEnv(config) ==
    /\ "env" \notin config.nulls
    /\ \A pair \in Range(config.env) :
          Readable(pair.key) /\ Readable(pair.value) /\ pair.key # ""

\* Everything is looked at before anything is started.
Usable(config) ==
    /\ config.rows > 0 /\ config.cols > 0
    /\ Readable(config.program) /\ ReadableArgs(config)
    /\ Readable(config.cwd) /\ ReadableEnv(config)

-----------------------------------------------------------------------------

\* How an app bundle is started: in "/", with little in its environment.
Inherited == [name \in {"HOME", "PATH"} |-> IF name = "HOME" THEN "/Users/me" ELSE "/usr/bin"]

DefaultTerm == "xterm-256color"
DefaultColorTerm == "truecolor"

\* An empty cwd means home; without a HOME it stays where the app is.
WorkDir(cwd, inherited) ==
    CASE cwd # ""                                   -> cwd
      [] cwd = "" /\ "HOME" \in DOMAIN inherited    -> inherited["HOME"]
      [] cwd = "" /\ "HOME" \notin DOMAIN inherited -> "/"

\* One variable set, over any it had of that name.
With(vars, name, value) ==
    [n \in DOMAIN vars \cup {name} |-> IF n = name THEN value ELSE vars[n]]

\* What the engine sets itself.
EngineVars(inherited) == With(With(inherited, "TERM", DefaultTerm), "COLORTERM", DefaultColorTerm)

\* Mutant: the engine's own values are set last.
Environment_DefaultsLast(env, inherited) ==
    EngineVars(FoldLeft(LAMBDA vars, pair : With(vars, pair.key, pair.value), inherited, env))

\* The engine's own values over the inherited ones, and the caller's over both,
\* one after the other.
Environment(env, inherited) ==
    FoldLeft(LAMBDA vars, pair : With(vars, pair.key, pair.value), EngineVars(inherited), env)

Started(config, inherited) ==
    [program |-> config.program, args |-> config.args, rows |-> config.rows, cols |-> config.cols,
     cwd |-> WorkDir(config.cwd, inherited), env |-> Environment(config.env, inherited)]
=============================================================================

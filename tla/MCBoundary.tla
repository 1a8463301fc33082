----------------------------- MODULE MCBoundary -----------------------------
(* Configurations for the Boundary run: a plain one, and what differs from it *)
(* in one thing.                                                              *)
EXTENDS Boundary

Plain == [rows |-> 1, cols |-> 1, program |-> "zsh", args |-> <<"-l">>, cwd |-> "", env |-> <<>>,
          nulls |-> {}]
Pair(key, value) == [key |-> key, value |-> value]

MCConfigs ==
    {Plain,
     [Plain EXCEPT !.cwd = "/tmp"],
     [Plain EXCEPT !.env = <<Pair("TERM", "dumb"), Pair("LANG", "C"), Pair("TERM", "vt100")>>],
     [Plain EXCEPT !.env = <<Pair("PATH", ""), Pair("HOME", "/")>>],
     [Plain EXCEPT !.rows = 0],
     [Plain EXCEPT !.program = NotUtf8],
     [Plain EXCEPT !.nulls = {"args"}],
     [Plain EXCEPT !.args = <<"-l", NullBytes>>],
     [Plain EXCEPT !.cwd = NotUtf8],
     [Plain EXCEPT !.nulls = {"env"}],
     [Plain EXCEPT !.env = <<Pair("LANG", "C"), Pair("", "x")>>],
     [Plain EXCEPT !.env = <<Pair("LANG", NotUtf8)>>]}
=============================================================================

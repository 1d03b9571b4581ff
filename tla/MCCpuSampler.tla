---------------------------- MODULE MCCpuSampler ----------------------------
(* Small instances of CpuSampler for TLC: two processes of one name, which   *)
(* the ignore list has in lower case and which cannot always be read for     *)
(* the first of them, or one process.                                        *)
EXTENDS CpuSampler

MCPids  == {"p1", "p2"}
MCNames == {"Python", "python", "pid 1"}
Python  == {"Python"}
BothPython == [p1 |-> {"Python", "pid 1"}, p2 |-> {"Python"}]
LowerCase == [n \in Names |-> IF n = "Python" THEN "python" ELSE n]

OneProcess == {"p1"}
OneName == {"ffmpeg"}
Ffmpeg == [p1 |-> {"ffmpeg"}]
=============================================================================

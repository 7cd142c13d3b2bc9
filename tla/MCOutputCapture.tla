--------------------------- MODULE MCOutputCapture ---------------------------
(* Two workers; two levels, 1 below and 2 at the level of the root logger. *)
EXTENDS OutputCapture

CONSTANTS i1, i2, i3, w1, w2

Prints == [kind |-> "print"]

Sets(l) == [kind |-> "set", level |-> l]

Logs(g, l) == [kind |-> "log", logger |-> g, level |-> l]

Script(s, c, t) ==
  [p \in Phases |-> CASE p = "setup" -> s [] p = "call" -> c [] p = "teardown" -> t]

(* One that prints in every phase and logs, one whose level hides what the *)
(* first logs, one whose level hides nothing.                              *)
MCScripts == {
  Script(<<Prints>>, <<Logs("root", 1), Logs("child", 1)>>, <<Prints>>),
  Script(<<>>, <<Sets(2), Logs("root", 1), Logs("child", 2)>>, <<Logs("child", 1)>>),
  Script(<<>>, <<Sets(1), Logs("root", 2), Prints>>, <<>>)}

(* Workers and items differ in nothing but their names.                    *)
MCSymmetry == Permutations({w1, w2}) \cup Permutations({i1, i2, i3})
==============================================================================

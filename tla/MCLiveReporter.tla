--------------------------- MODULE MCLiveReporter ---------------------------
(* Three tests of two files: a1 and a2 of one, b1 of the other.            *)
EXTENDS LiveReporter

CONSTANTS a1, a2, b1, fa, fb

MCItems == {a1, a2, b1}

MCFiles == <<fa, fb>>

MCFile == [i \in MCItems |-> IF i = b1 THEN fb ELSE fa]

O(c, r) == [call |-> c, report |-> r]

(* All of them: pass, failure, skip and xfail in the body, xpass, strict   *)
(* xpass, an unexpected exception in the worker, a setup that fails or     *)
(* skips.                                                                  *)
MCAllOutcomes == {O(".", "."), O("F", "F"), O("F", "s"), O("F", "x"), O(".", "X"),
                  O(".", "F"), O(".", "E"), O("none", "E"), O("none", "s")}

(* Those that differ in what the terminal does.                            *)
MCFewOutcomes == {O(".", "."), O("F", "s"), O("none", "E")}
=============================================================================

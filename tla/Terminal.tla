------------------------------ MODULE Terminal ------------------------------
(* What the panes of the live view share: the terminal they are drawn on.  *)
EXTENDS Integers, FiniteSets

CONSTANTS Height,       \* rows of the terminal
          None

ASSUME TerminalAssumption == Height \in Nat \ (0 .. 3) /\ None \notin Int

(* The numbers of a finite set, the least first.                           *)
Ascending(S) == [k \in 1 .. Cardinality(S) |->
                   CHOOSE n \in S : Cardinality({m \in S : m <= n}) = k]
=============================================================================

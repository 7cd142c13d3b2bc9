------------------------------ MODULE MCRunAll ------------------------------
(* Values of the constants of RunAll for TLC: a session S with a package P *)
(* of two modules A and B; class CA is in A, CB1 and CB2 are in B.         *)
EXTENDS RunAll, TLC

CONSTANTS z0, a1, a2, c1, c2, b1, b2, d1, e1, z1,  \* items
          S, P, A, B, CA, CB1, CB2,                    \* nodes
          fs, fA, fB, fclass, ff                \* fixtures

MCNodes == {S, P, A, B, CA, CB1, CB2}
MCFixtures == {fs, fA, fB, fclass, ff}

MCKind == S :> "session" @@ P :> "package" @@ A :> "module" @@ B :> "module"
            @@ CA :> "class" @@ CB1 :> "class" @@ CB2 :> "class"

(* fA and fB belong to one module; fclass is a class-scoped fixture that   *)
(* every class uses.                                                       *)
MCScope == fs :> "session" @@ fA :> "module" @@ fB :> "module"
             @@ fclass :> "class" @@ ff :> "function"

InA == {z0, a1, a2}
InB == {b1, b2, z1}
ModuleOf(i) == IF i \in InA \cup {c1, c2} THEN A ELSE B
ChainOf(i) == CASE i \in InA -> <<S, P, A>>
                [] i \in {c1, c2} -> <<S, P, A, CA>>
                [] i \in InB -> <<S, P, B>>
                [] i = d1 -> <<S, P, B, CB1>>
                [] i = e1 -> <<S, P, B, CB2>>

ItemsOf(gs) == UNION {Range(gs[g]) : g \in DOMAIN gs}

(* A parallel group of the package between sequential groups, in which   *)
(* the tests of a module use the same shared fixtures.                     *)
UniformGroups == << <<z0>>, <<a1, a2, b1, b2>>, <<z1, d1>> >>
UniformItems == ItemsOf(UniformGroups)
UniformNames == [i \in UniformItems |-> IF i \in InA THEN <<fs, fA, ff>>
                                        ELSE <<fs, fB, ff>>]
UniformChain == [i \in UniformItems |-> ChainOf(i)]
UniformModule == [i \in UniformItems |-> ModuleOf(i)]

(* One module; only the first test does without the module fixture.        *)
LateGroups == << <<a1, a2, z0>> >>
LateItems == ItemsOf(LateGroups)
LateNames == [i \in LateItems |-> IF i = a1 THEN <<fs>> ELSE <<fs, fA>>]
LateChain == [i \in LateItems |-> ChainOf(i)]
LateModule == [i \in LateItems |-> ModuleOf(i)]

(* The same with a second module behind it (AddFinalizerPasses).           *)
CrossGroups == << <<a1, a2, b1>> >>
CrossItems == ItemsOf(CrossGroups)
CrossNames == [i \in CrossItems |-> IF i = a2 THEN <<fs, fA>> ELSE <<fs>>]
CrossChain == [i \in CrossItems |-> ChainOf(i)]
CrossModule == [i \in CrossItems |-> ModuleOf(i)]

(* Two classes of one module in a group of the package.                    *)
ClassGroups == << <<d1, e1>> >>
ClassItems == ItemsOf(ClassGroups)
ClassNames == [i \in ClassItems |-> <<fs, fclass>>]
ClassChain == [i \in ClassItems |-> ChainOf(i)]
ClassModule == [i \in ClassItems |-> ModuleOf(i)]

(* A class of A with fixtures of its module and class, then module B       *)
(* (InsideOut).                                                            *)
NestedGroups == << <<c1, c2, b1>>, <<z1>> >>
NestedItems == ItemsOf(NestedGroups)
NestedNames == [i \in NestedItems |-> IF i \in InB THEN <<fs, fB>>
                                      ELSE <<fs, fA, fclass>>]
NestedChain == [i \in NestedItems |-> ChainOf(i)]
NestedModule == [i \in NestedItems |-> ModuleOf(i)]

(* The same with nothing behind it (AllReleased, with "teardown").         *)
LastGroups == << <<c1, c2, b1>> >>
LastItems == ItemsOf(LastGroups)
LastNames == [i \in LastItems |-> IF i = b1 THEN <<fs, fB>>
                                  ELSE <<fs, fA, fclass>>]
LastChain == [i \in LastItems |-> ChainOf(i)]
LastModule == [i \in LastItems |-> ModuleOf(i)]

(* Tests without a key, a group of two modules, tests without a key        *)
(* (also MaxfailStops).                                                    *)
FailGroups == << <<z0, a1>>, <<a2, b1>>, <<b2, z1>> >>
FailItems == ItemsOf(FailGroups)
FailNames == [i \in FailItems |-> IF i \in InA THEN <<fs, fA>> ELSE <<fs, fB>>]
FailChain == [i \in FailItems |-> ChainOf(i)]
FailModule == [i \in FailItems |-> ModuleOf(i)]

Middle == {2}
First == {1}

(* The conditions on the collection are met by the session of              *)
(* UniformGroups; tests of one module that ask for different shared        *)
(* fixtures do not meet the first.                                         *)
ASSUME ConditionsMet ==
  /\ groups = UniformGroups =>
       UniformModules /\ KeptTogether /\ RaisesFirst /\ QuietTeardown
  /\ groups \in {LateGroups, CrossGroups} => ~ UniformModules
=============================================================================

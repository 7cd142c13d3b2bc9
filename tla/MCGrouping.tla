----------------------------- MODULE MCGrouping -----------------------------
(* Values of the constants of Grouping for TLC: modules M1 and M2 of a     *)
(* package P, M3 of a package Q below P and M4 of a package R beside it,   *)
(* and a class K in M3.                                                    *)
EXTENDS Grouping, TLC

CONSTANTS p1, p2, p3,      \* tests of P's modules
          q1, q2, q3, k1, k2,  \* tests of Q's module, the last two of its class
          r1, r2,          \* tests of R's module
          n1,              \* a test of Q's module that opts out
          v1, v2,          \* variants of two tests of one name in M1 and M2
          K, M1, M2, M3, M4, P, Q, R

MCItems == {p1, p2, p3, q1, q2, q3, k1, k2, r1, r2, n1, v1, v2}
MCClasses == {K}
MCModules == {M1, M2, M3, M4}
MCPackages == {P, Q, R}
MCPath == M1 :> <<P>> @@ M2 :> <<P>> @@ M3 :> <<Q, P>> @@ M4 :> <<R>>

MCCls == [i \in MCItems |-> IF i \in {k1, k2} THEN K ELSE None]

MCModule == [i \in MCItems |-> CASE i \in {q1, q2, q3, k1, k2, n1} -> M3
                                [] i \in {r1, r2} -> M4
                                [] i \in {p3, v2} -> M2
                                [] OTHER -> M1]

MCName == [i \in MCItems |-> IF i \in {v1, v2} THEN "test_v" ELSE "test"]

(* x is the param of a parametrize marker, db that of a module-scoped      *)
(* fixture.                                                                *)
X(v) == [arg |-> "x", value |-> v, parametrize |-> TRUE, wide |-> FALSE]
Db(v) == [arg |-> "db", value |-> v, parametrize |-> FALSE, wide |-> TRUE]
MCParams == [i \in MCItems |-> CASE i = v1 -> {X(1)}
                                [] i = v2 -> {X(2)}
                                [] i = q2 -> {X(1), Db(1)}
                                [] i = q3 -> {X(1), Db(2)}
                                [] i = k1 -> {Db(1)}
                                [] i = k2 -> {Db(2)}
                                [] OTHER -> {}]

(* What `given' does not mark is unmarked.                                 *)
Marking(given) == given @@ [x \in Marked |-> <<>>]

Given(markings, orders) == [marks : {Marking(w) : w \in markings}, items : orders]

(* Every level is marked in every way: a test without params and two that  *)
(* differ in a wide param, and two such tests of a class.                  *)
Lists == {<<>>, <<"not">>, <<"children">>, <<"parameters">>, <<"bare">>}
OddLists == Lists \cup {<<"bad">>, <<"all", "not">>}
KeyInputs ==
  Given({q1 :> o @@ q2 :> o @@ q3 :> o @@ M3 :> m @@ Q :> q @@ P :> p :
         o, q \in OddLists, m, p \in Lists}, {<<q1>>, <<q2, q3>>})
  \cup
  Given({k1 :> o @@ k2 :> o @@ K :> c @@ M3 :> m @@ Q :> q @@ P :> p :
         o \in OddLists, c, m, q, p \in Lists}, {<<k1, k2>>})

(* Packages P and Q run their children in parallel, one test opts out and  *)
(* one runs its variants in parallel: collected in any order.              *)
MergeInputs == Given({P :> <<"children">> @@ Q :> <<"children">> @@ n1 :> <<"not">>
                        @@ v1 :> <<"parameters">>},
                     SetToSeqs({p1, p2, p3, q1, q2, n1})
                       \cup SetToSeqs({p1, p2, q1, q2, n1, v1}))

(* pytest P/test_1.py R/test_1.py P/test_2.py R/test_2.py                  *)
CrossInputs == Given({P :> <<"children">> @@ R :> <<"children">>},
                     {<<p1, r1, p3, r2>>})

(* Two parametrized tests of the same name in neighbouring modules.        *)
VariantInputs == Given({P :> <<"parameters">>}, {<<v1, v2>>})

MCInputs == KeyInputs \cup MergeInputs \cup CrossInputs \cup VariantInputs
=============================================================================

------------------------------ MODULE Grouping ------------------------------
(***************************************************************************)
(* Which tests run together: MarkerResolver reads the markers of an item   *)
(* and of its class, module and packages, GroupKeyBuilder.group_key turns  *)
(* them into a key, build_groups cuts the collected items where the key    *)
(* changes, and _merge_package_groups joins what belongs to one package.   *)
(*                                                                         *)
(* The order of the items is any that pytest can hand over: the order of   *)
(* the command line or that of a plugin that reorders them.                *)
(***************************************************************************)
EXTENDS Naturals, Sequences, FiniteSets, SequencesExt

CONSTANTS Items, Classes, Modules, Packages,
          cls,           \* [Items -> Classes \cup {None}]
          module,        \* [Items -> Modules]
          packages,      \* [Modules -> Seq(Packages)], most specific first
          originalname,  \* [Items -> names of test functions]
          params,        \* [Items -> SUBSET Params]: callspec.params
          Inputs,        \* what pytest may hand over: the marks of all
                         \* objects and the items in their order
          None

Marked == Items \cup Classes \cup Modules \cup Packages

(* Marks as scope_from_marks tells them apart: @parallelizable with one of *)
(* the scopes, without an argument ("bare"), with an unknown scope ("bad") *)
(* and @not_parallelizable.                                                *)
PARALLEL_SCOPES == {"children", "parameters", "all"}
Marks == PARALLEL_SCOPES \cup {"bare", "bad", "not"}

(* A param of a callspec: its argument and value, whether it comes from a  *)
(* parametrize marker, and whether it is wider than one test.              *)
Params == [arg : STRING, value : Nat, parametrize : BOOLEAN, wide : BOOLEAN]

ASSUME GroupingAssumption ==
  /\ cls \in [Items -> Classes \cup {None}]
  /\ module \in [Items -> Modules]
  /\ \A m \in Modules : packages[m] \in Seq(Packages)
  /\ \A i \in Items : \A p \in params[i] : p \in Params
  /\ \A x, y \in Items : cls[x] = cls[y] /\ cls[x] # None => module[x] = module[y]
  /\ \A in \in Inputs : /\ \A x \in Marked : in.marks[x] \in Seq(Marks)
                       /\ in.items \in Seq(Items) /\ IsInjective(in.items)
  /\ None \notin Items \cup Classes \cup Packages \cup Marks

VARIABLES marks,     \* what every object is marked with
          items,     \* session.items
          pc, idx,   \* the place in build_groups and the loop index
          groups,    \* the (key, items) pairs that build_groups appends
          merged, consumed,
          j, parallel_items, deferred  \* the inner loop of the merge

inner == <<j, parallel_items, deferred>>
vars == <<marks, items, pc, idx, groups, merged, consumed, inner>>

-----------------------------------------------------------------------------
(* MarkerResolver.                                                         *)

(* The first @parallelizable decides, an unknown scope like no marker.     *)
scope_from_marks(ms) ==
  LET found == {k \in DOMAIN ms : ms[k] # "not"}
      m == ms[Min(found)]
  IN  CASE found # {} /\ m \in PARALLEL_SCOPES -> m
        [] found # {} /\ m = "bare" -> "all"
        [] OTHER -> None

has_not_marker(ms) == "not" \in Range(ms)

level_scope(ms) == IF has_not_marker(ms) THEN "not" ELSE scope_from_marks(ms)

own_scope(i) == level_scope(marks[i])

class_scope(i) == IF cls[i] = None THEN None ELSE level_scope(marks[cls[i]])

module_scope(i) == level_scope(marks[module[i]])

(* The walk up the packages stops at the first one that tells something.   *)
FirstPackage(i, telling) ==
  LET walk == packages[module[i]]
      places == {k \in DOMAIN walk : walk[k] \in telling}
  IN  IF places = {} THEN None ELSE walk[Min(places)]

package_scope(i) ==
  LET pkg == FirstPackage(i, {p \in Packages : level_scope(marks[p]) # None})
  IN  IF pkg = None THEN None ELSE level_scope(marks[pkg])

marker_source_package(i) ==
  FirstPackage(i, {p \in Packages : scope_from_marks(marks[p]) # None})

fixture_param_key(i) ==
  {<<p.arg, p.value>> : p \in {q \in params[i] : ~q.parametrize /\ q.wide}}

-----------------------------------------------------------------------------
(* GroupKeyBuilder.group_key.                                              *)

ForcedSequential(i) == own_scope(i) = "not" \/ class_scope(i) = "not"

(* Mutant: the class is asked before the item itself.                      *)
ClassFirst(i) ==
  CASE class_scope(i) # None -> <<"class", class_scope(i)>>
    [] class_scope(i) = None /\ own_scope(i) # None -> <<"own", own_scope(i)>>
    [] /\ own_scope(i) = None /\ class_scope(i) = None
       /\ module_scope(i) \notin {None, "not"} -> <<"module", module_scope(i)>>
    [] OTHER -> <<"package", package_scope(i)>>

(* The level whose marker determines the behaviour, and its scope.         *)
Deciding(i) ==
  CASE own_scope(i) # None -> <<"own", own_scope(i)>>
    [] own_scope(i) = None /\ class_scope(i) # None -> <<"class", class_scope(i)>>
    [] /\ own_scope(i) = None /\ class_scope(i) = None
       /\ module_scope(i) \notin {None, "not"} -> <<"module", module_scope(i)>>
    [] OTHER -> <<"package", package_scope(i)>>

child_parallel(i) == LET d == Deciding(i)
                     IN  \/ d[2] = "all"
                         \/ d[2] = "children" /\ d[1] # "own"

param_parallel(i) == Deciding(i)[2] \in {"parameters", "all"}

is_package_level(i) == Deciding(i)[1] = "package"

PackageKey(i) ==
  <<"pkg_children", IF marker_source_package(i) # None THEN marker_source_package(i)
                    ELSE Head(packages[module[i]])>>

(* Mutant: fixture params are left out of the key.                         *)
WithoutParams(key, i) == key

WithParams(key, i) == IF fixture_param_key(i) = {} THEN key
                      ELSE Append(key, fixture_param_key(i))

ClassKey(i) == WithParams(<<"class", cls[i]>>, i)

ParamsKey(i) == WithParams(<<"params", cls[i], originalname[i]>>, i)

ChildKey(i) == CASE is_package_level(i) -> PackageKey(i)
                 [] ~is_package_level(i) /\ cls[i] # None -> ClassKey(i)
                 [] OTHER -> <<"mod_children", module[i]>>

group_key(i) ==
  CASE ForcedSequential(i) -> None
    [] ~ForcedSequential(i) /\ child_parallel(i) -> ChildKey(i)
    [] /\ ~ForcedSequential(i) /\ ~child_parallel(i)
       /\ param_parallel(i) /\ params[i] # {} -> ParamsKey(i)
    [] OTHER -> None

Keys == {<<"pkg_children", p>> : p \in Packages}
          \cup {<<"mod_children", m>> : m \in Modules}
          \cup {ClassKey(i) : i \in Items} \cup {ParamsKey(i) : i \in Items}

ASSUME KeysAssumption == None \notin Keys

Groups == [key : Keys \cup {None}, items : Seq(Items)]

-----------------------------------------------------------------------------
(* GroupKeyBuilder.build_groups: one step per item.                        *)

Init ==
  /\ \E in \in Inputs : marks = in.marks /\ items = in.items
  /\ pc = "build" /\ idx = 1
  /\ groups = <<>>
  /\ merged = <<>> /\ consumed = {}
  /\ j = 1 /\ parallel_items = <<>> /\ deferred = <<>>

(* Mutant: keys are told apart by their prefix only.                       *)
PrefixChanges(key) ==
  \/ groups = <<>>
  \/ /\ groups # <<>>
     /\ \/ (key = None) # (Last(groups).key = None)
        \/ /\ key # None /\ Last(groups).key # None
           /\ key[1] # Last(groups).key[1]

KeyChanges(key) == \/ groups = <<>>
                   \/ groups # <<>> /\ key # Last(groups).key

(* Mutant: the first item is not added to its new group.                   *)
NewGroupEmpty ==
  /\ pc = "build" /\ idx <= Len(items)
  /\ LET key == group_key(items[idx])
     IN  /\ KeyChanges(key)
         /\ groups' = Append(groups, [key |-> key, items |-> <<>>])
  /\ idx' = idx + 1
  /\ UNCHANGED <<marks, items, pc, merged, consumed, inner>>

NewGroup ==
  /\ pc = "build" /\ idx <= Len(items)
  /\ LET key == group_key(items[idx])
     IN  /\ KeyChanges(key)
         /\ groups' = Append(groups, [key |-> key, items |-> <<items[idx]>>])
  /\ idx' = idx + 1
  /\ UNCHANGED <<marks, items, pc, merged, consumed, inner>>

SameGroup ==
  /\ pc = "build" /\ idx <= Len(items)
  /\ ~KeyChanges(group_key(items[idx]))
  /\ groups' = [groups EXCEPT ![Len(groups)].items = Append(@, items[idx])]
  /\ idx' = idx + 1
  /\ UNCHANGED <<marks, items, pc, merged, consumed, inner>>

-----------------------------------------------------------------------------
(* GroupKeyBuilder._merge_package_groups: one step per group, and one per  *)
(* group from the first to the last fragment of a package.                 *)

IsPackageKey(key) == key # None /\ key[1] = "pkg_children"

pkg_indices(key) == {g \in DOMAIN groups : groups[g].key = key}

(* Mutant: a package in two fragments is not merged.                       *)
FragmentedThrice == {groups[g].key : g \in {h \in DOMAIN groups :
                       /\ IsPackageKey(groups[h].key)
                       /\ Cardinality(pkg_indices(groups[h].key)) > 2}}

fragmented == {groups[g].key : g \in {h \in DOMAIN groups :
                 /\ IsPackageKey(groups[h].key)
                 /\ Cardinality(pkg_indices(groups[h].key)) > 1}}

StartMerge ==
  /\ pc = "build" /\ idx > Len(items)
  /\ IF fragmented = {}
     THEN merged' = groups /\ pc' = "done"
     ELSE merged' = merged /\ pc' = "merge"
  /\ idx' = 1
  /\ UNCHANGED <<marks, items, groups, consumed, inner>>

(* indices[0] and indices[-1].                                             *)
First(key) == Min(pkg_indices(key))
Final(key) == Max(pkg_indices(key))

Advance == /\ idx' = idx + 1 /\ pc' = "merge"
           /\ parallel_items' = <<>> /\ deferred' = <<>>
           /\ UNCHANGED <<marks, items, groups, j>>

SkipConsumed ==
  /\ pc = "merge" /\ idx \in DOMAIN groups /\ idx \in consumed
  /\ Advance /\ UNCHANGED <<merged, consumed>>

KeepGroup ==
  /\ pc = "merge" /\ idx \in DOMAIN groups /\ idx \notin consumed
  /\ groups[idx].key \notin fragmented
  /\ merged' = Append(merged, groups[idx])
  /\ Advance /\ UNCHANGED consumed

(* All fragments of the package become one group ...                       *)
StartJoin ==
  /\ pc = "merge" /\ idx \in DOMAIN groups /\ idx \notin consumed
  /\ groups[idx].key \in fragmented
  /\ pc' = "join" /\ j' = First(groups[idx].key)
  /\ parallel_items' = <<>> /\ deferred' = <<>>
  /\ UNCHANGED <<marks, items, idx, groups, merged, consumed>>

Consume == /\ pc = "join" /\ j <= Final(groups[idx].key)
           /\ consumed' = consumed \cup {j} /\ j' = j + 1
           /\ UNCHANGED <<marks, items, pc, idx, groups, merged>>

TakeFragment ==
  /\ Consume /\ groups[j].key = groups[idx].key
  /\ parallel_items' = parallel_items \o groups[j].items
  /\ UNCHANGED deferred

(* Mutant: what is between the fragments is put in front of one another.   *)
DeferBackwards ==
  /\ Consume /\ groups[j].key # groups[idx].key
  /\ deferred' = <<groups[j]>> \o deferred
  /\ UNCHANGED parallel_items

Defer ==
  /\ Consume /\ groups[j].key # groups[idx].key
  /\ deferred' = Append(deferred, groups[j])
  /\ UNCHANGED parallel_items

(* ... and whatever is between them is put behind it.                      *)
EndJoin ==
  /\ pc = "join" /\ j > Final(groups[idx].key)
  /\ merged' = Append(merged, [key |-> groups[idx].key, items |-> parallel_items])
                  \o deferred
  /\ Advance /\ UNCHANGED consumed

MergeDone ==
  /\ pc = "merge" /\ idx > Len(groups)
  /\ pc' = "done"
  /\ UNCHANGED <<marks, items, idx, groups, merged, consumed, inner>>

Returned == pc = "done" /\ UNCHANGED vars

Next == \/ NewGroup \/ SameGroup \/ StartMerge
        \/ SkipConsumed \/ KeepGroup
        \/ StartJoin \/ TakeFragment \/ Defer \/ EndJoin \/ MergeDone
        \/ Returned

Spec == Init /\ [][Next]_vars

-----------------------------------------------------------------------------
(* Type invariant.                                                         *)

(* Every group has items of the session; indices stay in range.            *)
TypeInv ==
  /\ \A x \in Marked : marks[x] \in Seq(Marks)
  /\ items \in Seq(Items) /\ IsInjective(items)
  /\ pc \in {"build", "merge", "join", "done"}
  /\ idx \in 1 .. ((IF pc = "build" THEN Len(items) ELSE Len(groups)) + 1)
  /\ pc = "join" => idx \in DOMAIN groups /\ j \in 1 .. (Len(groups) + 1)
  /\ \A gs \in {groups, merged, deferred} :
       /\ gs \in Seq(Groups)
       /\ \A g \in DOMAIN gs :
            gs[g].items # <<>> /\ Range(gs[g].items) \subseteq Range(items)
  /\ Range(parallel_items) \subseteq Range(items)
  /\ consumed \subseteq DOMAIN groups

-----------------------------------------------------------------------------
(* Properties of the keys.                                                 *)

(* What an item is marked with, the nearest object first.                  *)
Levels(i) == <<marks[i]>>
               \o (IF cls[i] = None THEN <<>> ELSE <<marks[cls[i]]>>)
               \o <<marks[module[i]]>>
               \o [k \in DOMAIN packages[module[i]] |-> marks[packages[module[i]][k]]]

Speaks(ms) == level_scope(ms) # None

NearestSpeaking(i) == CHOOSE k \in DOMAIN Levels(i) :
                        /\ Speaks(Levels(i)[k])
                        /\ \A n \in 1 .. (k - 1) : ~Speaks(Levels(i)[n])

(* README: the most specific marker wins, and @not_parallelizable of the   *)
(* item or its class wins over all.  A module's @not_parallelizable is     *)
(* left to NotAtAnyLevel below.                                            *)
ExpectedParallel(i) ==
  /\ ~ForcedSequential(i)
  /\ \E k \in DOMAIN Levels(i) : Speaks(Levels(i)[k])
  /\ LET s == level_scope(Levels(i)[NearestSpeaking(i)])
     IN  \/ s = "all"
         \/ s = "children" /\ NearestSpeaking(i) > 1
         \/ s = "parameters" /\ params[i] # {}

(* An item gets a key exactly when its most specific marker makes it       *)
(* parallel, whatever the levels above it say.                             *)
MostSpecificWins ==
  \A i \in Range(items) : module_scope(i) # "not" =>
    (group_key(i) # None <=> ExpectedParallel(i))

(* The tests of one class group, or of one parameters group, agree on the  *)
(* values of class-, module- and session-scoped params: no two of them     *)
(* need different instances of a shared fixture at the same time.          *)
OneFixtureWorld ==
  \A g \in DOMAIN merged :
    merged[g].key # None /\ merged[g].key[1] \in {"class", "params"} =>
      \A x, y \in Range(merged[g].items) :
        fixture_param_key(x) = fixture_param_key(y)

-----------------------------------------------------------------------------
(* Properties of the groups.                                               *)

(* The fragments of one package begin inside those of another and end      *)
(* behind them; or they lie entirely between them.                         *)
Crossing == \E k, l \in fragmented : First(k) < First(l) /\ First(l) < Final(k)
                                     /\ Final(k) < Final(l)
Nested == \E k, l \in fragmented : First(k) < First(l) /\ Final(l) < Final(k)

(* The places of a list of groups, in the order in which they run.         *)
Places(gs) == UNION {{g} \X DOMAIN gs[g].items : g \in DOMAIN gs}
At(gs, p) == gs[p[1]].items[p[2]]
Before(p, q) == p[1] < q[1] \/ (p[1] = q[1] /\ p[2] < q[2])
Content(gs) == UNION {Range(gs[g].items) : g \in DOMAIN gs}

EachOnce(gs) == \A p, q \in Places(gs) : At(gs, p) = At(gs, q) => p = q

(* No collected test is lost when groups are cut, merged and deferred.     *)
NothingLost == pc = "done" => Content(merged) = Range(items)

(* Unless two packages cross, every test is in one group only, once.       *)
OnceUnlessCrossing == pc = "done" /\ ~Crossing => EachOnce(merged)

(* Tests with the same key, those without one included, keep their order.  *)
OrderKept ==
  pc = "done" /\ ~Crossing =>
    \A p, q \in Places(merged), m, n \in DOMAIN items :
      /\ Before(p, q)
      /\ At(merged, p) = items[m] /\ At(merged, q) = items[n]
      /\ group_key(items[m]) = group_key(items[n])
      => m < n

(* Cutting, merging and deferring neither lose nor repeat nor shuffle.     *)
ItemsPreserved == NothingLost /\ OnceUnlessCrossing /\ OrderKept

(* A test is run in a group of its own key.                                *)
InGroupOfItsKey ==
  \A gs \in {groups, merged} : \A g \in DOMAIN gs :
    \A i \in Range(gs[g].items) : group_key(i) = gs[g].key

(* Unless packages overlap, a package has one group in the end.            *)
OneGroupPerPackage ==
  pc = "done" /\ ~Crossing /\ ~Nested =>
    \A g, h \in DOMAIN merged :
      IsPackageKey(merged[g].key) /\ merged[g].key = merged[h].key => g = h

(* A test runs in a group of its key and a package is merged into one.     *)
GroupedByKey == InGroupOfItsKey /\ OneGroupPerPackage

-----------------------------------------------------------------------------
(* What comments and docs of the repository say, and the code does not do: *)
(* TLC finds each of these violated on the inputs of MCGrouping.           *)

(* "not_parallelizable at any level forces sequential".                    *)
NotAtAnyLevel ==
  \A i \in Range(items) :
    (\E k \in DOMAIN Levels(i) : has_not_marker(Levels(i)[k])) =>
      group_key(i) = None

(* Fixture params with a broader scope "must stay in the group key to      *)
(* prevent merging groups whose class/module/session-scoped fixtures       *)
(* differ".                                                                *)
ParamsNeverMixed ==
  \A g \in DOMAIN merged : merged[g].key # None =>
    \A x, y \in Range(merged[g].items) :
      fixture_param_key(x) = fixture_param_key(y)

(* A parameters group holds variants of the same test.                     *)
VariantsOfOneTest ==
  \A g \in DOMAIN merged :
    merged[g].key # None /\ merged[g].key[1] = "params" =>
      \A x, y \in Range(merged[g].items) : module[x] = module[y]

(* The merge moves tests from group to group, it does not repeat them.     *)
EachTestOnce == pc = "done" => EachOnce(merged)

(* Groups of a package that sequential tests have split are joined.        *)
PackagesJoined ==
  pc = "done" =>
    \A g, h \in DOMAIN merged :
      IsPackageKey(merged[g].key) /\ merged[g].key = merged[h].key => g = h
=============================================================================

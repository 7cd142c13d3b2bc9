---------------------------- MODULE RunAllProofs ----------------------------
(***************************************************************************)
(* Proofs about RunAll, for any collection, any fixtures and any --maxfail *)
(* with any of the faults.  The last two theorems need conditions on what  *)
(* the session has collected.                                              *)
(***************************************************************************)
EXTENDS RunAll, TLAPS, FiniteSetTheorems, WellFoundedInduction

-----------------------------------------------------------------------------
(* The inductive invariant: where main is, and what became of the items.   *)

(* Dealt with: the body was entered, or the setup was skipped or failed.   *)
Dealt(i) == i \in ran \/ wpc[i] \in {"skipped", "errored", "broken"}

SeqPlaces == {"seq", "seqcall", "seqteardown"}
GroupPlaces == {"hook", "workers", "teardown_all", "deferred"}

ControlInv ==
  /\ mpc \in MainPlaces
  /\ group_idx \in 1 .. (Len(groups) + 1)
  /\ idx \in Nat \ {0}
  /\ mpc = "loop" => idx = 1
  /\ mpc = "returned" => group_idx = Len(groups) + 1
  /\ mpc \in SeqPlaces \cup GroupPlaces => group_idx \in DOMAIN groups
  /\ mpc \in SeqPlaces => idx \in DOMAIN groups[group_idx]
  /\ mpc = "hook" => idx <= Len(groups[group_idx]) + 1
  /\ mpc = "workers" => idx = Len(groups[group_idx]) + 1
  /\ wpc \in [Items -> ItemPlaces]
  /\ ran \subseteq Items
  /\ parallel_items \in Seq(Items)

(* Every item before main's place is dealt with, or in the hands of the    *)
(* workers of this group.                                                  *)
DealtInv ==
  /\ \A i \in Items : wpc[i] \in {"call", "passed", "failed"} => i \in ran
  /\ \A g \in DOMAIN groups : g < group_idx =>
       \A k \in DOMAIN groups[g] : Dealt(groups[g][k])
  /\ mpc \in SeqPlaces =>
       \A k \in DOMAIN groups[group_idx] : k < idx => Dealt(groups[group_idx][k])
  /\ mpc = "seqcall" => wpc[item] = "call"
  /\ mpc = "seqteardown" => Dealt(item)
  /\ mpc \in {"hook", "workers"} =>
       \A k \in DOMAIN groups[group_idx] : k < idx =>
         \/ Dealt(groups[group_idx][k])
         \/ groups[group_idx][k] \in ParallelSet
  /\ mpc \in {"teardown_all", "deferred"} =>
       \A k \in DOMAIN groups[group_idx] : Dealt(groups[group_idx][k])

(* The items of the group before main's place have left "out".             *)
BegunInv ==
  /\ mpc \in SeqPlaces \cup {"hook", "workers"} =>
       \A k \in DOMAIN groups[group_idx] : k < idx => wpc[groups[group_idx][k]] # "out"
  /\ mpc \in {"seqcall", "seqteardown"} => wpc[item] # "out"

-----------------------------------------------------------------------------
(* A report only counts.                                                   *)

Rest == <<control, caches, prepared, deferred, wpc, funcargs, ran>>

LEMMA Steps ==
  ASSUME [Next]_vars
  PROVE  Proceed \/ (\E i \in Items : Worker(i)) \/ UNCHANGED Rest
<1>1. CASE Report
  BY <1>1 DEF Report, ReportFailure, Rest, control, caches, prepared
<1>2. CASE UNCHANGED vars \/ Terminated
  BY <1>2 DEF Terminated, vars, tests, Rest
<1> QED  BY <1>1, <1>2 DEF Next, Main

-----------------------------------------------------------------------------
(* Facts about the collection.                                             *)

(* Every group is a sequence of items that is not empty.                   *)
LEMMA GroupFacts ==
  /\ Len(groups) \in Nat /\ DOMAIN groups = 1 .. Len(groups)
  /\ \A g \in DOMAIN groups :
       /\ groups[g] \in Seq(Items) /\ Len(groups[g]) \in Nat \ {0}
       /\ DOMAIN groups[g] = 1 .. Len(groups[g])
       /\ \A k \in DOMAIN groups[g] : groups[g][k] \in Items
  BY GroupsAssumption

(* Two places of the groups hold two items.                                *)
LEMMA ItemsDiffer ==
  ASSUME NEW g \in DOMAIN groups, NEW h \in DOMAIN groups,
         NEW k \in DOMAIN groups[g], NEW n \in DOMAIN groups[h],
         groups[g][k] = groups[h][n]
  PROVE  g = h /\ k = n
  BY GroupsAssumption

ItemsInv == ControlInv /\ DealtInv /\ BegunInv

LEMMA ItemsInit == Init => ItemsInv
<1> SUFFICES ASSUME Init PROVE ItemsInv
  OBVIOUS
<1>1. ControlInv
  BY GroupFacts DEF Init, ControlInv, MainPlaces, ItemPlaces, SeqPlaces, GroupPlaces
<1>2. DealtInv
  BY GroupFacts DEF Init, DealtInv, SeqPlaces
<1>3. BegunInv
  BY DEF Init, BegunInv, SeqPlaces
<1> QED  BY <1>1, <1>2, <1>3 DEF ItemsInv

(* The place of main in the groups, and the item there.                    *)
LEMMA ItemTyped ==
  ASSUME ControlInv,
         mpc \in SeqPlaces \/ (mpc = "hook" /\ idx <= Len(groups[group_idx]))
  PROVE  /\ group_idx \in DOMAIN groups /\ idx \in DOMAIN groups[group_idx]
         /\ item \in Items /\ item \in Range(groups[group_idx])
  BY GroupFacts DEF ControlInv, item, SeqPlaces, GroupPlaces, Range

(* run_all enters a group, or leaves.                                      *)
LEMMA LoopItems ==
  ASSUME ItemsInv, EnterGroup \/ RaiseFailed \/ ReturnTrue \/ SessionFinish
  PROVE  ItemsInv'
<1> USE DEF ItemsInv
<1>1. CASE EnterGroup
  <2> USE <1>1 DEF EnterGroup
  <2>1. ControlInv'
    BY GroupFacts DEF ControlInv, MainPlaces, SeqPlaces, GroupPlaces, tests, prepared
  <2>2. DealtInv'
    BY GroupFacts DEF ControlInv, DealtInv, Dealt, SeqPlaces, tests, prepared, ParallelSet
  <2>3. BegunInv'
    BY GroupFacts DEF ControlInv, BegunInv, SeqPlaces, tests
  <2> QED  BY <2>1, <2>2, <2>3
<1>2. ASSUME RaiseFailed \/ ReturnTrue \/ SessionFinish PROVE ItemsInv'
  <2> USE <1>2 DEF RaiseFailed, ReturnTrue, SessionFinish
  <2>1. ControlInv'
    BY GroupFacts DEF ControlInv, MainPlaces, SeqPlaces, GroupPlaces, tests, prepared
  <2>2. DealtInv'
    BY GroupFacts DEF ControlInv, DealtInv, Dealt, SeqPlaces, tests, prepared
  <2>3. BegunInv'
    BY DEF BegunInv, SeqPlaces
  <2> QED  BY <2>1, <2>2, <2>3
<1> QED  BY <1>1, <1>2

(* A step that changes only the item at main's place, which stays dealt    *)
(* with or in use: what is before it keeps its place.                      *)
LEMMA OthersKept ==
  ASSUME ControlInv, group_idx \in DOMAIN groups, idx \in DOMAIN groups[group_idx],
         NEW g \in DOMAIN groups, NEW k \in DOMAIN groups[g],
         g # group_idx \/ k # idx, NEW p,
         wpc' = [wpc EXCEPT ![item] = p], ran \subseteq ran'
  PROVE  /\ groups[g][k] # item
         /\ wpc'[groups[g][k]] = wpc[groups[g][k]]
         /\ Dealt(groups[g][k]) => Dealt(groups[g][k])'
<1>1. groups[g][k] # item
  BY ItemsDiffer DEF item
<1>2. groups[g][k] \in Items
  BY GroupFacts
<1>3. wpc'[groups[g][k]] = wpc[groups[g][k]]
  BY <1>1, <1>2 DEF ControlInv
<1> QED  BY <1>1, <1>2, <1>3 DEF Dealt

LEMMA SequentialItems ==
  ASSUME ItemsInv, Sequential
  PROVE  ItemsInv'
<1> USE DEF ItemsInv
<1>0. /\ mpc \in SeqPlaces
      /\ group_idx \in DOMAIN groups /\ idx \in DOMAIN groups[group_idx]
      /\ item \in Items
  <2>1. mpc \in SeqPlaces
    BY DEF Sequential, SeqSetup, SeqSetupFails, SeqSkip, SeqCall, SeqTeardown, SeqPlaces
  <2> QED  BY <2>1, ItemTyped
<1>1. ASSUME NEW p \in ItemPlaces \ {"out"}, wpc' = [wpc EXCEPT ![item] = p],
             ran' \in {ran, ran \cup {item}},
             p \in {"call", "passed", "failed"} => item \in ran',
             p \in {"call", "passed", "failed", "skipped", "errored"},
             UNCHANGED <<group_idx, idx, prepared, deferred>>,
             \/ mpc' = "seqteardown"
             \/ mpc' = "seqcall" /\ p = "call"
      PROVE  ItemsInv'
  <2> USE <1>0, <1>1
  <2>0. item' = item
    BY DEF item
  <2>1. ControlInv'
    BY GroupFacts DEF ControlInv, MainPlaces, SeqPlaces, GroupPlaces, ItemPlaces, prepared
  <2>2. /\ wpc'[item] = p
        /\ \A i \in Items : i # item => wpc'[i] = wpc[i]
    BY DEF ControlInv
  <2>3. \A g \in DOMAIN groups : \A k \in DOMAIN groups[g] :
          g # group_idx \/ k # idx =>
            /\ wpc'[groups[g][k]] = wpc[groups[g][k]]
            /\ Dealt(groups[g][k]) => Dealt(groups[g][k])'
    BY OthersKept
  <2>4. DealtInv'
    <3>1. \A i \in Items : wpc'[i] \in {"call", "passed", "failed"} => i \in ran'
      BY <2>2 DEF DealtInv
    <3>2. \A g \in DOMAIN groups : g < group_idx =>
            \A k \in DOMAIN groups[g] : Dealt(groups[g][k])'
      BY <2>3 DEF DealtInv, ControlInv
    <3>3. \A k \in DOMAIN groups[group_idx] : k < idx => Dealt(groups[group_idx][k])'
      BY <2>3 DEF DealtInv, ControlInv
    <3>4. mpc' = "seqcall" => wpc'[item] = "call"
      BY <2>2
    <3>5. mpc' = "seqteardown" => Dealt(item)'
      BY <2>0, <2>2 DEF Dealt
    <3> QED  BY <2>0, <3>1, <3>2, <3>3, <3>4, <3>5 DEF DealtInv, SeqPlaces
  <2>5. BegunInv'
    <3>1. \A k \in DOMAIN groups[group_idx] : k < idx => wpc'[groups[group_idx][k]] # "out"
      BY <2>3 DEF BegunInv, ControlInv
    <3> QED  BY <2>0, <2>2, <3>1 DEF BegunInv, SeqPlaces
  <2> QED  BY <2>1, <2>4, <2>5
<1>2. CASE SeqSetup
  BY <1>0, <1>1, <1>2 DEF SeqSetup, ItemPlaces
<1>3. CASE SeqSetupFails
  BY <1>0, <1>1, <1>3 DEF SeqSetupFails, ItemPlaces
<1>4. CASE SeqSkip
  BY <1>0, <1>1, <1>4 DEF SeqSkip, ItemPlaces
<1>5. ASSUME NEW outcome \in {"passed", "failed"}, SeqCall(outcome) PROVE ItemsInv'
  <2>1. item \in ran
    BY <1>0, <1>5 DEF SeqCall, DealtInv
  <2> QED  BY <1>0, <1>1, <1>5, <2>1 DEF SeqCall, ItemPlaces
<1>6. CASE SeqTeardown
  <2> USE <1>0, <1>6 DEF SeqTeardown
  <2>1. CASE idx < Len(groups[group_idx])
    <3> USE <2>1
    <3>1. /\ mpc = "seqteardown" /\ mpc' = "seq" /\ idx' = idx + 1
          /\ UNCHANGED <<group_idx, prepared, deferred, wpc, ran>>
      OBVIOUS
    <3> HIDE <1>6 DEF SeqTeardown
    <3>2. ControlInv'
      BY <3>1, GroupFacts DEF ControlInv, MainPlaces, SeqPlaces, GroupPlaces, prepared
    <3>3. \A k \in DOMAIN groups[group_idx] : k < idx + 1 => k < idx \/ k = idx
      BY <1>0, GroupFacts
    <3>4. DealtInv'
      BY <3>1, <3>3 DEF DealtInv, Dealt, SeqPlaces, item, ControlInv
    <3>5. BegunInv'
      BY <3>1, <3>3 DEF BegunInv, SeqPlaces, item, ControlInv
    <3> QED  BY <3>2, <3>4, <3>5
  <2>2. CASE ~ (idx < Len(groups[group_idx]))
    <3> USE <2>2
    <3>1. /\ mpc = "seqteardown" /\ mpc' = "loop" /\ idx' = 1 /\ group_idx' = group_idx + 1
          /\ UNCHANGED <<prepared, deferred, wpc, ran>>
      BY DEF NextGroup
    <3> HIDE <1>6 DEF SeqTeardown
    <3>2. ControlInv'
      BY <3>1, GroupFacts DEF ControlInv, MainPlaces, SeqPlaces, GroupPlaces, prepared
    <3>3. \A k \in DOMAIN groups[group_idx] : k < idx \/ k = idx
      BY <1>0, GroupFacts
    <3>4. \A k \in DOMAIN groups[group_idx] : Dealt(groups[group_idx][k])
      BY <3>1, <3>3 DEF DealtInv, SeqPlaces, item
    <3>5. \A g \in DOMAIN groups : g < group_idx + 1 => g < group_idx \/ g = group_idx
      BY <1>0, GroupFacts
    <3>6. DealtInv'
      BY <3>1, <3>4, <3>5 DEF DealtInv, Dealt, SeqPlaces, ControlInv
    <3>7. BegunInv'
      BY <3>1 DEF BegunInv, SeqPlaces
    <3> QED  BY <3>2, <3>6, <3>7
  <2> QED  BY <2>1, <2>2
<1> QED  BY <1>2, <1>3, <1>4, <1>5, <1>6 DEF Sequential

(* The hook of the item at main's place is over: it is queued, errored or  *)
(* skipped.                                                                *)
LEMMA HookItems ==
  ASSUME ItemsInv, HookEntered,
         NEW p \in {"queued", "errored", "skipped"},
         wpc' = [wpc EXCEPT ![item] = p],
         \/ p = "queued" /\ parallel_items' = Append(parallel_items, item)
         \/ p # "queued" /\ parallel_items' = parallel_items
  PROVE  ItemsInv'
<1> USE DEF ItemsInv
<1>0. /\ mpc = "hook" /\ idx' = idx + 1
      /\ UNCHANGED <<mpc, group_idx, deferred, ran>>
      /\ group_idx \in DOMAIN groups /\ idx \in DOMAIN groups[group_idx]
      /\ item \in Items
  BY ItemTyped DEF HookEntered
<1>1. /\ parallel_items' \in Seq(Items)
      /\ ParallelSet \subseteq ParallelSet'
      /\ p = "queued" => item \in ParallelSet'
  <2>1. CASE p = "queued"
    <3>1. /\ parallel_items' = Append(parallel_items, item)
          /\ parallel_items \in Seq(Items)
      BY <2>1 DEF ControlInv
    <3>2. /\ parallel_items' \in Seq(Items)
          /\ DOMAIN parallel_items' = 1 .. (Len(parallel_items) + 1)
          /\ \A k \in DOMAIN parallel_items : /\ k \in DOMAIN parallel_items'
                                              /\ parallel_items'[k] = parallel_items[k]
          /\ parallel_items'[Len(parallel_items) + 1] = item
      BY <3>1, <1>0
    <3>3. Len(parallel_items) + 1 \in DOMAIN parallel_items'
      BY <3>1, <3>2
    <3> QED  BY <3>2, <3>3 DEF ParallelSet, Range
  <2>2. CASE p # "queued"
    BY <2>2 DEF ControlInv, ParallelSet
  <2> QED  BY <2>1, <2>2
<1>2. ControlInv'
  BY <1>0, <1>1, GroupFacts DEF ControlInv, MainPlaces, SeqPlaces, GroupPlaces, ItemPlaces
<1>3. /\ wpc'[item] = p
      /\ \A i \in Items : i # item => wpc'[i] = wpc[i]
  BY <1>0 DEF ControlInv
<1>4. \A g \in DOMAIN groups : \A k \in DOMAIN groups[g] :
        g # group_idx \/ k # idx =>
          /\ wpc'[groups[g][k]] = wpc[groups[g][k]]
          /\ Dealt(groups[g][k]) => Dealt(groups[g][k])'
  BY <1>0, OthersKept
<1>5. \A k \in DOMAIN groups[group_idx] : k < idx + 1 => k < idx \/ k = idx
  BY <1>0, GroupFacts
<1>6. DealtInv'
  <2>1. \A i \in Items : wpc'[i] \in {"call", "passed", "failed"} => i \in ran'
    BY <1>0, <1>3 DEF DealtInv
  <2>2. \A g \in DOMAIN groups : g < group_idx =>
          \A k \in DOMAIN groups[g] : Dealt(groups[g][k])'
    BY <1>4, <1>0, GroupFacts DEF DealtInv
  <2>4. item = groups[group_idx][idx]
    BY DEF item
  <2>5. \A k \in DOMAIN groups[group_idx] : k < idx =>
          \/ Dealt(groups[group_idx][k])'
          \/ groups[group_idx][k] \in ParallelSet'
    BY <1>0, <1>1, <1>4, GroupFacts DEF DealtInv
  <2>6. wpc'[item] \in {"skipped", "errored"} \/ item \in ParallelSet'
    BY <1>1, <1>3
  <2>7. \A k \in DOMAIN groups[group_idx] : k < idx + 1 =>
          \/ Dealt(groups[group_idx][k])'
          \/ groups[group_idx][k] \in ParallelSet'
    BY <1>0, <2>4, <2>5, <2>6, <1>5 DEF Dealt
  <2> QED  BY <1>0, <2>1, <2>2, <2>7 DEF DealtInv, SeqPlaces
<1>7. BegunInv'
  <2>1. \A k \in DOMAIN groups[group_idx] : k < idx + 1 =>
          wpc'[groups[group_idx][k]] # "out"
    BY <1>0, <1>3, <1>4, <1>5, GroupFacts DEF BegunInv, item
  <2> QED  BY <1>0, <2>1 DEF BegunInv, SeqPlaces
<1> QED  BY <1>2, <1>6, <1>7

LEMMA PrepareItems ==
  ASSUME ItemsInv, Prepare
  PROVE  ItemsInv'
<1>1. CASE Transition
  <2>1. UNCHANGED <<control, parallel_items, tests>>
    BY <1>1 DEF Transition
  <2>2. ControlInv'
    BY <2>1 DEF ItemsInv, ControlInv, control, tests, MainPlaces, SeqPlaces, GroupPlaces
  <2>3. DealtInv'
    BY <2>1 DEF ItemsInv, DealtInv, Dealt, control, tests, ParallelSet, item
  <2>4. BegunInv'
    BY <2>1 DEF ItemsInv, BegunInv, control, tests, item
  <2> QED  BY <2>2, <2>3, <2>4 DEF ItemsInv
<1>2. CASE HookPasses
  BY <1>2, HookItems DEF HookPasses
<1>3. CASE HookFails
  BY <1>3, HookItems DEF HookFails, prepared
<1>4. CASE HookSkips
  BY <1>4, HookItems DEF HookSkips, prepared
<1>5. CASE PushItems
  <2> USE <1>5 DEF PushItems, ItemsInv, prepared, tests
  <2>1. ControlInv'
    BY GroupFacts DEF ControlInv, MainPlaces, SeqPlaces, GroupPlaces
  <2>2. DealtInv'
    BY DEF DealtInv, Dealt, ParallelSet, SeqPlaces
  <2>3. BegunInv'
    BY DEF BegunInv, SeqPlaces
  <2> QED  BY <2>1, <2>2, <2>3
<1> QED  BY <1>1, <1>2, <1>3, <1>4, <1>5 DEF Prepare

LEMMA WorkerItems ==
  ASSUME ItemsInv, NEW i \in Items, Worker(i)
  PROVE  ItemsInv'
<1> DEFINE Goes(p) == /\ wpc' = [wpc EXCEPT ![i] = p]
                      /\ \/ ran' = ran /\ (p \in {"passed", "failed"} => wpc[i] = "call")
                                       /\ p # "call"
                         \/ ran' = ran \cup {i}
<1>1. /\ mpc = "workers" /\ wpc[i] \in {"queued", "setup", "executing", "call"}
      /\ UNCHANGED <<control, prepared, deferred>>
      /\ \E p \in ItemPlaces \ {"out"} : Goes(p)
  <2>1. CASE Take(i)
    <3>1. /\ mpc = "workers" /\ wpc[i] = "queued"
          /\ UNCHANGED <<control, prepared, deferred, ran>>
          /\ wpc' = [wpc EXCEPT ![i] = "setup"]
      BY <2>1 DEF Take
    <3>2. Goes("setup")
      BY <3>1
    <3>3. "setup" \in ItemPlaces \ {"out"}
      BY DEF ItemPlaces
    <3> HIDE DEF Goes
    <3> QED  BY <3>1, <3>2, <3>3
  <2>2. CASE CacheHit(i)
    <3>1. wpc \in [Items -> ItemPlaces]
      BY DEF ItemsInv, ControlInv
    <3>2. wpc = [wpc EXCEPT ![i] = "setup"] /\ wpc[i] = "setup"
      BY <2>2, <3>1 DEF CacheHit
    <3>3. /\ mpc = "workers" /\ UNCHANGED <<control, prepared, deferred, ran>>
          /\ \/ wpc' = [wpc EXCEPT ![i] = "errored"]
             \/ wpc' = [wpc EXCEPT ![i] = "setup"]
      BY <2>2, <3>2 DEF CacheHit
    <3> QED  BY <3>2, <3>3 DEF ItemPlaces
  <2>3. CASE CacheMiss(i)
    <3>1. /\ mpc = "workers" /\ wpc[i] = "setup"
          /\ UNCHANGED <<control, prepared, deferred, ran>>
          /\ wpc' = [wpc EXCEPT ![i] = "executing"]
      BY <2>3 DEF CacheMiss
    <3>2. Goes("executing")
      BY <3>1
    <3>3. "executing" \in ItemPlaces \ {"out"}
      BY DEF ItemPlaces
    <3> HIDE DEF Goes
    <3> QED  BY <3>1, <3>2, <3>3
  <2>4. CASE Execute(i)
    <3>1. /\ mpc = "workers" /\ wpc[i] = "executing"
          /\ UNCHANGED <<control, prepared, deferred, ran>>
          /\ \/ wpc' = [wpc EXCEPT ![i] = "setup"]
             \/ wpc' = [wpc EXCEPT ![i] = "broken"]
      BY <2>4 DEF Execute
    <3> QED  BY <3>1 DEF ItemPlaces
  <2>5. CASE ExecuteRaises(i)
    <3>1. /\ mpc = "workers" /\ wpc[i] = "executing"
          /\ UNCHANGED <<control, prepared, deferred, ran>>
          /\ \/ wpc' = [wpc EXCEPT ![i] = "errored"]
             \/ wpc' = [wpc EXCEPT ![i] = "broken"]
      BY <2>5 DEF ExecuteRaises
    <3> QED  BY <3>1 DEF ItemPlaces
  <2>6. CASE EnterCall(i)
    BY <2>6 DEF EnterCall, ItemPlaces
  <2>7. ASSUME NEW outcome \in {"passed", "failed"}, LeaveCall(i, outcome)
        PROVE  /\ mpc = "workers" /\ wpc[i] = "call"
               /\ UNCHANGED <<control, prepared, deferred>>
               /\ \E p \in ItemPlaces \ {"out"} : Goes(p)
    <3>1. /\ mpc = "workers" /\ wpc[i] = "call"
          /\ UNCHANGED <<control, prepared, deferred, ran>>
          /\ wpc' = [wpc EXCEPT ![i] = outcome]
      BY <2>7 DEF LeaveCall
    <3> QED  BY <3>1 DEF ItemPlaces
  <2> QED  BY <2>1, <2>2, <2>3, <2>4, <2>5, <2>6, <2>7 DEF Worker
<1>2. PICK p \in ItemPlaces \ {"out"} : Goes(p)
  BY <1>1
<1>3. /\ wpc'[i] = p
      /\ \A j \in Items : j # i => wpc'[j] = wpc[j]
      /\ ran \subseteq ran'
  BY <1>2 DEF ItemsInv, ControlInv
<1>4. \A j \in Items : /\ Dealt(j) => Dealt(j)'
                       /\ wpc[j] # "out" => wpc'[j] # "out"
  BY <1>1, <1>2, <1>3 DEF Dealt
<1>5. ControlInv'
  BY <1>1, <1>2 DEF ItemsInv, ControlInv, control, prepared
<1>6. UNCHANGED <<mpc, group_idx, idx, parallel_items, ParallelSet>>
  BY <1>1 DEF control, prepared, ParallelSet
<1>7. DealtInv'
  <2>1. \A j \in Items : wpc'[j] \in {"call", "passed", "failed"} => j \in ran'
    BY <1>2, <1>3 DEF ItemsInv, DealtInv
  <2>2. \A g \in DOMAIN groups : g < group_idx =>
          \A k \in DOMAIN groups[g] : Dealt(groups[g][k])'
    BY <1>4, GroupFacts DEF ItemsInv, DealtInv
  <2>3. \A k \in DOMAIN groups[group_idx] : k < idx =>
          \/ Dealt(groups[group_idx][k])'
          \/ groups[group_idx][k] \in ParallelSet
    <3>1. group_idx \in DOMAIN groups
      BY <1>1 DEF ItemsInv, ControlInv, GroupPlaces
    <3>2. \A k \in DOMAIN groups[group_idx] :
            Dealt(groups[group_idx][k]) => Dealt(groups[group_idx][k])'
      BY <1>4, <1>6, <3>1, GroupFacts DEF Dealt
    <3> QED  BY <1>1, <3>2 DEF ItemsInv, DealtInv
  <2> QED  BY <1>1, <1>6, <2>1, <2>2, <2>3 DEF DealtInv, SeqPlaces
<1>8. BegunInv'
  <2>1. \A k \in DOMAIN groups[group_idx] : k < idx => wpc'[groups[group_idx][k]] # "out"
    BY <1>1, <1>4, GroupFacts DEF ItemsInv, BegunInv, ControlInv, GroupPlaces
  <2> QED  BY <1>1, <1>6, <2>1 DEF BegunInv, SeqPlaces
<1> QED  BY <1>5, <1>7, <1>8 DEF ItemsInv

LEMMA CloseItems ==
  ASSUME ItemsInv, Close
  PROVE  ItemsInv'
<1> USE DEF ItemsInv
<1>1. CASE PopItems
  <2> USE <1>1 DEF PopItems, Ended, tests
  <2>0. group_idx \in DOMAIN groups
    BY DEF ControlInv, GroupPlaces
  <2>2. ControlInv'
    BY <2>0 DEF ControlInv, MainPlaces, SeqPlaces, GroupPlaces, prepared
  <2>3. \A k \in DOMAIN groups[group_idx] : Dealt(groups[group_idx][k])
    <3>1. \A i \in ParallelSet : Dealt(i)
      <4>1. ParallelSet \subseteq Items
        BY DEF ControlInv, ParallelSet, Range
      <4> QED  BY <4>1 DEF Dealt, DealtInv
    <3>2. \A k \in DOMAIN groups[group_idx] : k < idx
      BY <2>0, GroupFacts DEF ControlInv
    <3> QED  BY <3>1, <3>2 DEF DealtInv
  <2>4. DealtInv'
    BY <2>3 DEF DealtInv, Dealt, SeqPlaces
  <2>5. BegunInv'
    BY DEF BegunInv, SeqPlaces
  <2> QED  BY <2>2, <2>4, <2>5
<1>2. CASE RunFinalizer
  <2>1. UNCHANGED <<control, prepared, tests>>
    BY <1>2 DEF RunFinalizer
  <2>2. ControlInv'
    BY <2>1 DEF ControlInv, control, prepared, tests
  <2>3. DealtInv'
    BY <2>1 DEF DealtInv, Dealt, control, prepared, tests, ParallelSet, item
  <2>4. BegunInv'
    BY <2>1 DEF BegunInv, control, tests, item
  <2> QED  BY <2>2, <2>3, <2>4
<1>3. ASSUME NEW raises \in BOOLEAN, TeardownShared(raises) PROVE ItemsInv'
  <2>1. /\ mpc = "teardown_all" /\ mpc' \in {"error", "deferred"}
        /\ UNCHANGED <<group_idx, idx, prepared, wpc, ran>>
    BY <1>3 DEF TeardownShared
  <2>2. ControlInv'
    BY <2>1 DEF ControlInv, MainPlaces, SeqPlaces, GroupPlaces, prepared
  <2>3. DealtInv'
    BY <2>1 DEF DealtInv, Dealt, SeqPlaces
  <2>4. BegunInv'
    BY <2>1 DEF BegunInv, SeqPlaces
  <2> QED  BY <2>2, <2>3, <2>4
<1>4. CASE CloseGroup
  <2>0. /\ mpc = "deferred" /\ parallel_items' = <<>>
        /\ \/ mpc' = "loop" /\ group_idx' = group_idx + 1 /\ idx' = 1
           \/ mpc' = "error" /\ UNCHANGED <<group_idx, idx>>
        /\ UNCHANGED <<wpc, ran>>
    BY <1>4 DEF CloseGroup, NextGroup, tests
  <2>1. ControlInv'
    BY <2>0, GroupFacts DEF ControlInv, MainPlaces, SeqPlaces, GroupPlaces
  <2>2. \A g \in DOMAIN groups : g < group_idx + 1 => g < group_idx \/ g = group_idx
    BY <2>0, GroupFacts DEF ControlInv
  <2>3. \A k \in DOMAIN groups[group_idx] : Dealt(groups[group_idx][k])
    BY <2>0 DEF DealtInv
  <2>4. \A g \in DOMAIN groups : g < group_idx' =>
          \A k \in DOMAIN groups[g] : Dealt(groups[g][k])
    BY <2>0, <2>2, <2>3 DEF DealtInv
  <2>5. DealtInv'
    BY <2>0, <2>4 DEF DealtInv, Dealt, SeqPlaces
  <2>6. BegunInv'
    BY <2>0 DEF BegunInv, SeqPlaces
  <2> QED  BY <2>1, <2>5, <2>6
<1> QED  BY <1>1, <1>2, <1>3, <1>4 DEF Close

LEMMA ItemsStep == ItemsInv /\ [Next]_vars => ItemsInv'
<1> SUFFICES ASSUME ItemsInv, [Next]_vars PROVE ItemsInv'
  OBVIOUS
<1>1. CASE Proceed
  BY <1>1, LoopItems, SequentialItems, PrepareItems, CloseItems DEF Proceed
<1>2. CASE \E i \in Items : Worker(i)
  BY <1>2, WorkerItems
<1>3. CASE UNCHANGED Rest
  <2>1. UNCHANGED <<control, prepared, wpc, ran>>
    BY <1>3 DEF Rest
  <2>2. ControlInv'
    BY <2>1 DEF ItemsInv, ControlInv, control, prepared
  <2>3. DealtInv'
    BY <2>1 DEF ItemsInv, DealtInv, Dealt, control, prepared, ParallelSet, item
  <2>4. BegunInv'
    BY <2>1 DEF ItemsInv, BegunInv, control, item
  <2> QED  BY <2>2, <2>3, <2>4 DEF ItemsInv
<1> QED  BY <1>1, <1>2, <1>3, Steps

LEMMA ItemsAlways == Spec => []ItemsInv
  BY ItemsInit, ItemsStep, PTL DEF Spec

(* Unless --maxfail stopped the session, every item was run, skipped, or   *)
(* failed in its setup when run_all returns, whatever the hooks, fixtures  *)
(* and workers did with it: no path of the loops leaves an item out.       *)
THEOREM NothingLeftOut == Spec => []EveryItemDealtWith
<1>1. ItemsInv => EveryItemDealtWith
  <2> SUFFICES ASSUME ItemsInv, mpc = "returned", NEW i \in Items
               PROVE  Dealt(i)
    BY DEF EveryItemDealtWith, Dealt
  <2>1. PICK g \in DOMAIN groups : i \in Range(groups[g])
    BY GroupsAssumption
  <2>2. PICK k \in DOMAIN groups[g] : i = groups[g][k]
    BY <2>1 DEF Range
  <2>3. g < group_idx
    BY GroupFacts DEF ItemsInv, ControlInv
  <2> QED  BY <2>2, <2>3 DEF ItemsInv, DealtInv
<1> QED  BY <1>1, ItemsAlways, PTL

-----------------------------------------------------------------------------
(* What the operators on sequences and on the stack return.                *)

(* A set of naturals that is not empty has a smallest member.              *)
LEMMA SmallestMember ==
  ASSUME NEW T \in SUBSET Nat, T # {}
  PROVE  \E k \in T : \A m \in T : k <= m
<1>1. PICK k \in T : \A m \in T : ~ (<<m, k>> \in OpToRel(<, Nat))
  BY WFMin, NatLessThanWellFounded
<1>2. \A m \in T : ~ (m < k)
  BY <1>1 DEF OpToRel
<1> QED  BY <1>2

(* A bounded set of numbers that is not empty has a largest member.        *)
LEMMA LargestMember ==
  ASSUME NEW n \in Nat, NEW T \in SUBSET (0 .. n), T # {}
  PROVE  \E k \in T : \A m \in T : m <= k
<1> DEFINE U == {n - k : k \in T}
<1>1. U \subseteq Nat /\ U # {}
  <2>1. ASSUME NEW k \in T PROVE n - k \in Nat
    <3>1. k \in 0 .. n
      OBVIOUS
    <3> QED  BY <3>1
  <2>2. PICK k \in T : TRUE
    OBVIOUS
  <2> QED  BY <2>1, <2>2
<1>2. PICK u \in U : \A v \in U : u <= v
  <2> HIDE DEF U
  <2> QED  BY <1>1, SmallestMember
<1>3. \A v \in U : ~ (v < u)
  BY <1>1, <1>2
<1>4. PICK k \in T : u = n - k
  OBVIOUS
<1>5. ASSUME NEW m \in T PROVE m <= k
  <2>1. n - m \in U
    OBVIOUS
  <2>2. ~ (n - m < n - k)
    BY <1>3, <1>4, <2>1
  <2> QED  BY <2>2
<1> QED  BY <1>5

(* Each member of t is one of s, from a place of its own.                  *)
Drawn(t, s) ==
  \E at \in [DOMAIN t -> DOMAIN s] :
    /\ \A j \in DOMAIN t : t[j] = s[at[j]]
    /\ \A j, k \in DOMAIN t : at[j] = at[k] => j = k

(* What Among keeps of a sequence: its members that are chosen, each at a  *)
(* place of its own.  The ranks are an injection of the places into as     *)
(* many numbers, so each is taken.                                         *)
LEMMA AmongFacts ==
  ASSUME NEW S, NEW s \in Seq(S), NEW chosen
  PROVE  /\ Among(s, chosen) \in Seq(S)
         /\ Range(Among(s, chosen)) = {x \in Range(s) : x \in chosen}
         /\ Drawn(Among(s, chosen), s)
<1> DEFINE places == {k \in DOMAIN s : s[k] \in chosen}
           rank(k) == Cardinality({n \in places : n <= k})
           size == Cardinality(places)
           at == [j \in 1 .. size |-> CHOOSE k \in places : rank(k) = j]
<1>1. /\ places \subseteq DOMAIN s /\ DOMAIN s = 1 .. Len(s) /\ Len(s) \in Nat
      /\ IsFiniteSet(places) /\ size \in Nat
  <2>1. DOMAIN s = 1 .. Len(s) /\ Len(s) \in Nat
    OBVIOUS
  <2>2. IsFiniteSet(DOMAIN s)
    BY <2>1, FS_Interval
  <2>3. IsFiniteSet(places)
    BY <2>2, FS_Subset
  <2> QED  BY <2>1, <2>3, FS_CardinalityType
<1>2. ASSUME NEW k \in places PROVE rank(k) \in 1 .. size
  <2> DEFINE below == {n \in places : n <= k}
  <2>1. IsFiniteSet(below) /\ Cardinality(below) <= size
    BY <1>1, FS_Subset
  <2>2. k \in below
    BY <1>1
  <2>3. Cardinality(below) # 0
    BY <2>1, <2>2, FS_EmptySet
  <2>4. Cardinality(below) \in Nat
    BY <2>1, FS_CardinalityType
  <2>5. rank(k) = Cardinality(below)
    OBVIOUS
  <2> HIDE DEF below, rank, size
  <2> QED  BY <1>1, <2>1, <2>3, <2>4, <2>5
<1>3. ASSUME NEW k \in places, NEW n \in places, k < n PROVE rank(k) # rank(n)
  <2> DEFINE low == {m \in places : m <= k}
             high == {m \in places : m <= n}
  <2>1. low \subseteq high /\ n \in high /\ n \notin low
    BY <1>1, <1>3
  <2>2. IsFiniteSet(high)
    BY <1>1, FS_Subset
  <2>3. Cardinality(low) # Cardinality(high)
    BY <2>1, <2>2, FS_Subset
  <2> QED  BY <2>3
<1>4. \A k, n \in places : rank(k) = rank(n) => k = n
  <2> HIDE DEF rank
  <2> QED  BY <1>1, <1>3
<1> DEFINE ranks == [k \in places |-> rank(k)]
<1>5. ranks \in Injection(places, 1 .. size)
  <2> HIDE DEF rank, size, places
  <2>1. ranks \in [places -> 1 .. size]
    BY <1>2
  <2>2. \A k, n \in places : ranks[k] = ranks[n] => k = n
    BY <1>4
  <2> QED  BY <2>1, <2>2 DEF Injection, IsInjective
<1>6. ranks \in Surjection(places, 1 .. size)
  <2>1. IsFiniteSet(1 .. size) /\ Cardinality(1 .. size) = size
    <3> HIDE DEF size
    <3> QED  BY <1>1, FS_Interval
  <2> HIDE DEF ranks
  <2> QED  BY <1>5, <2>1, FS_Injection
<1>7. \A j \in 1 .. size : \E k \in places : rank(k) = j
  <2> HIDE DEF rank, size, places
  <2> QED  BY <1>6 DEF Surjection
<1>8. \A j \in 1 .. size : at[j] \in places /\ rank(at[j]) = j
  <2> HIDE DEF rank, size, places
  <2> QED  BY <1>7
<1>9. /\ Among(s, chosen) = [j \in 1 .. size |-> s[at[j]]]
      /\ DOMAIN Among(s, chosen) = 1 .. size
  BY DEF Among
<1> HIDE DEF rank, size, at
<1>10. Among(s, chosen) \in Seq(S)
  BY <1>1, <1>8, <1>9
<1>11. Range(Among(s, chosen)) = {x \in Range(s) : x \in chosen}
  <2>1. ASSUME NEW x \in Range(s), x \in chosen PROVE x \in Range(Among(s, chosen))
    <3>1. PICK k \in DOMAIN s : s[k] = x
      BY DEF Range
    <3>2. k \in places
      BY <2>1, <3>1
    <3>3. rank(k) \in 1 .. size /\ at[rank(k)] = k
      BY <1>2, <1>4, <1>8, <3>2
    <3> QED  BY <1>9, <3>1, <3>3 DEF Range
  <2>2. ASSUME NEW x \in Range(Among(s, chosen)) PROVE x \in Range(s) /\ x \in chosen
    BY <1>8, <1>9 DEF Range
  <2> QED  BY <2>1, <2>2
<1>12. at \in [DOMAIN Among(s, chosen) -> DOMAIN s]
  BY <1>8, <1>9 DEF at
<1>13. \A j, k \in DOMAIN Among(s, chosen) : at[j] = at[k] => j = k
  BY <1>8, <1>9
<1>14. \A j \in DOMAIN Among(s, chosen) : Among(s, chosen)[j] = s[at[j]]
  BY <1>9
<1> QED
  <2> HIDE DEF places
  <2>1. Drawn(Among(s, chosen), s)
    BY <1>12, <1>13, <1>14 DEF Drawn
  <2> QED  BY <1>10, <1>11, <2>1

-----------------------------------------------------------------------------
(* The stack.                                                              *)

Entries == [node : Nodes \cup Items, fins : Seq(Defs)]

OnPath(st, chain) ==
  \A k \in DOMAIN st : k <= Len(chain) /\ st[k].node = chain[k]

(* An item's chain is its collectors, then the item.                       *)
LEMMA ChainFacts ==
  ASSUME NEW i \in Items
  PROVE  /\ collectors[i] \in Seq(Nodes) /\ Len(collectors[i]) \in Nat
         /\ DOMAIN collectors[i] = 1 .. Len(collectors[i])
         /\ \A k \in DOMAIN collectors[i] : collectors[i][k] \in Nodes
         /\ listchain(i) \in Seq(Nodes \cup Items)
         /\ Len(listchain(i)) = Len(collectors[i]) + 1
         /\ DOMAIN listchain(i) = 1 .. (Len(collectors[i]) + 1)
         /\ \A k \in DOMAIN collectors[i] : listchain(i)[k] = collectors[i][k]
         /\ listchain(i)[Len(collectors[i]) + 1] = i
         /\ Range(listchain(i)) = Range(collectors[i]) \cup {i}
<1>1. /\ collectors[i] \in Seq(Nodes) /\ Len(collectors[i]) \in Nat
      /\ DOMAIN collectors[i] = 1 .. Len(collectors[i])
      /\ \A k \in DOMAIN collectors[i] : collectors[i][k] \in Nodes
  <2>1. collectors \in [Items -> Seq(Nodes)]
    BY CollectorsAssumption
  <2>2. collectors[i] \in Seq(Nodes)
    BY <2>1
  <2> QED  BY <2>2
<1>2. /\ listchain(i) \in Seq(Nodes \cup Items)
      /\ Len(listchain(i)) = Len(collectors[i]) + 1
      /\ DOMAIN listchain(i) = 1 .. (Len(collectors[i]) + 1)
      /\ \A k \in DOMAIN collectors[i] : listchain(i)[k] = collectors[i][k]
      /\ listchain(i)[Len(collectors[i]) + 1] = i
  BY <1>1 DEF listchain
<1>3. Range(listchain(i)) = Range(collectors[i]) \cup {i}
  <2>1. \A x : x \in Range(listchain(i)) <=>
                 \E k \in 1 .. (Len(collectors[i]) + 1) : listchain(i)[k] = x
    BY <1>2 DEF Range
  <2>2. \A x : x \in Range(collectors[i]) <=>
                 \E k \in 1 .. Len(collectors[i]) : collectors[i][k] = x
    BY <1>1 DEF Range
  <2>3. \A k \in 1 .. (Len(collectors[i]) + 1) :
          k \in 1 .. Len(collectors[i]) \/ k = Len(collectors[i]) + 1
    BY <1>1
  <2>4. Len(collectors[i]) + 1 \in 1 .. (Len(collectors[i]) + 1)
    BY <1>1
  <2>5. \A k \in 1 .. Len(collectors[i]) : k \in 1 .. (Len(collectors[i]) + 1)
    BY <1>1
  <2> QED  BY <1>1, <1>2, <2>1, <2>2, <2>3, <2>4, <2>5
<1> QED  BY <1>1, <1>2, <1>3

(* teardown_exact keeps the longest common start of the stack and the next *)
(* item's chain.                                                           *)
LEMMA KeptFacts ==
  ASSUME NEW st \in Seq(Entries), NEW next \in Items \cup {None}
  PROVE  /\ Needed(next) \in Seq(Nodes \cup Items)
         /\ Kept(st, next) \in 0 .. Len(st)
         /\ Kept(st, next) <= Len(Needed(next))
         /\ \A j \in 1 .. Kept(st, next) : st[j].node = Needed(next)[j]
         /\ \A m \in 0 .. Len(st) :
              m <= Len(Needed(next)) /\ (\A j \in 1 .. m : st[j].node = Needed(next)[j])
                => m <= Kept(st, next)
<1> DEFINE agrees(n) == /\ n <= Len(Needed(next))
                        /\ \A j \in 1 .. n : st[j].node = Needed(next)[j]
           T == {n \in 0 .. Len(st) : agrees(n)}
           best(k) == agrees(k) /\ \A m \in (k + 1) .. Len(st) : ~agrees(m)
<1>1. Needed(next) \in Seq(Nodes \cup Items) /\ Len(Needed(next)) \in Nat /\ Len(st) \in Nat
  BY ChainFacts DEF Needed
<1>2. 0 \in T
  BY <1>1
<1>3. PICK k \in T : \A m \in T : m <= k
  <2> HIDE DEF T
  <2>1. T \in SUBSET (0 .. Len(st))
    BY DEF T
  <2> QED  BY <1>1, <1>2, <2>1, LargestMember
<1>4. k \in 0 .. Len(st) /\ best(k)
  BY <1>1, <1>3
<1>5. Kept(st, next) = CHOOSE n \in 0 .. Len(st) : best(n)
  BY DEF Kept
<1>6. Kept(st, next) \in 0 .. Len(st) /\ best(Kept(st, next))
  <2> HIDE DEF best
  <2> QED  BY <1>4, <1>5
<1>7. ASSUME NEW m \in 0 .. Len(st), agrees(m) PROVE m <= Kept(st, next)
  BY <1>1, <1>6, <1>7
<1> QED  BY <1>1, <1>6, <1>7

(* Collectors form a tree: two chains that meet are one up to there.       *)
LEMMA TreePath ==
  ASSUME NEW i \in Items, NEW j \in Items, NEW k \in DOMAIN collectors[i],
         NEW n \in DOMAIN collectors[j], collectors[i][k] = collectors[j][n]
  PROVE  k = n /\ \A m \in 1 .. k : collectors[i][m] = collectors[j][m]
  BY CollectorsAssumption

(* What is on a path and of the chain of another item is on its path too.  *)
LEMMA CommonPath ==
  ASSUME NEW st \in Seq(Entries), NEW i \in Items, NEW j \in Items,
         OnPath(st, collectors[j]), NEW k \in DOMAIN st,
         st[k].node \in Range(listchain(i))
  PROVE  /\ k \in DOMAIN collectors[i]
         /\ \A m \in 1 .. k : st[m].node = collectors[i][m]
<1>1. /\ Len(st) \in Nat /\ DOMAIN st = 1 .. Len(st)
      /\ k \in DOMAIN collectors[j] /\ st[k].node = collectors[j][k]
  BY ChainFacts DEF OnPath
<1>2. st[k].node \in Range(collectors[i])
  BY <1>1, ChainFacts, CollectorsAssumption
<1>3. PICK n \in DOMAIN collectors[i] : collectors[i][n] = st[k].node
  BY <1>2 DEF Range
<1>4. k = n /\ \A m \in 1 .. k : collectors[j][m] = collectors[i][m]
  BY <1>1, <1>3, TreePath
<1>5. \A m \in 1 .. k : st[m].node = collectors[j][m]
  BY <1>1 DEF OnPath
<1> QED  BY <1>3, <1>4, <1>5

(* A stack whose nodes are all of an item's chain is a path of it.         *)
LEMMA NoStalePath ==
  ASSUME NEW st \in Seq(Entries), NEW i \in Items, NEW j \in Items,
         OnPath(st, collectors[j]),
         \A k \in DOMAIN st : st[k].node \in Range(listchain(i))
  PROVE  OnPath(st, collectors[i])
<1>1. /\ Len(st) \in Nat /\ DOMAIN st = 1 .. Len(st)
      /\ DOMAIN collectors[i] = 1 .. Len(collectors[i]) /\ Len(collectors[i]) \in Nat
  BY ChainFacts
<1>2. ASSUME NEW k \in DOMAIN st
      PROVE  k <= Len(collectors[i]) /\ st[k].node = collectors[i][k]
  <2>1. k \in DOMAIN collectors[i] /\ \A m \in 1 .. k : st[m].node = collectors[i][m]
    BY CommonPath
  <2> QED  BY <1>1, <2>1
<1> QED  BY <1>2 DEF OnPath

(* SetupState.setup completes the path.                                    *)
LEMMA PushedFacts ==
  ASSUME NEW st \in Seq(Entries), NEW i \in Items, OnPath(st, collectors[i])
  PROVE  /\ Pushed(st, i) \in Seq(Entries)
         /\ Len(Pushed(st, i)) = Len(collectors[i])
         /\ \A k \in DOMAIN collectors[i] : Pushed(st, i)[k].node = collectors[i][k]
<1>1. /\ Len(st) \in Nat /\ DOMAIN st = 1 .. Len(st)
      /\ DOMAIN collectors[i] = 1 .. Len(collectors[i]) /\ Len(collectors[i]) \in Nat
      /\ \A k \in DOMAIN collectors[i] : collectors[i][k] \in Nodes
  BY ChainFacts
<1>2. Len(st) <= Len(collectors[i])
  <2>1. CASE Len(st) = 0
    BY <1>1, <2>1
  <2>2. CASE Len(st) # 0
    <3>1. Len(st) \in DOMAIN st
      BY <1>1, <2>2
    <3> QED  BY <3>1 DEF OnPath
  <2> QED  BY <2>1, <2>2
<1> DEFINE more == [k \in 1 .. (Len(collectors[i]) - Len(st)) |->
                      [node |-> collectors[i][Len(st) + k], fins |-> <<>>]]
<1>3. more \in Seq(Entries) /\ Len(more) = Len(collectors[i]) - Len(st)
  <2>1. \A k \in 1 .. (Len(collectors[i]) - Len(st)) : more[k] \in Entries
    <3> SUFFICES ASSUME NEW k \in 1 .. (Len(collectors[i]) - Len(st))
                 PROVE  [node |-> collectors[i][Len(st) + k], fins |-> <<>>] \in Entries
      OBVIOUS
    <3>1. Len(st) + k \in DOMAIN collectors[i]
      BY <1>1, <1>2
    <3>2. <<>> \in Seq(Defs)
      OBVIOUS
    <3> QED  BY <1>1, <3>1, <3>2 DEF Entries
  <2> DEFINE rest == Len(collectors[i]) - Len(st)
  <2>2. rest \in Nat
    BY <1>1, <1>2
  <2>3. more \in [1 .. rest -> Entries]
    BY <2>1
  <2> HIDE DEF more
  <2>4. more \in Seq(Entries) /\ Len(more) = rest
    <3> HIDE DEF rest
    <3> QED  BY <2>2, <2>3
  <2> QED  BY <2>4
<1>4. \A k \in DOMAIN more : more[k].node = collectors[i][Len(st) + k]
  BY <1>3
<1>5. Pushed(st, i) = st \o more
  BY DEF Pushed
<1> HIDE DEF more
<1>6. Pushed(st, i) \in Seq(Entries) /\ Len(Pushed(st, i)) = Len(collectors[i])
  BY <1>1, <1>2, <1>3, <1>5
<1>7. ASSUME NEW k \in DOMAIN collectors[i]
      PROVE  Pushed(st, i)[k].node = collectors[i][k]
  <2>1. CASE k <= Len(st)
    <3>1. k \in DOMAIN st /\ (st \o more)[k] = st[k]
      BY <1>1, <1>3, <2>1
    <3> QED  BY <1>5, <3>1 DEF OnPath
  <2>2. CASE k > Len(st)
    <3>1. k - Len(st) \in 1 .. Len(more) /\ Len(st) + (k - Len(st)) = k
      BY <1>1, <1>3, <2>2
    <3>2. (st \o more)[k] = more[k - Len(st)]
      BY <1>1, <1>3, <2>2, <3>1
    <3>3. k - Len(st) \in DOMAIN more
      BY <1>3, <3>1
    <3> QED  BY <1>4, <1>5, <3>1, <3>2, <3>3
  <2> QED  BY <1>1, <2>1, <2>2
<1> QED  BY <1>6, <1>7

(* teardown_exact leaves a path of what is next.                           *)
LEMMA KeptPath ==
  ASSUME NEW st \in Seq(Entries), NEW next \in Items \cup {None}
  PROVE  LET kept == SubSeq(st, 1, Kept(st, next))
         IN  /\ kept \in Seq(Entries) /\ Len(kept) = Kept(st, next)
             /\ Kept(st, next) \in 0 .. Len(st)
             /\ \A k \in DOMAIN kept : k \in DOMAIN st /\ kept[k] = st[k]
             /\ OnPath(kept, Needed(next))
<1>1. /\ Kept(st, next) \in 0 .. Len(st) /\ Len(st) \in Nat
      /\ Kept(st, next) <= Len(Needed(next))
      /\ \A j \in 1 .. Kept(st, next) : st[j].node = Needed(next)[j]
      /\ Len(Needed(next)) \in Nat
  BY KeptFacts
<1>2. /\ SubSeq(st, 1, Kept(st, next)) \in Seq(Entries)
      /\ Len(SubSeq(st, 1, Kept(st, next))) = Kept(st, next)
      /\ \A k \in 1 .. Kept(st, next) : SubSeq(st, 1, Kept(st, next))[k] = st[k]
  BY <1>1
<1>3. /\ DOMAIN SubSeq(st, 1, Kept(st, next)) = 1 .. Kept(st, next)
      /\ 1 .. Kept(st, next) \subseteq DOMAIN st
  BY <1>1, <1>2
<1> QED  BY <1>1, <1>2, <1>3 DEF OnPath

(* On the stack of a path nothing of the next item's chain is torn down.   *)
LEMMA AboveKeptIsStale ==
  ASSUME NEW st \in Seq(Entries), NEW i \in Items, NEW j \in Items,
         OnPath(st, collectors[j]), NEW k \in (Kept(st, i) + 1) .. Len(st)
  PROVE  st[k].node \notin Range(listchain(i))
<1>1. /\ Kept(st, i) \in 0 .. Len(st) /\ Len(st) \in Nat
      /\ DOMAIN st = 1 .. Len(st)
  BY KeptFacts
<1>2. k \in DOMAIN st /\ k \in 0 .. Len(st) /\ ~ (k <= Kept(st, i))
  BY <1>1
<1>3. SUFFICES ASSUME st[k].node \in Range(listchain(i)) PROVE FALSE
  OBVIOUS
<1>4. k \in DOMAIN collectors[i] /\ \A m \in 1 .. k : st[m].node = collectors[i][m]
  BY <1>2, <1>3, CommonPath
<1>5. k <= Len(listchain(i)) /\ \A m \in 1 .. k : listchain(i)[m] = collectors[i][m]
  BY <1>4, ChainFacts
<1>6. i # None
  BY OptionsAssumption
<1>7. k <= Len(Needed(i)) /\ \A m \in 1 .. k : st[m].node = Needed(i)[m]
  BY <1>4, <1>5, <1>6 DEF Needed
<1> QED  BY <1>2, <1>7, KeptFacts
-----------------------------------------------------------------------------
(* What a resolution of fixtures does to the stack.                        *)

(* A function on 1 .. n is a sequence of length n.                         *)
LEMMA FunctionIsSeq ==
  ASSUME NEW S, NEW n \in Nat, NEW f \in [1 .. n -> S]
  PROVE  f \in Seq(S) /\ Len(f) = n
  OBVIOUS

(* A concatenation has the members of both sequences.                      *)
LEMMA RangeOfConcat ==
  ASSUME NEW S, NEW s \in Seq(S), NEW t \in Seq(S)
  PROVE  Range(s \o t) = Range(s) \cup Range(t)
<1>1. /\ Len(s) \in Nat /\ Len(t) \in Nat
      /\ DOMAIN s = 1 .. Len(s) /\ DOMAIN t = 1 .. Len(t)
      /\ DOMAIN (s \o t) = 1 .. (Len(s) + Len(t))
      /\ \A k \in 1 .. (Len(s) + Len(t)) :
           (s \o t)[k] = IF k <= Len(s) THEN s[k] ELSE t[k - Len(s)]
  OBVIOUS
<1>2. ASSUME NEW x \in Range(s \o t) PROVE x \in Range(s) \cup Range(t)
  <2>1. PICK k \in 1 .. (Len(s) + Len(t)) : x = (s \o t)[k]
    BY <1>1 DEF Range
  <2>2. CASE k <= Len(s)
    BY <1>1, <2>1, <2>2 DEF Range
  <2>3. CASE ~ (k <= Len(s))
    <3>1. k - Len(s) \in DOMAIN t /\ x = t[k - Len(s)]
      BY <1>1, <2>1, <2>3
    <3> QED  BY <3>1 DEF Range
  <2> QED  BY <2>2, <2>3
<1>3. ASSUME NEW x \in Range(s) PROVE x \in Range(s \o t)
  <2>1. PICK k \in DOMAIN s : x = s[k]
    BY DEF Range
  <2>2. k \in DOMAIN (s \o t) /\ (s \o t)[k] = x
    BY <1>1, <2>1
  <2> QED  BY <2>2 DEF Range
<1>4. ASSUME NEW x \in Range(t) PROVE x \in Range(s \o t)
  <2>1. PICK k \in DOMAIN t : x = t[k]
    BY DEF Range
  <2>2. k + Len(s) \in DOMAIN (s \o t) /\ (s \o t)[k + Len(s)] = x
    BY <1>1, <2>1
  <2> QED  BY <2>2 DEF Range
<1> QED  BY <1>2, <1>3, <1>4

SameNodes(s, t) ==
  /\ t \in Seq(Entries) /\ DOMAIN t = DOMAIN s
  /\ \A k \in DOMAIN s : t[k].node = s[k].node

(* Which FixtureDef an item uses: a clone only for function scope; names   *)
(* never collide.                                                          *)
LEMMA DefFacts ==
  ASSUME NEW f \in Fixtures, NEW i \in Items
  PROVE  /\ Def(f, i) \in Defs
         /\ scope[f] # "function" => Def(f, i) = <<f>>
         /\ scope[f] = "function" /\ i \in cloned => Def(f, i) = <<f, i>>
         /\ scope[f] = "function" /\ i \notin cloned => Def(f, i) = <<f>>
         /\ \A g \in Fixtures : Def(g, i) = Def(f, i) => g = f
  BY DEF Def, Defs

(* The value a fixture would get for an item is an instance, never None or *)
(* Error.                                                                  *)
LEMMA ValueFacts ==
  ASSUME NEW i \in Items, NEW f \in Range(fixturenames[i])
  PROVE  /\ f \in Fixtures /\ Value(f, i) \in Instances
         /\ Value(f, i).def = Def(f, i) /\ Value(f, i).by = i
         /\ Value(f, i).node = NodeFor(f, i)
         /\ Value(f, i) # None /\ Value(f, i) # Error
<1>1. fixturenames[i] \in Seq(Fixtures)
  BY FixturesAssumption
<1>2. f \in Fixtures
  BY <1>1 DEF Range
<1>3. Def(f, i) \in Defs
  BY <1>2, DefFacts
<1>4. NodeFor(f, i) \in Nodes \cup Items
  <2>1. CASE scope[f] = "function"
    BY <2>1 DEF NodeFor
  <2>2. CASE scope[f] # "function"
    <3>1. \E n \in Range(collectors[i]) : kind[n] = scope[f]
      BY <2>2, FixturesAssumption
    <3>2. NodeFor(f, i) \in Range(collectors[i])
      BY <2>2, <3>1 DEF NodeFor
    <3> QED  BY <3>2, ChainFacts DEF Range
  <2> QED  BY <2>1, <2>2
<1>5. Value(f, i) \in Instances
  BY <1>3, <1>4 DEF Value, Instances
<1> QED  BY <1>2, <1>5, ValuesAssumption DEF Value

(* FinsOf lists every missing definition whose node is n.                  *)
LEMMA FinsFacts ==
  ASSUME NEW i \in Items, NEW names \in Seq(Fixtures), NEW n
  PROVE  /\ FinsOf(i, names, n) \in Seq(Defs)
         /\ \A f \in Missing(i, names) : NodeFor(f, i) = n =>
              Def(f, i) \in Range(FinsOf(i, names, n))
<1> DEFINE chosen == {f \in Missing(i, names) : NodeFor(f, i) = n}
           onNode == Among(names, chosen)
<1>1. /\ onNode \in Seq(Fixtures)
      /\ Range(onNode) = {x \in Range(names) : x \in chosen}
  <2> HIDE DEF chosen
  <2> QED  BY AmongFacts
<1>2. FinsOf(i, names, n) = [k \in DOMAIN onNode |-> Def(onNode[k], i)]
  BY DEF FinsOf
<1> HIDE DEF onNode
<1>3. \A k \in DOMAIN onNode : Def(onNode[k], i) \in Defs
  BY <1>1, DefFacts
<1>4. FinsOf(i, names, n) \in Seq(Defs)
  <2>1. DOMAIN onNode = 1 .. Len(onNode) /\ Len(onNode) \in Nat
    BY <1>1
  <2>2. FinsOf(i, names, n) \in [1 .. Len(onNode) -> Defs]
    BY <1>2, <1>3, <2>1
  <2> QED  BY <2>1, <2>2
<1>5. ASSUME NEW f \in Missing(i, names), NodeFor(f, i) = n
      PROVE  Def(f, i) \in Range(FinsOf(i, names, n))
  <2>1. f \in Range(names) /\ f \in chosen
    BY <1>5 DEF Missing
  <2>2. PICK k \in DOMAIN onNode : onNode[k] = f
    BY <1>1, <2>1 DEF Range
  <2> QED  BY <1>2, <2>2 DEF Range
<1> QED  BY <1>4, <1>5

(* The stack after an execution: the same nodes, and the finalizer of each *)
(* definition that was executed on its node.                               *)
LEMMA ExecutedEntry ==
  ASSUME NEW st \in Seq(Entries), NEW i \in Items, NEW wanted \in Seq(Fixtures),
         NEW bad \in Seq(Fixtures), Execution(st, i, wanted, bad)
  PROVE  /\ DOMAIN stack' = DOMAIN st
         /\ stack' = [k \in DOMAIN st |-> stack'[k]]
         /\ \A k \in DOMAIN st :
              /\ stack'[k] \in Entries /\ stack'[k].node = st[k].node
              /\ FinsOf(i, wanted \o bad, st[k].node) \in Seq(Defs)
              /\ stack'[k].fins = st[k].fins \o FinsOf(i, wanted \o bad, st[k].node)
<1> PICK after : after = stack'
  OBVIOUS
<1>1. wanted \o bad \in Seq(Fixtures)
  OBVIOUS
<1>2. after = [k \in DOMAIN st |->
                 [st[k] EXCEPT !.fins = @ \o FinsOf(i, wanted \o bad, st[k].node)]]
  BY DEF Execution
<1>3. ASSUME NEW k \in DOMAIN st
      PROVE  /\ after[k] \in Entries /\ after[k].node = st[k].node
             /\ after[k].fins = st[k].fins \o FinsOf(i, wanted \o bad, st[k].node)
             /\ FinsOf(i, wanted \o bad, st[k].node) \in Seq(Defs)
  <2>1. st[k] \in Entries
    OBVIOUS
  <2>2. FinsOf(i, wanted \o bad, st[k].node) \in Seq(Defs)
    BY <1>1, FinsFacts
  <2>3. after[k] = [st[k] EXCEPT !.fins = @ \o FinsOf(i, wanted \o bad, st[k].node)]
    BY <1>2
  <2>4. st[k].fins \in Seq(Defs) /\ st[k].node \in Nodes \cup Items
    BY <2>1 DEF Entries
  <2>5. st[k].fins \o FinsOf(i, wanted \o bad, st[k].node) \in Seq(Defs)
    BY <2>2, <2>4
  <2> QED  BY <2>1, <2>2, <2>3, <2>4, <2>5 DEF Entries
<1>4. DOMAIN after = DOMAIN st /\ after = [k \in DOMAIN st |-> after[k]]
  BY <1>2
<1> QED  BY <1>3, <1>4

(* Fixtures that are set up leave a finalizer on their node, and no node   *)
(* is added.                                                               *)
LEMMA ExecutedNodes ==
  ASSUME NEW st \in Seq(Entries), NEW i \in Items, NEW wanted \in Seq(Fixtures),
         NEW bad \in Seq(Fixtures), Execution(st, i, wanted, bad)
  PROVE  SameNodes(st, stack')
<1>1. /\ DOMAIN stack' = DOMAIN st
      /\ stack' = [k \in DOMAIN st |-> stack'[k]]
      /\ \A k \in DOMAIN st : stack'[k] \in Entries /\ stack'[k].node = st[k].node
  BY ExecutedEntry
<1>2. DOMAIN st = 1 .. Len(st) /\ Len(st) \in Nat
  OBVIOUS
<1>3. stack' \in [1 .. Len(st) -> Entries]
  BY <1>1, <1>2
<1>4. stack' \in Seq(Entries)
  BY <1>2, <1>3, FunctionIsSeq
<1> QED  BY <1>1, <1>4 DEF SameNodes

(* An execution leaves a finalizer on the node of each definition it set   *)
(* up.                                                                     *)
LEMMA ExecutedFins ==
  ASSUME NEW st \in Seq(Entries), NEW i \in Items, NEW wanted \in Seq(Fixtures),
         NEW bad \in Seq(Fixtures), Execution(st, i, wanted, bad),
         NEW k \in DOMAIN st
  PROVE  /\ Range(st[k].fins) \subseteq Range(stack'[k].fins)
         /\ \A f \in Missing(i, wanted) \cup Missing(i, bad) :
              NodeFor(f, i) = st[k].node => Def(f, i) \in Range(stack'[k].fins)
<1>1. wanted \o bad \in Seq(Fixtures)
  OBVIOUS
<1>2. Range(wanted \o bad) = Range(wanted) \cup Range(bad)
  BY RangeOfConcat
<1> DEFINE own == FinsOf(i, wanted \o bad, st[k].node)
<1>3. own \in Seq(Defs) /\ stack'[k].fins = st[k].fins \o own
  BY ExecutedEntry
<1>4. st[k].fins \in Seq(Defs)
  <2>1. st[k] \in Entries
    OBVIOUS
  <2> QED  BY <2>1 DEF Entries
<1>5. ASSUME NEW f \in Missing(i, wanted) \cup Missing(i, bad), NodeFor(f, i) = st[k].node
      PROVE  Def(f, i) \in Range(own)
  <2>1. f \in Missing(i, wanted \o bad)
    BY <1>2 DEF Missing
  <2> QED  BY <1>1, <1>5, <2>1, FinsFacts
<1> HIDE DEF own
<1>6. Range(st[k].fins \o own) = Range(st[k].fins) \cup Range(own)
  BY <1>3, <1>4, RangeOfConcat
<1> QED  BY <1>3, <1>5, <1>6

-----------------------------------------------------------------------------
(* Whose hands an item is in, and which items are cloned.                  *)

(* The items of this group that passed their hook wait for the workers,    *)
(* each once; only items that main reached are cloned; an item is in a     *)
(* thread only while main is where its group is.                           *)
PlaceInv ==
  /\ mpc \in {"loop"} \cup SeqPlaces => parallel_items = <<>>
  /\ mpc \in GroupPlaces => \A n \in DOMAIN parallel_items :
       \E k \in DOMAIN groups[group_idx] :
         k < idx /\ parallel_items[n] = groups[group_idx][k]
  /\ \A k, n \in DOMAIN parallel_items : parallel_items[k] = parallel_items[n] => k = n
  /\ cloned \subseteq Items
  /\ \A g \in DOMAIN groups : \A k \in DOMAIN groups[g] : groups[g][k] \in cloned =>
       g < group_idx \/ (g = group_idx /\ mpc \notin {"loop"} \cup SeqPlaces)
  /\ mpc \in {"hook", "workers"} => ParallelSet \subseteq cloned
  /\ \A i \in Items :
       /\ wpc[i] = "queued" => mpc \in {"hook", "workers"} /\ i \in ParallelSet
       /\ wpc[i] \in {"setup", "executing"} => mpc = "workers" /\ i \in ParallelSet
       /\ wpc[i] = "call" => \/ mpc = "seqcall" /\ i = item
                             \/ mpc = "workers" /\ i \in ParallelSet

LEMMA PlaceInit == Init => PlaceInv
  BY GroupFacts DEF Init, PlaceInv, SeqPlaces, GroupPlaces

LEMMA PlaceStutter ==
  ASSUME PlaceInv, UNCHANGED <<control, prepared, wpc>>
  PROVE  PlaceInv'
  BY DEF PlaceInv, control, prepared, ParallelSet, item

LEMMA LoopPlace ==
  ASSUME ItemsInv, PlaceInv, EnterGroup \/ RaiseFailed \/ ReturnTrue \/ SessionFinish
  PROVE  PlaceInv'
<1>1. CASE EnterGroup
  BY <1>1 DEF EnterGroup, PlaceInv, ParallelSet, prepared, tests, SeqPlaces, GroupPlaces, Range
<1>2. CASE RaiseFailed
  BY <1>2 DEF RaiseFailed, PlaceInv, ParallelSet, prepared, tests, SeqPlaces, GroupPlaces
<1>3. CASE ReturnTrue
  BY <1>3 DEF ReturnTrue, PlaceInv, ParallelSet, prepared, tests, SeqPlaces, GroupPlaces
<1>4. CASE SessionFinish
  BY <1>4 DEF SessionFinish, PlaceInv, ParallelSet, prepared, tests, SeqPlaces, GroupPlaces
<1> QED  BY <1>1, <1>2, <1>3, <1>4

LEMMA SequentialPlace ==
  ASSUME ItemsInv, PlaceInv, Sequential
  PROVE  PlaceInv'
<1>0. /\ mpc \in SeqPlaces
      /\ group_idx \in DOMAIN groups /\ idx \in DOMAIN groups[group_idx]
      /\ item \in Items /\ wpc \in [Items -> ItemPlaces]
  <2>1. mpc \in SeqPlaces
    BY DEF Sequential, SeqSetup, SeqSetupFails, SeqSkip, SeqCall, SeqTeardown, SeqPlaces
  <2> QED  BY <2>1, ItemTyped DEF ItemsInv, ControlInv
<1>1. ASSUME NEW p \in {"call", "passed", "failed", "skipped", "errored"},
             wpc' = [wpc EXCEPT ![item] = p],
             UNCHANGED <<group_idx, idx, prepared, deferred>>,
             \/ mpc' = "seqteardown" /\ p # "call" /\ mpc \in {"seq", "seqcall"}
             \/ mpc' = "seqcall" /\ p = "call" /\ mpc = "seq"
      PROVE  PlaceInv'
  <2> USE <1>0, <1>1
  <2>1. /\ wpc'[item] = p /\ item' = item
        /\ \A i \in Items : i # item => wpc'[i] = wpc[i]
    BY DEF item
  <2>2. UNCHANGED <<parallel_items, cloned>> /\ ParallelSet' = ParallelSet
    BY DEF prepared, ParallelSet
  <2>3. \A i \in Items : i # item => wpc[i] \notin {"queued", "setup", "executing", "call"}
    BY DEF PlaceInv, SeqPlaces
  <2> QED  BY <2>1, <2>2, <2>3 DEF PlaceInv, SeqPlaces, GroupPlaces
<1>2. CASE SeqSetup
  BY <1>0, <1>1, <1>2 DEF SeqSetup
<1>3. CASE SeqSetupFails
  BY <1>0, <1>1, <1>3 DEF SeqSetupFails
<1>4. CASE SeqSkip
  BY <1>0, <1>1, <1>4 DEF SeqSkip
<1>5. ASSUME NEW outcome \in {"passed", "failed"}, SeqCall(outcome) PROVE PlaceInv'
  BY <1>0, <1>1, <1>5 DEF SeqCall
<1>6. CASE SeqTeardown
  <2>1. /\ mpc = "seqteardown" /\ UNCHANGED <<prepared, wpc>>
        /\ \/ mpc' = "seq" /\ UNCHANGED group_idx
           \/ mpc' = "loop" /\ group_idx' = group_idx + 1
    BY <1>6 DEF SeqTeardown, NextGroup
  <2>2. UNCHANGED <<parallel_items, cloned>> /\ ParallelSet' = ParallelSet
    BY <2>1 DEF prepared, ParallelSet
  <2>3. \A g \in DOMAIN groups : g < group_idx => g < group_idx + 1
    BY <1>0, GroupFacts
  <2> QED  BY <2>1, <2>2, <2>3 DEF PlaceInv, SeqPlaces, GroupPlaces
<1> QED  BY <1>2, <1>3, <1>4, <1>5, <1>6 DEF Sequential

(* What any outcome of a hook does to the places of the items.             *)
LEMMA HookPlace ==
  ASSUME ItemsInv, PlaceInv, HookEntered,
         NEW p \in {"queued", "errored", "skipped"},
         wpc' = [wpc EXCEPT ![item] = p],
         \/ /\ p = "queued" /\ parallel_items' = Append(parallel_items, item)
            /\ cloned' = cloned \cup {item}
         \/ p # "queued" /\ UNCHANGED <<parallel_items, cloned>>
  PROVE  PlaceInv'
<1>0. /\ mpc = "hook" /\ idx' = idx + 1
      /\ UNCHANGED <<mpc, group_idx, deferred, ran>>
      /\ group_idx \in DOMAIN groups /\ idx \in DOMAIN groups[group_idx]
      /\ item \in Items /\ wpc \in [Items -> ItemPlaces] /\ parallel_items \in Seq(Items)
      /\ item = groups[group_idx][idx]
  BY ItemTyped DEF HookEntered, ItemsInv, ControlInv, item
<1>1. /\ wpc'[item] = p
      /\ \A i \in Items : i # item => wpc'[i] = wpc[i]
  BY <1>0
<1>2. /\ Len(parallel_items) \in Nat /\ DOMAIN parallel_items = 1 .. Len(parallel_items)
      /\ \A n \in DOMAIN parallel_items : parallel_items[n] # item
  <2>1. ASSUME NEW n \in DOMAIN parallel_items PROVE parallel_items[n] # item
    <3>1. PICK k \in DOMAIN groups[group_idx] :
            k < idx /\ parallel_items[n] = groups[group_idx][k]
      BY <1>0 DEF PlaceInv, GroupPlaces
    <3>2. k # idx
      BY <1>0, <3>1, GroupFacts
    <3> QED  BY <1>0, <3>1, <3>2, ItemsDiffer
  <2> QED  BY <1>0, <2>1
<1>3. \A k \in DOMAIN groups[group_idx] : k < idx => k < idx + 1
  BY <1>0, GroupFacts
<1>4. idx < idx + 1
  BY <1>0, GroupFacts
<1>5. CASE p = "queued"
  <2>1. /\ parallel_items' = Append(parallel_items, item) /\ cloned' = cloned \cup {item}
    BY <1>5
  <2>2. /\ DOMAIN parallel_items' = 1 .. (Len(parallel_items) + 1)
        /\ \A n \in DOMAIN parallel_items : parallel_items'[n] = parallel_items[n]
        /\ parallel_items'[Len(parallel_items) + 1] = item
    <3>1. parallel_items \in Seq(Items) /\ item \in Items
      BY <1>0
    <3> QED  BY <2>1, <3>1
  <2>3. \A n \in DOMAIN parallel_items' :
          n \in DOMAIN parallel_items \/ n = Len(parallel_items) + 1
    BY <1>2, <2>2
  <2>4. ParallelSet' = ParallelSet \cup {item}
    <3>1. DOMAIN parallel_items' = DOMAIN parallel_items \cup {Len(parallel_items) + 1}
      BY <1>2, <2>2
    <3> QED  BY <2>2, <3>1 DEF ParallelSet, Range
  <2>5. \A n \in DOMAIN parallel_items' :
          \E k \in DOMAIN groups[group_idx] :
            k < idx + 1 /\ parallel_items'[n] = groups[group_idx][k]
    BY <1>0, <1>3, <1>4, <2>2, <2>3 DEF PlaceInv, GroupPlaces
  <2>6. \A k, n \in DOMAIN parallel_items' : parallel_items'[k] = parallel_items'[n] => k = n
    BY <1>2, <2>2, <2>3 DEF PlaceInv
  <2>7. \A g \in DOMAIN groups : \A k \in DOMAIN groups[g] : groups[g][k] \in cloned' =>
          g < group_idx \/ g = group_idx
    BY <1>0, <2>1, ItemsDiffer DEF PlaceInv
  <2> QED
    BY <1>0, <1>1, <1>5, <2>1, <2>4, <2>5, <2>6, <2>7 DEF PlaceInv, SeqPlaces, GroupPlaces
<1>6. CASE p # "queued"
  <2>1. UNCHANGED <<parallel_items, cloned, ParallelSet>>
    BY <1>6 DEF ParallelSet
  <2> QED  BY <1>0, <1>1, <1>3, <1>6, <2>1 DEF PlaceInv, SeqPlaces, GroupPlaces
<1> QED  BY <1>5, <1>6

LEMMA PreparePlace ==
  ASSUME ItemsInv, PlaceInv, Prepare
  PROVE  PlaceInv'
<1>1. CASE Transition
  <2>1. UNCHANGED <<control, cloned, parallel_items, wpc>>
    BY <1>1 DEF Transition, tests
  <2> QED  BY <2>1 DEF PlaceInv, control, ParallelSet, item
<1>2. CASE HookPasses
  BY <1>2, HookPlace DEF HookPasses, Clone
<1>3. CASE HookFails
  BY <1>3, HookPlace DEF HookFails, prepared
<1>4. CASE HookSkips
  BY <1>4, HookPlace DEF HookSkips, prepared
<1>5. CASE PushItems
  <2>1. /\ mpc = "hook" /\ mpc' = "workers" /\ UNCHANGED <<group_idx, idx, prepared, wpc>>
    BY <1>5 DEF PushItems, tests
  <2>2. UNCHANGED <<parallel_items, cloned, ParallelSet>>
    BY <2>1 DEF prepared, ParallelSet
  <2> QED  BY <2>1, <2>2 DEF PlaceInv, SeqPlaces, GroupPlaces
<1> QED  BY <1>1, <1>2, <1>3, <1>4, <1>5 DEF Prepare

LEMMA WorkerPlace ==
  ASSUME ItemsInv, PlaceInv, NEW i \in Items, Worker(i)
  PROVE  PlaceInv'
<1>1. /\ mpc = "workers" /\ i \in ParallelSet /\ UNCHANGED <<control, prepared>>
      /\ \E p \in ItemPlaces \ {"out", "queued"} : wpc' = [wpc EXCEPT ![i] = p]
  <2>1. CASE Take(i)
    <3>1. "setup" \in ItemPlaces \ {"out", "queued"}
      BY DEF ItemPlaces
    <3> QED  BY <2>1, <3>1 DEF Take
  <2>2. CASE CacheHit(i)
    <3>1. wpc = [wpc EXCEPT ![i] = "setup"] /\ wpc[i] = "setup"
      BY <2>2 DEF CacheHit, ItemsInv, ControlInv
    <3>2. /\ mpc = "workers" /\ UNCHANGED <<control, prepared>>
          /\ \/ wpc' = [wpc EXCEPT ![i] = "errored"]
             \/ wpc' = [wpc EXCEPT ![i] = "setup"]
      BY <2>2, <3>1 DEF CacheHit
    <3>3. "setup" \in ItemPlaces \ {"out", "queued"} /\ "errored" \in ItemPlaces \ {"out", "queued"}
      BY DEF ItemPlaces
    <3> QED  BY <3>1, <3>2, <3>3 DEF PlaceInv
  <2>3. CASE CacheMiss(i)
    <3>1. "executing" \in ItemPlaces \ {"out", "queued"}
      BY DEF ItemPlaces
    <3> QED  BY <2>3, <3>1 DEF CacheMiss, PlaceInv
  <2>4. CASE Execute(i)
    <3>1. /\ mpc = "workers" /\ wpc[i] = "executing" /\ UNCHANGED <<control, prepared>>
          /\ \/ wpc' = [wpc EXCEPT ![i] = "setup"]
             \/ wpc' = [wpc EXCEPT ![i] = "broken"]
      BY <2>4 DEF Execute
    <3> QED  BY <3>1 DEF ItemPlaces, PlaceInv
  <2>5. CASE ExecuteRaises(i)
    <3>1. /\ mpc = "workers" /\ wpc[i] = "executing" /\ UNCHANGED <<control, prepared>>
          /\ \/ wpc' = [wpc EXCEPT ![i] = "errored"]
             \/ wpc' = [wpc EXCEPT ![i] = "broken"]
      BY <2>5 DEF ExecuteRaises
    <3> QED  BY <3>1 DEF ItemPlaces, PlaceInv
  <2>6. CASE EnterCall(i)
    <3>1. "call" \in ItemPlaces \ {"out", "queued"}
      BY DEF ItemPlaces
    <3> QED  BY <2>6, <3>1 DEF EnterCall, PlaceInv
  <2>7. ASSUME NEW outcome \in {"passed", "failed"}, LeaveCall(i, outcome)
        PROVE  /\ mpc = "workers" /\ i \in ParallelSet /\ UNCHANGED <<control, prepared>>
               /\ \E p \in ItemPlaces \ {"out", "queued"} : wpc' = [wpc EXCEPT ![i] = p]
    <3>1. outcome \in ItemPlaces \ {"out", "queued"}
      BY DEF ItemPlaces
    <3> QED  BY <2>7, <3>1 DEF LeaveCall, PlaceInv
  <2> QED  BY <2>1, <2>2, <2>3, <2>4, <2>5, <2>6, <2>7 DEF Worker
<1>2. PICK p \in ItemPlaces \ {"out", "queued"} : wpc' = [wpc EXCEPT ![i] = p]
  BY <1>1
<1>3. wpc'[i] = p /\ \A j \in Items : j # i => wpc'[j] = wpc[j]
  BY <1>2 DEF ItemsInv, ControlInv
<1>4. UNCHANGED <<mpc, group_idx, idx, item, parallel_items, cloned, ParallelSet>>
  BY <1>1 DEF control, prepared, item, ParallelSet
<1>5. \A j \in Items :
        /\ wpc'[j] = "queued" => j \in ParallelSet
        /\ wpc'[j] \in {"setup", "executing"} => j \in ParallelSet
        /\ wpc'[j] = "call" => j \in ParallelSet
  BY <1>1, <1>2, <1>3 DEF PlaceInv
<1> QED  BY <1>1, <1>4, <1>5 DEF PlaceInv

LEMMA ClosePlace ==
  ASSUME ItemsInv, PlaceInv, Close
  PROVE  PlaceInv'
<1>1. CASE PopItems
  <2>1. /\ mpc = "workers" /\ mpc' = "teardown_all"
        /\ UNCHANGED <<group_idx, idx, prepared, wpc>>
        /\ \A i \in ParallelSet : wpc[i] \in {"passed", "failed", "broken", "errored"}
    BY <1>1 DEF PopItems, Ended, tests
  <2>2. UNCHANGED <<parallel_items, cloned, ParallelSet>>
    BY <2>1 DEF prepared, ParallelSet
  <2>3. \A i \in Items : wpc[i] \notin {"queued", "setup", "executing", "call"}
    BY <2>1 DEF PlaceInv
  <2> QED  BY <2>1, <2>2, <2>3 DEF PlaceInv, SeqPlaces, GroupPlaces
<1>2. CASE RunFinalizer
  BY <1>2, PlaceStutter DEF RunFinalizer, tests
<1>3. ASSUME NEW raises \in BOOLEAN, TeardownShared(raises) PROVE PlaceInv'
  <2>1. /\ mpc = "teardown_all" /\ mpc' \in {"error", "deferred"}
        /\ UNCHANGED <<group_idx, idx, prepared, wpc>>
    BY <1>3 DEF TeardownShared
  <2>2. UNCHANGED <<parallel_items, cloned, ParallelSet>>
    BY <2>1 DEF prepared, ParallelSet
  <2> QED  BY <2>1, <2>2 DEF PlaceInv, SeqPlaces, GroupPlaces
<1>4. CASE CloseGroup
  <2>1. /\ mpc = "deferred" /\ parallel_items' = <<>>
        /\ \/ mpc' = "loop" /\ group_idx' = group_idx + 1 /\ idx' = 1
           \/ mpc' = "error" /\ UNCHANGED <<group_idx, idx>>
        /\ UNCHANGED <<cloned, wpc>>
    BY <1>4 DEF CloseGroup, NextGroup, tests
  <2>2. group_idx \in Nat /\ DOMAIN groups \subseteq Nat
    BY GroupFacts DEF ItemsInv, ControlInv
  <2>3. \A g \in DOMAIN groups : g < group_idx \/ g = group_idx => g < group_idx + 1
    BY <2>2
  <2> QED  BY <2>1, <2>3 DEF PlaceInv, SeqPlaces, GroupPlaces
<1> QED  BY <1>1, <1>2, <1>3, <1>4 DEF Close

LEMMA PlaceStep == ItemsInv /\ PlaceInv /\ [Next]_vars => PlaceInv'
<1> SUFFICES ASSUME ItemsInv, PlaceInv, [Next]_vars PROVE PlaceInv'
  OBVIOUS
<1>1. CASE Proceed
  BY <1>1, LoopPlace, SequentialPlace, PreparePlace, ClosePlace DEF Proceed
<1>2. CASE \E i \in Items : Worker(i)
  BY <1>2, WorkerPlace
<1>3. CASE UNCHANGED Rest
  BY <1>3, PlaceStutter DEF Rest
<1> QED  BY <1>1, <1>2, <1>3, Steps
-----------------------------------------------------------------------------
(* What is on the stack, at each place of main.                            *)

Distinct(st) == \A k, n \in DOMAIN st : st[k].node = st[n].node => k = n

(* No node is on the stack twice; where main is about to set up an item the *)
(* stack is a path of its collectors, and after phase 1 what is below the  *)
(* pushed items are collectors.                                            *)
StackInv ==
  /\ stack \in Seq(Entries)
  /\ Distinct(stack)
  /\ mpc = "loop" /\ group_idx \in DOMAIN groups =>
       OnPath(stack, collectors[groups[group_idx][1]])
  /\ mpc = "seq" => OnPath(stack, collectors[item])
  /\ mpc \in {"seqcall", "seqteardown"} => OnPath(stack, listchain(item))
  /\ mpc = "hook" /\ idx = 1 => OnPath(stack, collectors[item])
  /\ mpc = "hook" => \E j \in Items : OnPath(stack, collectors[j])
  /\ mpc = "workers" => \A k \in DOMAIN stack : stack[k].node \in Nodes \cup ParallelSet
  /\ mpc = "teardown_all" => \A k \in DOMAIN stack : stack[k].node \notin Items
  /\ mpc = "deferred" /\ group_idx + 1 \in DOMAIN groups =>
       OnPath(stack, collectors[groups[group_idx + 1][1]])

(* Paths and distinctness only depend on the nodes of a stack.             *)
LEMMA SameNodesFacts ==
  ASSUME NEW s, NEW t, SameNodes(s, t)
  PROVE  /\ \A chain : OnPath(s, chain) => OnPath(t, chain)
         /\ Distinct(s) => Distinct(t)
  BY DEF SameNodes, OnPath, Distinct

(* A stack along a chain holds no node twice.                              *)
LEMMA PathDistinct ==
  ASSUME NEW st, NEW i \in Items, OnPath(st, listchain(i)) \/ OnPath(st, collectors[i]),
         DOMAIN st \subseteq Nat \ {0}
  PROVE  /\ Distinct(st) /\ OnPath(st, listchain(i))
         /\ \A k \in DOMAIN st : st[k].node \in Nodes \cup {i}
<1>1. \A k \in DOMAIN st : k \in 1 .. (Len(collectors[i]) + 1) /\ st[k].node = listchain(i)[k]
  <2> SUFFICES ASSUME NEW k \in DOMAIN st
               PROVE  k \in 1 .. (Len(collectors[i]) + 1) /\ st[k].node = listchain(i)[k]
    OBVIOUS
  <2>1. CASE OnPath(st, listchain(i))
    BY <2>1, ChainFacts DEF OnPath
  <2>2. CASE OnPath(st, collectors[i])
    <3>1. k \in DOMAIN collectors[i] /\ st[k].node = collectors[i][k]
      BY <2>2, ChainFacts DEF OnPath
    <3> QED  BY <3>1, ChainFacts
  <2> QED  BY <2>1, <2>2
<1>2. \A k \in 1 .. (Len(collectors[i]) + 1) :
        k \in DOMAIN collectors[i] \/ k = Len(collectors[i]) + 1
  BY ChainFacts
<1>3. \A k, n \in 1 .. (Len(collectors[i]) + 1) :
        listchain(i)[k] = listchain(i)[n] => k = n
  <2> SUFFICES ASSUME NEW k \in 1 .. (Len(collectors[i]) + 1),
                      NEW n \in 1 .. (Len(collectors[i]) + 1),
                      listchain(i)[k] = listchain(i)[n]
               PROVE  k = n
    OBVIOUS
  <2>1. i \notin Nodes
    BY CollectorsAssumption
  <2>2. CASE k \in DOMAIN collectors[i] /\ n \in DOMAIN collectors[i]
    BY <2>2, ChainFacts, TreePath
  <2>3. CASE k = Len(collectors[i]) + 1 /\ n \in DOMAIN collectors[i]
    BY <2>1, <2>3, ChainFacts
  <2>4. CASE n = Len(collectors[i]) + 1 /\ k \in DOMAIN collectors[i]
    BY <2>1, <2>4, ChainFacts
  <2> QED  BY <1>2, <2>2, <2>3, <2>4
<1>4. Distinct(st)
  BY <1>1, <1>3 DEF Distinct
<1>5. OnPath(st, listchain(i))
  BY <1>1, ChainFacts DEF OnPath
<1>6. \A k \in DOMAIN st : st[k].node \in Nodes \cup {i}
  BY <1>1, <1>2, ChainFacts
<1> QED  BY <1>4, <1>5, <1>6

(* What teardown_exact leaves for an item that is not on the stack.        *)
LEMMA NextPath ==
  ASSUME NEW st \in Seq(Entries), NEW next \in Items,
         \A k \in DOMAIN st : st[k].node # next
  PROVE  /\ OnPath(SubSeq(st, 1, Kept(st, next)), collectors[next])
         /\ SubSeq(st, 1, Kept(st, next)) \in Seq(Entries)
<1> DEFINE kept == SubSeq(st, 1, Kept(st, next))
<1>1. next # None /\ Needed(next) = listchain(next)
  BY OptionsAssumption DEF Needed
<1>2. /\ kept \in Seq(Entries) /\ OnPath(kept, listchain(next))
      /\ \A k \in DOMAIN kept : k \in DOMAIN st /\ kept[k] = st[k]
  BY <1>1, KeptPath
<1> HIDE DEF kept
<1>3. ASSUME NEW k \in DOMAIN kept
      PROVE  k <= Len(collectors[next]) /\ kept[k].node = collectors[next][k]
  <2>1. k \in 1 .. (Len(collectors[next]) + 1) /\ kept[k].node = listchain(next)[k]
    BY <1>2, ChainFacts DEF OnPath
  <2>2. k # Len(collectors[next]) + 1
    BY <1>2, <2>1, ChainFacts
  <2>3. k \in DOMAIN collectors[next]
    BY <2>1, <2>2, ChainFacts
  <2> QED  BY <2>1, <2>3, ChainFacts
<1> QED  BY <1>2, <1>3 DEF OnPath, kept

(* The same with nothing next.                                             *)
LEMMA KeptDistinct ==
  ASSUME NEW st \in Seq(Entries), NEW next \in Items \cup {None}, Distinct(st)
  PROVE  /\ SubSeq(st, 1, Kept(st, next)) \in Seq(Entries)
         /\ Distinct(SubSeq(st, 1, Kept(st, next)))
  BY KeptPath DEF Distinct

LEMMA StackInit == Init => StackInv
<1> SUFFICES ASSUME Init PROVE StackInv
  OBVIOUS
<1>1. stack = <<>> /\ stack \in Seq(Entries) /\ DOMAIN stack = {}
  BY DEF Init
<1> QED  BY <1>1 DEF Init, StackInv, Distinct, OnPath

LEMMA LoopStack ==
  ASSUME ItemsInv, StackInv, EnterGroup \/ RaiseFailed \/ ReturnTrue \/ SessionFinish
  PROVE  StackInv'
<1>1. CASE EnterGroup
  <2>1. /\ mpc = "loop" /\ mpc' \in {"seq", "hook"} /\ UNCHANGED <<group_idx, idx, stack>>
    BY <1>1 DEF EnterGroup, caches
  <2>2. group_idx \in DOMAIN groups /\ idx = 1
    BY <1>1, <2>1, GroupFacts DEF EnterGroup, ItemsInv, ControlInv
  <2>3. item' = groups[group_idx][1] /\ groups[group_idx][1] \in Items
    BY <2>1, <2>2, GroupFacts DEF item
  <2>4. OnPath(stack, collectors[groups[group_idx][1]])
    BY <2>1, <2>2 DEF StackInv
  <2> QED  BY <2>1, <2>3, <2>4 DEF StackInv
<1>2. CASE RaiseFailed \/ ReturnTrue
  BY <1>2 DEF RaiseFailed, ReturnTrue, caches, StackInv
<1>3. CASE SessionFinish
  <2>1. stack' = SubSeq(stack, 1, Kept(stack, None)) /\ mpc' = "finished"
    BY <1>3 DEF SessionFinish, TeardownExact
  <2>2. stack' \in Seq(Entries) /\ Distinct(stack')
    BY <2>1, KeptDistinct DEF StackInv
  <2> QED  BY <2>1, <2>2 DEF StackInv
<1> QED  BY <1>1, <1>2, <1>3

(* What a hook populates are names of the item's own closure, none of      *)
(* function scope.                                                         *)
LEMMA NamesTyped ==
  ASSUME NEW i \in Items
  PROVE  /\ fixturenames[i] \in Seq(Fixtures)
         /\ ToPopulate(i) \in Seq(Fixtures)
         /\ Range(ToPopulate(i)) \subseteq {f \in Range(fixturenames[i]) : scope[f] # "function"}
<1>1. fixturenames[i] \in Seq(Fixtures)
  BY FixturesAssumption
<1>2. /\ SharedNames(i) \in Seq(Fixtures)
      /\ Range(SharedNames(i)) = {x \in Range(fixturenames[i]) :
                                    x \in {f \in Fixtures : scope[f] # "function"}}
  BY <1>1, AmongFacts DEF SharedNames
<1>3. <<>> \in Seq(Fixtures) /\ Range(<<>>) = {}
  BY DEF Range
<1> QED  BY <1>1, <1>2, <1>3 DEF ToPopulate

(* SetupState.setup of an item in the sequential loop pushes the item too. *)
LEMMA WithItem ==
  ASSUME NEW st \in Seq(Entries), NEW i \in Items, OnPath(st, collectors[i])
  PROVE  LET full == Append(Pushed(st, i), [node |-> i, fins |-> <<>>])
         IN  /\ full \in Seq(Entries) /\ Len(full) = Len(collectors[i]) + 1
             /\ OnPath(full, listchain(i))
             /\ full[Len(collectors[i]) + 1].node = i
<1> DEFINE entry == [node |-> i, fins |-> <<>>]
           full == Append(Pushed(st, i), entry)
<1>1. /\ Pushed(st, i) \in Seq(Entries) /\ Len(Pushed(st, i)) = Len(collectors[i])
      /\ \A k \in DOMAIN collectors[i] : Pushed(st, i)[k].node = collectors[i][k]
  BY PushedFacts
<1>2. entry \in Entries /\ entry.node = i
  <2>1. <<>> \in Seq(Defs)
    OBVIOUS
  <2> QED  BY <2>1 DEF Entries
<1> HIDE DEF entry
<1>3. /\ full \in Seq(Entries) /\ Len(full) = Len(collectors[i]) + 1
      /\ DOMAIN full = 1 .. (Len(collectors[i]) + 1)
      /\ \A k \in 1 .. Len(collectors[i]) : full[k] = Pushed(st, i)[k]
      /\ full[Len(collectors[i]) + 1] = entry
  BY <1>1, <1>2, ChainFacts
<1> HIDE DEF full
<1>4. ASSUME NEW k \in DOMAIN full
      PROVE  k <= Len(listchain(i)) /\ full[k].node = listchain(i)[k]
  <2>1. k \in 1 .. (Len(collectors[i]) + 1) /\ k <= Len(listchain(i))
    BY <1>3, ChainFacts
  <2>2. CASE k \in DOMAIN collectors[i]
    BY <1>1, <1>3, <2>2, ChainFacts
  <2>3. CASE k = Len(collectors[i]) + 1
    BY <1>2, <1>3, <2>3, ChainFacts
  <2>4. k \in DOMAIN collectors[i] \/ k = Len(collectors[i]) + 1
    BY <2>1, ChainFacts
  <2> QED  BY <2>1, <2>2, <2>3, <2>4
<1>5. OnPath(full, listchain(i))
  BY <1>4 DEF OnPath
<1> QED  BY <1>2, <1>3, <1>5 DEF full, entry
(* What is next is not the item itself.                                    *)
LEMMA NextItemFacts ==
  ASSUME ItemsInv, mpc \in SeqPlaces
  PROVE  /\ nextitem \in Items \cup {None} /\ nextitem # item
         /\ idx < Len(groups[group_idx]) => nextitem = groups[group_idx][idx + 1]
         /\ ~ (idx < Len(groups[group_idx])) /\ group_idx + 1 \in DOMAIN groups
              => nextitem = groups[group_idx + 1][1]
         /\ nextitem = None <=>
              ~ (idx < Len(groups[group_idx])) /\ group_idx + 1 \notin DOMAIN groups
<1>1. /\ group_idx \in DOMAIN groups /\ idx \in DOMAIN groups[group_idx] /\ item \in Items
      /\ item = groups[group_idx][idx]
  BY ItemTyped DEF ItemsInv, item
<1>2. None \notin Items
  BY OptionsAssumption
<1>3. CASE idx < Len(groups[group_idx])
  <2>1. idx + 1 \in DOMAIN groups[group_idx] /\ idx + 1 # idx
    BY <1>1, <1>3, GroupFacts
  <2>2. nextitem = groups[group_idx][idx + 1]
    BY <1>3 DEF nextitem
  <2>3. groups[group_idx][idx + 1] # item
    BY <1>1, <2>1, ItemsDiffer
  <2>4. groups[group_idx][idx + 1] \in Items
    BY <1>1, <2>1, GroupFacts
  <2> QED  BY <1>2, <1>3, <2>2, <2>3, <2>4
<1>4. CASE ~ (idx < Len(groups[group_idx]))
  <2>1. nextitem = next_group_first
    BY <1>4 DEF nextitem
  <2>2. group_idx < Len(groups) <=> group_idx + 1 \in DOMAIN groups
    BY <1>1, GroupFacts
  <2>3. CASE group_idx + 1 \in DOMAIN groups
    <3>1. /\ 1 \in DOMAIN groups[group_idx + 1] /\ group_idx + 1 # group_idx
          /\ groups[group_idx + 1][1] \in Items
      BY <1>1, <2>3, GroupFacts
    <3>2. nextitem = groups[group_idx + 1][1]
      BY <2>1, <2>2, <2>3 DEF next_group_first
    <3>3. groups[group_idx + 1][1] # item
      BY <1>1, <2>3, <3>1, ItemsDiffer
    <3> QED  BY <1>2, <1>4, <2>3, <3>1, <3>2, <3>3
  <2>4. CASE group_idx + 1 \notin DOMAIN groups
    <3>1. nextitem = None
      BY <2>1, <2>2, <2>4 DEF next_group_first
    <3> QED  BY <1>1, <1>2, <1>4, <2>4, <3>1
  <2> QED  BY <2>3, <2>4
<1> QED  BY <1>3, <1>4

(* Resolving fixtures adds finalizers to the stack, no nodes.              *)
LEMMA ResolvedNodes ==
  ASSUME NEW st \in Seq(Entries), NEW i \in Items, NEW wanted \in Seq(Fixtures),
         Resolve(st, i, wanted) \/ ResolveFails(st, i, wanted)
  PROVE  SameNodes(st, stack')
<1>1. CASE Resolve(st, i, wanted)
  <2>1. Execution(st, i, wanted, <<>>) /\ <<>> \in Seq(Fixtures)
    BY <1>1 DEF Resolve
  <2> QED  BY <2>1, ExecutedNodes
<1>2. CASE ResolveFails(st, i, wanted)
  <2>1. PICK n \in DOMAIN wanted :
          Execution(st, i, SubSeq(wanted, 1, n - 1), <<wanted[n]>>)
    BY <1>2 DEF ResolveFails
  <2>2. n \in 1 .. Len(wanted) /\ Len(wanted) \in Nat
    OBVIOUS
  <2>3. SubSeq(wanted, 1, n - 1) \in Seq(Fixtures) /\ <<wanted[n]>> \in Seq(Fixtures)
    BY <2>2
  <2> QED  BY <2>1, <2>3, ExecutedNodes
<1> QED  BY <1>1, <1>2

LEMMA SequentialStack ==
  ASSUME ItemsInv, StackInv, Sequential
  PROVE  StackInv'
<1>0. /\ mpc \in SeqPlaces
      /\ group_idx \in DOMAIN groups /\ idx \in DOMAIN groups[group_idx]
      /\ item \in Items
  <2>1. mpc \in SeqPlaces
    BY DEF Sequential, SeqSetup, SeqSetupFails, SeqSkip, SeqCall, SeqTeardown, SeqPlaces
  <2> QED  BY <2>1, ItemTyped DEF ItemsInv
<1>1. ASSUME mpc = "seq", mpc' \in {"seqcall", "seqteardown"}, UNCHANGED <<group_idx, idx>>,
             LET st == Append(Pushed(stack, item), [node |-> item, fins |-> <<>>])
             IN  Resolve(st, item, fixturenames[item]) \/ ResolveFails(st, item, fixturenames[item])
      PROVE  StackInv'
  <2> PICK i \in Items : i = item
    BY <1>0
  <2> PICK st : st = Append(Pushed(stack, i), [node |-> i, fins |-> <<>>])
    OBVIOUS
  <2>1. st \in Seq(Entries) /\ OnPath(st, listchain(i))
    BY <1>1, WithItem DEF StackInv
  <2>2. Resolve(st, i, fixturenames[i]) \/ ResolveFails(st, i, fixturenames[i])
    BY <1>1
  <2>3. fixturenames[i] \in Seq(Fixtures)
    BY NamesTyped
  <2>5. SameNodes(st, stack')
    BY <2>1, <2>2, <2>3, ResolvedNodes
  <2>6. stack' \in Seq(Entries) /\ OnPath(stack', listchain(i))
    BY <2>1, <2>5, SameNodesFacts DEF SameNodes
  <2>7. Distinct(stack')
    <3>1. DOMAIN stack' \subseteq Nat \ {0}
      BY <2>6
    <3> QED  BY <2>6, <3>1, PathDistinct
  <2>8. item' = i
    BY <1>1 DEF item
  <2> QED  BY <1>1, <2>6, <2>7, <2>8 DEF StackInv
<1>2. CASE SeqSetup
  BY <1>1, <1>2 DEF SeqSetup
<1>3. CASE SeqSetupFails
  BY <1>1, <1>3 DEF SeqSetupFails
<1>4. ASSUME mpc \in {"seq", "seqcall"}, mpc' = "seqteardown",
             UNCHANGED <<stack, group_idx, idx>>
      PROVE  StackInv'
  <2>1. item' = item
    BY <1>4 DEF item
  <2>2. OnPath(stack, listchain(item))
    <3>1. CASE mpc = "seq"
      <4>1. DOMAIN stack \subseteq Nat \ {0}
        BY DEF StackInv
      <4> QED  BY <1>0, <3>1, <4>1, PathDistinct DEF StackInv
    <3>2. CASE mpc = "seqcall"
      BY <3>2 DEF StackInv
    <3> QED  BY <1>4, <3>1, <3>2
  <2> QED  BY <1>4, <2>1, <2>2 DEF StackInv
<1>5. CASE SeqSkip
  BY <1>4, <1>5 DEF SeqSkip, caches
<1>6. ASSUME NEW outcome \in {"passed", "failed"}, SeqCall(outcome) PROVE StackInv'
  BY <1>4, <1>6 DEF SeqCall, caches
<1>7. CASE SeqTeardown
  <2>1. /\ mpc = "seqteardown"
        /\ stack' = SubSeq(stack, 1, Kept(stack, nextitem))
        /\ IF idx < Len(groups[group_idx])
           THEN mpc' = "seq" /\ idx' = idx + 1 /\ UNCHANGED group_idx
           ELSE mpc' = "loop" /\ group_idx' = group_idx + 1
    BY <1>7 DEF SeqTeardown, TeardownExact, NextGroup
  <2>2. stack \in Seq(Entries) /\ Distinct(stack) /\ OnPath(stack, listchain(item))
    BY <2>1 DEF StackInv
  <2>3. /\ nextitem \in Items \cup {None} /\ nextitem # item
    BY <1>0, NextItemFacts
  <2>4. stack' \in Seq(Entries) /\ Distinct(stack')
    BY <2>1, <2>2, <2>3, KeptDistinct
  <2>5. \A k \in DOMAIN stack : stack[k].node \in Nodes \cup {item}
    <3>1. DOMAIN stack \subseteq Nat \ {0}
      BY <2>2
    <3> QED  BY <1>0, <2>2, <3>1, PathDistinct
  <2>6. nextitem # None => OnPath(stack', collectors[nextitem])
    <3>1. nextitem # None => \A k \in DOMAIN stack : stack[k].node # nextitem
      BY <2>3, <2>5, CollectorsAssumption
    <3> QED  BY <2>1, <2>2, <2>3, <3>1, NextPath
  <2>7. CASE idx < Len(groups[group_idx])
    <3>1. nextitem = groups[group_idx][idx + 1] /\ nextitem # None
      BY <1>0, <2>7, NextItemFacts
    <3>2. mpc' = "seq" /\ item' = groups[group_idx][idx + 1]
      BY <2>1, <2>7 DEF item
    <3> QED  BY <2>4, <2>6, <3>1, <3>2 DEF StackInv
  <2>8. CASE ~ (idx < Len(groups[group_idx]))
    <3>1. mpc' = "loop" /\ group_idx' = group_idx + 1
      BY <2>1, <2>8
    <3>2. group_idx + 1 \in DOMAIN groups =>
            nextitem = groups[group_idx + 1][1] /\ nextitem # None
      BY <1>0, <2>8, NextItemFacts
    <3> QED  BY <2>4, <2>6, <3>1, <3>2 DEF StackInv
  <2> QED  BY <2>7, <2>8
<1> QED  BY <1>2, <1>3, <1>5, <1>6, <1>7 DEF Sequential

(* In the hook loop, the stack is a path of the item's collectors once     *)
(* nothing is stale.                                                       *)
LEMMA HookPath ==
  ASSUME ItemsInv, StackInv, HookEntered
  PROVE  /\ item \in Items /\ OnPath(stack, collectors[item])
         /\ group_idx \in DOMAIN groups /\ idx \in DOMAIN groups[group_idx]
<1>1. /\ group_idx \in DOMAIN groups /\ idx \in DOMAIN groups[group_idx]
      /\ item \in Items /\ mpc = "hook"
      /\ \A k \in DOMAIN stack : stack[k].node \in Range(listchain(item))
  BY ItemTyped DEF HookEntered, ItemsInv, Stale
<1>2. PICK j \in Items : OnPath(stack, collectors[j])
  BY <1>1 DEF StackInv
<1>3. stack \in Seq(Entries)
  BY DEF StackInv
<1> QED  BY <1>1, <1>2, <1>3, NoStalePath

(* What any outcome of a hook does to the stack.                           *)
LEMMA HookStack ==
  ASSUME ItemsInv, StackInv, HookEntered,
         \/ Resolve(Pushed(stack, item), item, ToPopulate(item))
         \/ ResolveFails(Pushed(stack, item), item, ToPopulate(item))
         \/ UNCHANGED stack
  PROVE  StackInv'
<1>1. item \in Items /\ OnPath(stack, collectors[item])
  BY HookPath
<1>2. mpc' = "hook" /\ idx' # 1
  <2>1. idx' = idx + 1 /\ idx \in Nat \ {0} /\ mpc' = "hook"
    BY DEF HookEntered, ItemsInv, ControlInv
  <2> QED  BY <2>1
<1>3. CASE UNCHANGED stack
  BY <1>1, <1>2, <1>3 DEF StackInv
<1>4. CASE \/ Resolve(Pushed(stack, item), item, ToPopulate(item))
           \/ ResolveFails(Pushed(stack, item), item, ToPopulate(item))
  <2> PICK i \in Items : i = item
    BY <1>1
  <2> PICK st : st = Pushed(stack, i)
    OBVIOUS
  <2>1. st \in Seq(Entries) /\ OnPath(st, collectors[i])
    <3>1. /\ st \in Seq(Entries) /\ Len(st) = Len(collectors[i])
          /\ \A k \in DOMAIN collectors[i] : st[k].node = collectors[i][k]
      BY <1>1, PushedFacts DEF StackInv
    <3>2. DOMAIN st = DOMAIN collectors[i] /\ DOMAIN st = 1 .. Len(collectors[i])
      BY <3>1, ChainFacts
    <3> QED  BY <3>1, <3>2, ChainFacts DEF OnPath
  <2>2. Resolve(st, i, ToPopulate(i)) \/ ResolveFails(st, i, ToPopulate(i))
    BY <1>4
  <2>3. ToPopulate(i) \in Seq(Fixtures)
    BY NamesTyped
  <2>5. SameNodes(st, stack')
    BY <2>1, <2>2, <2>3, ResolvedNodes
  <2>6. stack' \in Seq(Entries) /\ OnPath(stack', collectors[i])
    BY <2>1, <2>5, SameNodesFacts DEF SameNodes
  <2>7. Distinct(stack')
    <3>1. DOMAIN stack' \subseteq Nat \ {0}
      BY <2>6
    <3> QED  BY <2>6, <3>1, PathDistinct
  <2> QED  BY <1>2, <2>6, <2>7 DEF StackInv
<1> QED  BY <1>3, <1>4

(* A transition pops what is not of the next item's chain, and nothing     *)
(* else: the stack left is the whole path they share.                      *)
Cleared == [k \in DOMAIN stack |->
              IF Stale(k) THEN [stack[k] EXCEPT !.fins = <<>>] ELSE stack[k]]

(* A transition pops what is not on the item's chain, and it has no        *)
(* finalizers left.                                                        *)
LEMMA TransitionFacts ==
  ASSUME ItemsInv, StackInv, Transition
  PROVE  /\ mpc = "hook" /\ item \in Items
         /\ Cleared \in Seq(Entries) /\ SameNodes(stack, Cleared)
         /\ \E j \in Items : OnPath(Cleared, collectors[j])
         /\ stack' = SubSeq(Cleared, 1, Kept(Cleared, item))
         /\ \A k \in (Kept(Cleared, item) + 1) .. Len(Cleared) : Cleared[k].fins = <<>>
<1>1. mpc = "hook" /\ item \in Items /\ TeardownExact(Cleared, item)
  BY ItemTyped DEF Transition, ItemsInv, Cleared
<1>2. stack \in Seq(Entries) /\ DOMAIN stack = 1 .. Len(stack) /\ Len(stack) \in Nat
  BY DEF StackInv
<1>3. ASSUME NEW k \in DOMAIN stack
      PROVE  /\ Cleared[k] \in Entries /\ Cleared[k].node = stack[k].node
             /\ stack[k].node \notin Range(listchain(item)) => Cleared[k].fins = <<>>
  <2>1. stack[k] \in Entries /\ <<>> \in Seq(Defs)
    BY <1>2
  <2> QED  BY <2>1 DEF Cleared, Entries, Stale
<1>4. DOMAIN Cleared = DOMAIN stack
  BY DEF Cleared
<1>5. Cleared \in Seq(Entries) /\ Len(Cleared) = Len(stack)
  <2>1. Cleared \in [1 .. Len(stack) -> Entries]
    BY <1>2, <1>3, <1>4 DEF Cleared
  <2> QED  BY <1>2, <2>1, FunctionIsSeq
<1>6. SameNodes(stack, Cleared)
  BY <1>3, <1>4, <1>5 DEF SameNodes
<1>7. PICK j \in Items : OnPath(Cleared, collectors[j])
  BY <1>1, <1>6, SameNodesFacts DEF StackInv
<1>8. stack' = SubSeq(Cleared, 1, Kept(Cleared, item))
  BY <1>1 DEF TeardownExact
<1>9. ASSUME NEW k \in (Kept(Cleared, item) + 1) .. Len(Cleared)
      PROVE  Cleared[k].fins = <<>>
  <2>1. Cleared[k].node \notin Range(listchain(item))
    BY <1>1, <1>5, <1>7, AboveKeptIsStale
  <2>2. k \in DOMAIN stack
    BY <1>1, <1>2, <1>5, KeptFacts
  <2> QED  BY <1>3, <2>1, <2>2
<1> QED  BY <1>1, <1>5, <1>6, <1>7, <1>8, <1>9

(* The elements of a concatenation, by position.                           *)
LEMMA ConcatFacts ==
  ASSUME NEW S, NEW s \in Seq(S), NEW t \in Seq(S)
  PROVE  /\ s \o t \in Seq(S)
         /\ DOMAIN (s \o t) = 1 .. (Len(s) + Len(t))
         /\ \A k \in DOMAIN (s \o t) :
              (s \o t)[k] = IF k <= Len(s) THEN s[k] ELSE t[k - Len(s)]
  OBVIOUS

LEMMA PrepareStack ==
  ASSUME ItemsInv, PlaceInv, StackInv, Prepare
  PROVE  StackInv'
<1>1. CASE Transition
  <2>1. /\ mpc = "hook" /\ item \in Items
        /\ Cleared \in Seq(Entries) /\ SameNodes(stack, Cleared)
        /\ stack' = SubSeq(Cleared, 1, Kept(Cleared, item))
    BY <1>1, TransitionFacts
  <2>2. PICK j \in Items : OnPath(Cleared, collectors[j])
    BY <1>1, TransitionFacts
  <2>3. UNCHANGED <<mpc, group_idx, idx, item>>
    BY <1>1 DEF Transition, control, item
  <2>4. \A k \in DOMAIN Cleared : Cleared[k].node \in Nodes
    <3>1. \A k \in DOMAIN Cleared : k \in Nat \ {0}
      BY <2>1
    <3>2. \A k \in DOMAIN Cleared :
            k \in DOMAIN collectors[j] /\ Cleared[k].node = collectors[j][k]
      BY <2>2, <3>1, ChainFacts DEF OnPath
    <3> QED  BY <3>2, ChainFacts
  <2>5. \A k \in DOMAIN Cleared : Cleared[k].node # item
    <3>1. item \notin Nodes
      BY <2>1, CollectorsAssumption
    <3> QED  BY <2>4, <3>1
  <2>6. stack' \in Seq(Entries) /\ OnPath(stack', collectors[item])
    BY <2>1, <2>5, NextPath
  <2>7. Distinct(stack')
    <3>1. DOMAIN stack' \subseteq Nat \ {0}
      BY <2>6
    <3> QED  BY <2>1, <2>6, <3>1, PathDistinct
  <2> QED  BY <2>1, <2>3, <2>6, <2>7 DEF StackInv
<1>2. CASE HookPasses
  BY <1>2, HookStack DEF HookPasses
<1>3. CASE HookFails
  BY <1>3, HookStack DEF HookFails
<1>4. CASE HookSkips
  BY <1>4, HookStack DEF HookSkips, caches
<1>5. CASE PushItems
  <2> DEFINE items == [k \in DOMAIN parallel_items |-> [node |-> parallel_items[k], fins |-> <<>>]]
  <2>1. /\ mpc = "hook" /\ mpc' = "workers" /\ stack' = stack \o items
        /\ ParallelSet' = ParallelSet
    BY <1>5 DEF PushItems, prepared, ParallelSet
  <2>2. /\ parallel_items \in Seq(Items) /\ Len(parallel_items) \in Nat
        /\ DOMAIN parallel_items = 1 .. Len(parallel_items)
    BY DEF ItemsInv, ControlInv
  <2>3. items \in Seq(Entries) /\ Len(items) = Len(parallel_items)
    <3>1. \A k \in 1 .. Len(parallel_items) : items[k] \in Entries
      <4> SUFFICES ASSUME NEW k \in 1 .. Len(parallel_items)
                   PROVE  [node |-> parallel_items[k], fins |-> <<>>] \in Entries
        BY <2>2
      <4>1. <<>> \in Seq(Defs) /\ parallel_items[k] \in Items
        BY <2>2
      <4> QED  BY <4>1 DEF Entries
    <3>2. items \in [1 .. Len(parallel_items) -> Entries]
      BY <2>2, <3>1
    <3> QED  BY <2>2, <3>2, FunctionIsSeq
  <2>4. \A k \in 1 .. Len(parallel_items) : items[k].node = parallel_items[k]
    BY <2>2
  <2> HIDE DEF items
  <2>5. stack \in Seq(Entries) /\ Len(stack) \in Nat /\ DOMAIN stack = 1 .. Len(stack)
    BY DEF StackInv
  <2>6. \A k \in DOMAIN stack : stack[k].node \in Nodes
    <3>1. PICK j \in Items : OnPath(stack, collectors[j])
      BY <2>1 DEF StackInv
    <3> QED  BY <2>5, <3>1, ChainFacts DEF OnPath
  <2>7. /\ stack' \in Seq(Entries)
        /\ DOMAIN stack' = 1 .. (Len(stack) + Len(parallel_items))
        /\ \A k \in DOMAIN stack' :
             stack'[k] = IF k <= Len(stack) THEN stack[k] ELSE items[k - Len(stack)]
    BY <2>1, <2>2, <2>3, <2>5, ConcatFacts
  <2>8. ASSUME NEW k \in DOMAIN stack'
        PROVE  \/ k \in DOMAIN stack /\ stack'[k] = stack[k] /\ stack'[k].node \in Nodes
               \/ /\ k - Len(stack) \in DOMAIN parallel_items
                  /\ stack'[k].node = parallel_items[k - Len(stack)]
                  /\ stack'[k].node \in Items /\ stack'[k].node \in ParallelSet
    <3>1. CASE k <= Len(stack)
      BY <2>5, <2>6, <2>7, <3>1
    <3>2. CASE ~ (k <= Len(stack))
      <4>1. k - Len(stack) \in 1 .. Len(parallel_items)
        BY <2>2, <2>5, <2>7, <3>2
      <4>2. stack'[k].node = parallel_items[k - Len(stack)]
        BY <2>4, <2>7, <3>2, <4>1
      <4> QED  BY <2>2, <4>1, <4>2 DEF ParallelSet, Range
    <3> QED  BY <3>1, <3>2
  <2>9. Distinct(stack')
    <3> SUFFICES ASSUME NEW k \in DOMAIN stack', NEW n \in DOMAIN stack',
                        stack'[k].node = stack'[n].node
                 PROVE  k = n
      BY DEF Distinct
    <3>1. CASE stack'[k].node \in Nodes
      BY <2>8, <3>1, CollectorsAssumption DEF StackInv, Distinct
    <3>2. CASE stack'[k].node \notin Nodes
      <4>1. /\ k - Len(stack) \in DOMAIN parallel_items
            /\ n - Len(stack) \in DOMAIN parallel_items
            /\ parallel_items[k - Len(stack)] = parallel_items[n - Len(stack)]
        BY <2>8, <3>2
      <4>2. k - Len(stack) = n - Len(stack)
        BY <4>1 DEF PlaceInv
      <4> QED  BY <2>5, <2>7, <2>2, <4>2
    <3> QED  BY <3>1, <3>2
  <2> QED  BY <2>1, <2>7, <2>8, <2>9 DEF StackInv
<1> QED  BY <1>1, <1>2, <1>3, <1>4, <1>5 DEF Prepare

(* A worker that executes a fixture has one whose value is missing.        *)
NextInv ==
  /\ DOMAIN funcargs = Items
  /\ \A i \in Items : wpc[i] = "executing" => Unresolved(i) # {}

(* The name a worker asks for next is one of its item's that has no value  *)
(* yet.                                                                    *)
LEMMA NextNameFacts ==
  ASSUME NEW i \in Items, Unresolved(i) # {}
  PROVE  /\ NextName(i) \in Range(fixturenames[i]) /\ NextName(i) \in Fixtures
         /\ Def(NextName(i), i) \in Defs
         /\ funcargs[i][NextName(i)] = None
<1> PICK names : names = fixturenames[i]
  OBVIOUS
<1>1. names \in Seq(Fixtures)
  BY FixturesAssumption
<1>2. Unresolved(i) = {k \in DOMAIN names : funcargs[i][names[k]] = None}
  BY DEF Unresolved
<1>3. Unresolved(i) \in SUBSET Nat
  BY <1>1, <1>2
<1>4. PICK k \in Unresolved(i) : 
          k = CHOOSE m \in Unresolved(i) : \A n \in Unresolved(i) : m <= n
  BY <1>3, SmallestMember
<1>5. NextName(i) = names[k] /\ k \in DOMAIN names /\ funcargs[i][names[k]] = None
  BY <1>2, <1>4 DEF NextName
<1>6. NextName(i) \in Range(names) /\ NextName(i) \in Fixtures
  BY <1>1, <1>5 DEF Range
<1> QED  BY <1>5, <1>6, DefFacts

LEMMA MainValues ==
  ASSUME DOMAIN funcargs = Items, Proceed
  PROVE  DOMAIN funcargs' = Items
<1>1. ASSUME NEW st, NEW i, NEW wanted, NEW bad, Execution(st, i, wanted, bad)
      PROVE  DOMAIN funcargs' = Items
  BY <1>1 DEF Execution
<1>2. ASSUME NEW st, NEW i, NEW wanted, Resolve(st, i, wanted) \/ ResolveFails(st, i, wanted)
      PROVE  DOMAIN funcargs' = Items
  BY <1>1, <1>2 DEF Resolve, ResolveFails
<1>3. CASE Sequential
  BY <1>2, <1>3 DEF Sequential, SeqSetup, SeqSetupFails, SeqSkip, SeqCall, SeqTeardown
<1>4. CASE Prepare
  BY <1>2, <1>4 DEF Prepare, Transition, HookPasses, HookFails, HookSkips, PushItems, tests
<1>5. CASE Close
  BY <1>5 DEF Close, PopItems, TeardownShared, RunFinalizer, CloseGroup, tests
<1>6. CASE EnterGroup \/ RaiseFailed \/ ReturnTrue \/ SessionFinish
  BY <1>6 DEF EnterGroup, RaiseFailed, ReturnTrue, SessionFinish, tests
<1> QED  BY <1>3, <1>4, <1>5, <1>6 DEF Proceed

LEMMA NextStep ==
  ASSUME PlaceInv, PlaceInv', ItemsInv, NextInv, [Next]_vars
  PROVE  NextInv'
<1>1. DOMAIN funcargs' = Items
  <2>1. DOMAIN funcargs = Items
    BY DEF NextInv
  <2>2. CASE Proceed
    BY <2>1, <2>2, MainValues
  <2>3. ASSUME NEW j \in Items, Worker(j) PROVE DOMAIN funcargs' = Items
    BY <2>1, <2>3 DEF Worker, Take, CacheHit, CacheMiss, Execute, ExecuteRaises, EnterCall, LeaveCall
  <2>4. CASE UNCHANGED Rest
    BY <2>1, <2>4 DEF Rest
  <2> QED  BY <2>2, <2>3, <2>4, Steps
<1>2. ASSUME NEW i \in Items, wpc'[i] = "executing"
      PROVE  Unresolved(i)' # {}
  <2>0. ASSUME wpc[i] = "executing", funcargs'[i] = funcargs[i] PROVE Unresolved(i)' # {}
    <3>1. Unresolved(i)' = Unresolved(i)
      BY <2>0 DEF Unresolved
    <3> QED  BY <2>0, <3>1 DEF NextInv
  <2>1. mpc' = "workers"
    BY <1>2 DEF PlaceInv
  <2>2. CASE Proceed
    <3>1. PushItems
      BY <2>1, <2>2 DEF Proceed, EnterGroup, RaiseFailed, ReturnTrue, SessionFinish, Sequential,
         SeqSetup, SeqSetupFails, SeqSkip, SeqCall, SeqTeardown, NextGroup, Prepare, Transition,
         HookPasses, HookFails, HookSkips, HookEntered, Close, PopItems, TeardownShared,
         RunFinalizer, CloseGroup, control
    <3> QED  BY <1>2, <2>0, <3>1 DEF PushItems, tests
  <2>3. ASSUME NEW j \in Items, Worker(j) PROVE Unresolved(i)' # {}
    <3>1. wpc \in [Items -> ItemPlaces] /\ DOMAIN funcargs = Items
      BY DEF ItemsInv, ControlInv, NextInv
    <3>2. CASE j # i
      <4>1. wpc'[i] = wpc[i] /\ funcargs'[i] = funcargs[i]
        BY <2>3, <3>1, <3>2 DEF Worker, Take, CacheHit, CacheMiss, Execute, ExecuteRaises,
           EnterCall, LeaveCall
      <4> QED  BY <1>2, <2>0, <4>1
    <3>3. CASE j = i
      <4>1. CacheMiss(i)
        BY <1>2, <2>3, <3>1, <3>3 DEF Worker, Take, CacheHit, CacheMiss, Execute, ExecuteRaises,
           EnterCall, LeaveCall
      <4>2. Unresolved(i)' = Unresolved(i)
        BY <4>1 DEF CacheMiss, Unresolved
      <4> QED  BY <4>1, <4>2 DEF CacheMiss
    <3> QED  BY <3>2, <3>3
  <2>4. CASE UNCHANGED Rest
    BY <1>2, <2>0, <2>4 DEF Rest
  <2> QED  BY <2>2, <2>3, <2>4, Steps
<1> QED  BY <1>1, <1>2 DEF NextInv

LEMMA WorkerStack ==
  ASSUME ItemsInv, PlaceInv, StackInv, NextInv, NEW i \in Items, Worker(i)
  PROVE  StackInv'
<1>1. /\ mpc = "workers" /\ UNCHANGED <<mpc, group_idx, idx, ParallelSet>>
  BY DEF Worker, Take, CacheHit, CacheMiss, Execute, ExecuteRaises, EnterCall, LeaveCall,
         PlaceInv, control, prepared, ParallelSet
<1>2. stack \in Seq(Entries)
  BY DEF StackInv
<1> PICK f : f = NextName(i)
  OBVIOUS
<1>3. wpc[i] = "executing" => Def(f, i) \in Defs
  BY NextNameFacts DEF NextInv
<1>4. CASE UNCHANGED stack
  <2>1. SameNodes(stack, stack')
    BY <1>2, <1>4 DEF SameNodes
  <2> QED  BY <1>1, <1>4 DEF StackInv
<1>5. ASSUME NEW n, wpc[i] = "executing",
             stack' = [k \in DOMAIN stack |->
                         IF scope[f] # "function" /\ stack[k].node = n
                         THEN [stack[k] EXCEPT !.fins = Append(@, Def(f, i))]
                         ELSE stack[k]]
      PROVE  StackInv'
  <2>1. SameNodes(stack, stack')
    <3>1. DOMAIN stack = 1 .. Len(stack) /\ Len(stack) \in Nat
      BY <1>2
    <3>2. ASSUME NEW k \in DOMAIN stack
          PROVE  stack'[k] \in Entries /\ stack'[k].node = stack[k].node
      <4>1. stack[k] \in Entries
        BY <1>2
      <4>2. stack[k].fins \in Seq(Defs)
        BY <4>1 DEF Entries
      <4>3. Append(stack[k].fins, Def(f, i)) \in Seq(Defs)
        BY <1>3, <1>5, <4>2
      <4> QED  BY <1>5, <4>1, <4>3 DEF Entries
    <3>3. stack' \in [1 .. Len(stack) -> Entries]
      BY <1>5, <3>1, <3>2
    <3>4. stack' \in Seq(Entries) /\ DOMAIN stack' = DOMAIN stack
      BY <3>1, <3>3, FunctionIsSeq
    <3> QED  BY <3>2, <3>4 DEF SameNodes
  <2>2. stack' \in Seq(Entries) /\ Distinct(stack')
    BY <2>1, SameNodesFacts DEF SameNodes, StackInv
  <2>3. \A k \in DOMAIN stack' : stack'[k].node \in Nodes \cup ParallelSet
    BY <1>1, <2>1 DEF SameNodes, StackInv
  <2> QED  BY <1>1, <2>2, <2>3 DEF StackInv
<1>6. CASE Execute(i)
  <2>1. /\ wpc[i] = "executing"
        /\ stack' = [k \in DOMAIN stack |->
                       IF scope[f] # "function" /\ stack[k].node = Value(f, i).node
                       THEN [stack[k] EXCEPT !.fins = Append(@, Value(f, i).def)]
                       ELSE stack[k]]
    BY <1>6 DEF Execute
  <2>2. Value(f, i).def = Def(f, i)
    BY DEF Value
  <2> QED  BY <1>5, <2>1, <2>2
<1>7. CASE ExecuteRaises(i)
  <2>1. /\ wpc[i] = "executing"
        /\ stack' = [k \in DOMAIN stack |->
                       IF scope[f] # "function" /\ stack[k].node = NodeFor(f, i)
                       THEN [stack[k] EXCEPT !.fins = Append(@, Def(f, i))]
                       ELSE stack[k]]
    BY <1>7 DEF ExecuteRaises
  <2> QED  BY <1>5, <2>1
<1> QED  BY <1>4, <1>6, <1>7 DEF Worker, Take, CacheHit, CacheMiss, EnterCall, LeaveCall, caches

LEMMA CloseStack ==
  ASSUME ItemsInv, StackInv, Close
  PROVE  StackInv'
<1>0. stack \in Seq(Entries) /\ DOMAIN stack = 1 .. Len(stack) /\ Len(stack) \in Nat
  BY DEF StackInv
<1>1. CASE PopItems
  <2> PICK chosen : chosen = {e \in Range(stack) : e.node \notin ParallelSet}
    OBVIOUS
  <2>1. /\ mpc = "workers" /\ mpc' = "teardown_all" /\ stack' = Among(stack, chosen)
    BY <1>1 DEF PopItems
  <2>2. /\ stack' \in Seq(Entries)
        /\ Range(stack') = {x \in Range(stack) : x \in chosen}
    BY <1>0, <2>1, AmongFacts
  <2>3. PICK at \in [DOMAIN stack' -> DOMAIN stack] :
          /\ \A j \in DOMAIN stack' : stack'[j] = stack[at[j]]
          /\ \A j, k \in DOMAIN stack' : at[j] = at[k] => j = k
    <3>1. Drawn(stack', stack)
      BY <1>0, <2>1, AmongFacts
    <3> QED  BY <3>1 DEF Drawn
  <2>4. Distinct(stack')
    BY <2>3 DEF Distinct, StackInv
  <2>5. ASSUME NEW k \in DOMAIN stack' PROVE stack'[k].node \notin Items
    <3>1. stack'[k] \in Range(stack')
      BY DEF Range
    <3>2. PICK n \in DOMAIN stack : stack'[k] = stack[n] /\ stack[n] \in chosen
      BY <2>2, <3>1 DEF Range
    <3>3. stack[n].node \in Nodes \cup ParallelSet
      BY <2>1 DEF StackInv
    <3> QED  BY <3>2, <3>3, CollectorsAssumption
  <2> QED  BY <2>1, <2>2, <2>4, <2>5 DEF StackInv
<1>2. ASSUME NEW raises \in BOOLEAN, TeardownShared(raises) PROVE StackInv'
  <2>1. /\ mpc = "teardown_all" /\ mpc' \in {"error", "deferred"} /\ UNCHANGED group_idx
        /\ stack' = SubSeq(stack, 1, Kept(stack, next_group_first))
    BY <1>2 DEF TeardownShared, TeardownExact
  <2>2. group_idx \in DOMAIN groups
    BY <2>1 DEF ItemsInv, ControlInv, GroupPlaces
  <2>3. group_idx + 1 \in DOMAIN groups =>
          next_group_first = groups[group_idx + 1][1] /\ groups[group_idx + 1][1] \in Items
    BY <2>2, GroupFacts DEF next_group_first
  <2>4. next_group_first \in Items \cup {None}
    BY <2>2, <2>3, GroupFacts DEF next_group_first
  <2>5. stack' \in Seq(Entries) /\ Distinct(stack')
    BY <1>0, <2>1, <2>4, KeptDistinct DEF StackInv
  <2>6. ASSUME group_idx + 1 \in DOMAIN groups
        PROVE  OnPath(stack', collectors[groups[group_idx + 1][1]])
    <3>1. \A k \in DOMAIN stack : stack[k].node # groups[group_idx + 1][1]
      BY <2>1, <2>3, <2>6 DEF StackInv
    <3> QED  BY <1>0, <2>1, <2>3, <2>6, <3>1, NextPath
  <2> QED  BY <2>1, <2>5, <2>6 DEF StackInv
<1>3. CASE RunFinalizer
  BY <1>3 DEF RunFinalizer, control, StackInv
<1>4. CASE CloseGroup
  <2>1. /\ mpc = "deferred" /\ UNCHANGED stack
        /\ mpc' = "error" \/ (mpc' = "loop" /\ group_idx' = group_idx + 1)
    BY <1>4 DEF CloseGroup, NextGroup, caches
  <2> QED  BY <2>1 DEF StackInv
<1> QED  BY <1>1, <1>2, <1>3, <1>4 DEF Close

LEMMA StackStep ==
  ASSUME ItemsInv, PlaceInv, StackInv, NextInv, [Next]_vars
  PROVE  StackInv'
<1>1. CASE Proceed
  BY <1>1, LoopStack, SequentialStack, PrepareStack, CloseStack DEF Proceed
<1>2. ASSUME NEW i \in Items, Worker(i) PROVE StackInv'
  BY <1>2, WorkerStack
<1>3. CASE UNCHANGED Rest
  BY <1>3 DEF Rest, control, caches, prepared, StackInv, item, ParallelSet
<1> QED  BY <1>1, <1>2, <1>3, Steps

SessionInv == ItemsInv /\ PlaceInv /\ StackInv /\ NextInv

LEMMA SessionAlways == Spec => []SessionInv
<1>1. Init => SessionInv
  <2>1. Init => NextInv
    BY DEF Init, NextInv
  <2> QED  BY <2>1, ItemsInit, PlaceInit, StackInit DEF SessionInv
<1>2. SessionInv /\ [Next]_vars => SessionInv'
  BY ItemsStep, PlaceStep, StackStep, NextStep DEF SessionInv
<1> QED  BY <1>1, <1>2, PTL DEF Spec

(* pytest never refuses the setup of an item because "previous item was    *)
(* not torn down properly": on the stack a test without a key, or the      *)
(* first of a parallel group, finds nothing but nodes of its own chain,    *)
(* whatever groups, workers, skips and failing setups came before.         *)
THEOREM NeverRefusesASetup == Spec => []NeverRefused
<1>1. SessionInv => NeverRefused
  <2> SUFFICES ASSUME SessionInv, mpc = "seq" \/ (mpc = "hook" /\ idx = 1),
                      NEW k \in DOMAIN stack
               PROVE  stack[k].node \in Range(listchain(item))
    BY DEF NeverRefused
  <2>1. OnPath(stack, collectors[item]) /\ stack \in Seq(Entries)
    BY DEF SessionInv, StackInv
  <2>2. item \in Items
    <3>1. CASE mpc = "seq"
      BY <3>1, ItemTyped DEF SessionInv, ItemsInv, SeqPlaces
    <3>2. CASE mpc = "hook" /\ idx = 1
      <4>1. group_idx \in DOMAIN groups
        BY <3>2 DEF SessionInv, ItemsInv, ControlInv, GroupPlaces
      <4> QED  BY <3>2, <4>1, GroupFacts DEF item
    <3> QED  BY <3>1, <3>2
  <2>3. k \in DOMAIN collectors[item] /\ stack[k].node = collectors[item][k]
    BY <2>1, <2>2, ChainFacts DEF OnPath
  <2> QED  BY <2>2, <2>3, ChainFacts DEF Range
<1> QED  BY <1>1, SessionAlways, PTL
-----------------------------------------------------------------------------
(* The values of the fixtures.                                             *)

Set(v) == v \notin {None, Error}

(* What is cached is alive, and was produced by the definition that caches *)
(* it; a clone caches what was made for its item.                          *)
CacheInv ==
  /\ created \subseteq Instances /\ alive \subseteq created
  /\ cached_result \in [Defs -> created \cup {None, Error}]
  /\ \A d \in Defs : Set(cached_result[d]) =>
       cached_result[d] \in alive /\ cached_result[d].def = d
  /\ \A f \in Fixtures, i \in Items :
       scope[f] = "function" /\ Set(cached_result[<<f, i>>]) =>
         cached_result[<<f, i>>].by = i

(* Where main has not been yet no item has left "out".                     *)
AheadInv ==
  \A g \in DOMAIN groups : \A k \in DOMAIN groups[g] :
    \/ g > group_idx
    \/ g = group_idx /\ (k > idx \/ (k = idx /\ mpc \in {"loop", "seq", "hook"}))
    => wpc[groups[g][k]] = "out"

(* A function FixtureDef of the collection caches a value only while a     *)
(* test without a key has it, and the teardown of that test drops it.      *)
FunctionInv ==
  \A f \in Fixtures : scope[f] = "function" /\ cached_result[<<f>>] # None =>
    /\ mpc \in {"seqcall", "seqteardown"}
    /\ \E k \in DOMAIN stack : stack[k].node = item /\ <<f>> \in Range(stack[k].fins)

(* The values an item holds were made for it when they have function scope, *)
(* and are alive while its body runs or while it waits for a worker; a     *)
(* body is entered with all of them, when its own clones are cleared.      *)
ArgsInv ==
  /\ funcargs \in [Items -> [Fixtures -> created \cup {None}]]
  /\ \A i \in Items, f \in Fixtures :
       scope[f] = "function" /\ funcargs[i][f] # None => funcargs[i][f].by = i
  /\ \A i \in Items : wpc[i] = "out" => \A f \in Fixtures : funcargs[i][f] = None
  /\ mpc = "seqcall" => \A f \in Range(fixturenames[item]) : funcargs[item][f] \in alive
  /\ mpc \in {"hook", "workers"} => \A i \in ParallelSet :
       wpc[i] \in {"queued", "setup", "executing", "call"} =>
         \A f \in Fixtures : funcargs[i][f] # None =>
           funcargs[i][f] \in alive /\ funcargs[i][f].def = Def(f, i)
  /\ mpc = "workers" => \A i \in Items : wpc[i] = "call" =>
       /\ Unresolved(i) = {}
       /\ \A d \in FunctionDefs(i) : cached_result[d] = None

(* A shared definition is never a clone, and both are determined by their  *)
(* names.                                                                  *)
LEMMA DefShape ==
  /\ \A f \in Fixtures, d \in Defs : d = <<f>> => \A g \in Fixtures, i \in Items : d # <<g, i>>
  /\ \A f, g \in Fixtures, i, j \in Items : <<f, i>> = <<g, j>> => f = g /\ i = j
  /\ \A f, g \in Fixtures : <<f>> = <<g>> => f = g
  /\ \A f \in Fixtures : <<f>> \in Defs
  /\ \A f \in Fixtures, i \in Items : scope[f] = "function" => <<f, i>> \in Defs
  BY DEF Defs

(* Finishing definitions clears the caches of exactly the values that die. *)
LEMMA CacheForget ==
  ASSUME CacheInv, NEW D, alive' = alive \ FinishedBy(D),
         cached_result' = Forget(cached_result, D), UNCHANGED created
  PROVE  CacheInv'
<1>1. \A d \in Defs : cached_result'[d] = IF d \in D THEN None ELSE cached_result[d]
  BY DEF Forget
<1>2. cached_result' \in [Defs -> created' \cup {None, Error}]
  BY <1>1 DEF Forget, CacheInv
<1>3. ASSUME NEW d \in Defs, Set(cached_result'[d])
      PROVE  cached_result'[d] \in alive' /\ cached_result'[d].def = d
  <2>1. d \notin D /\ cached_result'[d] = cached_result[d]
    BY <1>1, <1>3 DEF Set
  <2> QED  BY <1>3, <2>1 DEF CacheInv, FinishedBy
<1>4. ASSUME NEW f \in Fixtures, NEW i \in Items, scope[f] = "function",
             Set(cached_result'[<<f, i>>])
      PROVE  cached_result'[<<f, i>>].by = i
  <2>1. cached_result'[<<f, i>>] = cached_result[<<f, i>>]
    BY <1>1, <1>4, DefShape DEF Set
  <2> QED  BY <1>4, <2>1 DEF CacheInv
<1> QED  BY <1>2, <1>3, <1>4 DEF CacheInv

(* Fixtures that are set up: what the caches hold then.                    *)
Cached(i, wanted, bad) ==
  /\ \A f \in Missing(i, wanted) : cached_result'[Def(f, i)] = Value(f, i)
  /\ \A d \in Defs : cached_result'[d] # cached_result[d] =>
       \E f \in Missing(i, wanted) \cup Range(bad) : d = Def(f, i)
  /\ \A f \in Range(bad) \ Missing(i, wanted) : cached_result'[Def(f, i)] = Error

(* An execution keeps cached values alive, and caches what it was asked    *)
(* for.                                                                    *)
LEMMA ExecutedCache ==
  ASSUME NEW st, NEW i \in Items, NEW wanted \in Seq(Fixtures), NEW bad \in Seq(Fixtures),
         Execution(st, i, wanted, bad), CacheInv,
         Range(wanted) \subseteq Range(fixturenames[i]),
         Range(bad) \subseteq Range(fixturenames[i])
  PROVE  CacheInv' /\ Cached(i, wanted, bad)
<1> PICK new : new = Missing(i, wanted)
  OBVIOUS
<1>1. \A f \in Range(wanted) \cup Range(bad) :
        /\ f \in Range(fixturenames[i]) /\ f \in Fixtures /\ Def(f, i) \in Defs
        /\ \A g \in Range(wanted) \cup Range(bad) : Def(g, i) = Def(f, i) => g = f
        /\ Value(f, i) \in Instances /\ Value(f, i).def = Def(f, i) /\ Value(f, i).by = i
        /\ Set(Value(f, i))
  <2>1. \A f \in Range(wanted) \cup Range(bad) : f \in Range(fixturenames[i]) /\ f \in Fixtures
    BY ValueFacts
  <2> QED  BY <2>1, ValueFacts, DefFacts DEF Set
<1>2. new \subseteq Range(wanted)
  BY DEF Missing
<1>3. /\ cached_result' = [d \in Defs |->
                             CASE d = Def(d[1], i) /\ d[1] \in new -> Value(d[1], i)
                               [] d = Def(d[1], i) /\ d[1] \in Range(bad) \ new -> Error
                               [] OTHER -> cached_result[d]]
      /\ alive' = alive \cup {Value(f, i) : f \in new}
      /\ created' = created \cup {Value(f, i) : f \in new}
  BY DEF Execution
<1>4. ASSUME NEW f \in new PROVE cached_result'[Def(f, i)] = Value(f, i)
  <2>1. Def(f, i) \in Defs /\ Def(f, i)[1] = f
    BY <1>1, <1>2 DEF Def
  <2> QED  BY <1>3, <2>1
<1>5. ASSUME NEW d \in Defs, \A f \in new : d # Def(f, i)
      PROVE  cached_result'[d] = IF \E f \in Range(bad) : d = Def(f, i) THEN Error
                                 ELSE cached_result[d]
  <2>1. \A f \in Range(bad) : Def(f, i)[1] = f
    BY DEF Def
  <2> QED  BY <1>3, <1>5, <2>1
<1>6. ASSUME NEW d \in Defs
      PROVE  \/ \E f \in new : d = Def(f, i) /\ cached_result'[d] = Value(f, i)
             \/ cached_result'[d] \in {Error, cached_result[d]}
  BY <1>4, <1>5
<1> HIDE <1>3
<1>7. CacheInv'
  <2>1. /\ alive' = alive \cup {Value(f, i) : f \in new}
        /\ created' = created \cup {Value(f, i) : f \in new}
        /\ cached_result' = [d \in Defs |-> cached_result'[d]]
    BY <1>3
  <2>2. created' \subseteq Instances /\ alive' \subseteq created'
    BY <1>1, <1>2, <2>1 DEF CacheInv
  <2>3. cached_result' \in [Defs -> created' \cup {None, Error}]
    <3>1. \A d \in Defs : cached_result[d] \in created \cup {None, Error}
      BY DEF CacheInv
    <3> QED  BY <1>6, <2>1, <3>1
  <2>4. \A d \in Defs : Set(cached_result'[d]) =>
          cached_result'[d] \in alive' /\ cached_result'[d].def = d
    BY <1>1, <1>2, <1>6, <2>1 DEF Set, CacheInv
  <2>5. ASSUME NEW f \in Fixtures, NEW j \in Items, scope[f] = "function",
               Set(cached_result'[<<f, j>>])
        PROVE  cached_result'[<<f, j>>].by = j
    <3>1. <<f, j>> \in Defs
      BY <2>5, DefShape
    <3>2. CASE \E g \in new : <<f, j>> = Def(g, i) /\ cached_result'[<<f, j>>] = Value(g, i)
      <4>1. PICK g \in new : <<f, j>> = Def(g, i) /\ cached_result'[<<f, j>>] = Value(g, i)
        BY <3>2
      <4>2. g \in Fixtures /\ Value(g, i).by = i
        BY <1>1, <1>2
      <4>3. Def(g, i) = <<g, i>>
        BY <2>5, <4>1, <4>2, DefFacts, DefShape
      <4> QED  BY <4>1, <4>2, <4>3, DefShape
    <3>3. CASE cached_result'[<<f, j>>] \in {Error, cached_result[<<f, j>>]}
      BY <2>5, <3>3 DEF Set, CacheInv
    <3> QED  BY <1>6, <3>1, <3>2, <3>3
  <2> QED  BY <2>2, <2>3, <2>4, <2>5 DEF CacheInv
<1>8. ASSUME NEW f \in Range(bad) \ new PROVE cached_result'[Def(f, i)] = Error
  <2>1. Def(f, i) \in Defs /\ \A g \in new : Def(f, i) # Def(g, i)
    BY <1>1, <1>2
  <2> QED  BY <1>5, <2>1
<1>9. Cached(i, wanted, bad)
  BY <1>4, <1>5, <1>8 DEF Cached
<1> QED  BY <1>7, <1>9

ArgsTyped == funcargs \in [Items -> [Fixtures -> created \cup {None}]]

(* What an item that looked up `names' then holds, in `found' a value.     *)
Filled(i, found) ==
  /\ alive \subseteq alive' /\ created \subseteq created'
  /\ \A j \in Items \ {i} : funcargs'[j] = funcargs[j]
  /\ \A f \in Fixtures \ found : funcargs'[i][f] = funcargs[i][f]
  /\ \A f \in found :
       funcargs'[i][f] = cached_result'[Def(f, i)] /\ Set(cached_result'[Def(f, i)])

(* A definition that caches something new has a finalizer on its node.     *)
Finalized(st, i, names) ==
  \A d \in Defs : cached_result[d] = None /\ cached_result'[d] # None =>
    /\ Set(cached_result'[d]) => cached_result'[d].by = i
    /\ \E f \in names : d = Def(f, i) /\
         \A k \in DOMAIN st : NodeFor(f, i) = st[k].node => d \in Range(stack'[k].fins)

(* A resolution that succeeds fills the item's arguments with values that  *)
(* are alive.                                                              *)
LEMMA ExecutedArgs ==
  ASSUME NEW st \in Seq(Entries), NEW i \in Items, NEW wanted \in Seq(Fixtures),
         NEW bad \in Seq(Fixtures), Execution(st, i, wanted, bad), CacheInv, ArgsTyped,
         Range(wanted) \subseteq Range(fixturenames[i]),
         Range(bad) \subseteq Range(fixturenames[i]),
         Sound(i, wanted), \A f \in Range(bad) : Raises(f, i)
  PROVE  /\ CacheInv' /\ ArgsTyped' /\ Filled(i, Range(wanted))
         /\ Finalized(st, i, Range(wanted) \cup Range(bad))
<1>0. CacheInv' /\ Cached(i, wanted, bad)
  BY ExecutedCache
<1>1. /\ CacheInv'
      /\ \A f \in Missing(i, wanted) : cached_result'[Def(f, i)] = Value(f, i)
      /\ \A d \in Defs : cached_result'[d] # cached_result[d] =>
           \E f \in Missing(i, wanted) \cup Range(bad) : d = Def(f, i)
      /\ \A f \in Range(bad) \ Missing(i, wanted) : cached_result'[Def(f, i)] = Error
  BY <1>0 DEF Cached
<1>2. \A f \in Range(wanted) \cup Range(bad) : f \in Fixtures /\ f \in Range(fixturenames[i]) /\ Def(f, i) \in Defs
  BY ValueFacts, DefFacts
<1>3. ASSUME NEW f \in Range(wanted) PROVE Set(cached_result'[Def(f, i)])
  <2>1. CASE f \in Missing(i, wanted)
    BY <1>1, <1>2, <2>1, ValueFacts DEF Set
  <2>2. CASE f \notin Missing(i, wanted)
    <3>1. Set(cached_result[Def(f, i)])
      BY <2>2 DEF Missing, Sound, Set
    <3>2. ASSUME NEW g \in Missing(i, wanted) \cup Range(bad) PROVE Def(g, i) # Def(f, i)
      <4> SUFFICES ASSUME Def(g, i) = Def(f, i) PROVE FALSE
        OBVIOUS
      <4>1. g \in Fixtures /\ f \in Fixtures
        BY <1>2 DEF Missing
      <4>2. g = f
        BY <4>1, DefFacts
      <4>3. Raises(f, i)
        BY <2>2, <4>2
      <4> QED  BY <3>1, <4>3 DEF Raises, Set
    <3>3. cached_result'[Def(f, i)] = cached_result[Def(f, i)]
      BY <1>1, <1>2, <3>2
    <3> QED  BY <3>1, <3>3
  <2> QED  BY <2>1, <2>2
<1>4. /\ funcargs' = [funcargs EXCEPT ![i] =
                        [f \in Fixtures |-> IF f \in Range(wanted)
                                            THEN cached_result'[Def(f, i)]
                                            ELSE @[f]]]
      /\ alive' = alive \cup {Value(f, i) : f \in Missing(i, wanted)}
      /\ created' = created \cup {Value(f, i) : f \in Missing(i, wanted)}
  BY DEF Execution
<1>5. \A f \in Range(wanted) : cached_result'[Def(f, i)] \in created'
  BY <1>1, <1>2, <1>3 DEF CacheInv, Set
<1>6. ArgsTyped'
  <2>1. \A f \in Fixtures : funcargs'[i][f] \in created' \cup {None}
    BY <1>4, <1>5 DEF ArgsTyped
  <2> QED  BY <1>4, <2>1 DEF ArgsTyped
<1>7. ASSUME NEW d \in Defs, cached_result[d] = None, cached_result'[d] # None
      PROVE  /\ Set(cached_result'[d]) => cached_result'[d].by = i
             /\ \E f \in Range(wanted) \cup Range(bad) : d = Def(f, i) /\
                  \A k \in DOMAIN st : NodeFor(f, i) = st[k].node => d \in Range(stack'[k].fins)
  <2>1. PICK f \in Missing(i, wanted) \cup Range(bad) : d = Def(f, i)
    BY <1>1, <1>7
  <2>2. f \in Missing(i, wanted) \cup Missing(i, bad) /\ f \in Range(wanted) \cup Range(bad)
    BY <1>7, <2>1 DEF Missing
  <2>3. ASSUME NEW k \in DOMAIN st, NodeFor(f, i) = st[k].node
        PROVE  d \in Range(stack'[k].fins)
    BY <2>1, <2>2, <2>3, ExecutedFins
  <2>4. Set(cached_result'[d]) => cached_result'[d].by = i
    <3>1. CASE f \in Missing(i, wanted)
      BY <1>1, <1>2, <2>1, <2>2, <3>1, ValueFacts
    <3>2. CASE f \notin Missing(i, wanted)
      BY <1>1, <2>1, <3>2 DEF Set
    <3> QED  BY <3>1, <3>2
  <2> QED  BY <2>1, <2>2, <2>3, <2>4
<1>8. Finalized(st, i, Range(wanted) \cup Range(bad))
  BY <1>7 DEF Finalized
<1>9. Filled(i, Range(wanted))
  <2>1. \A j \in Items \ {i} : funcargs'[j] = funcargs[j]
    BY <1>4 DEF ArgsTyped
  <2>2. \A f \in Fixtures : funcargs'[i][f] = IF f \in Range(wanted)
                                               THEN cached_result'[Def(f, i)]
                                               ELSE funcargs[i][f]
    BY <1>4 DEF ArgsTyped
  <2>3. alive \subseteq alive' /\ created \subseteq created'
    BY <1>4
  <2> QED  BY <1>2, <1>3, <2>1, <2>2, <2>3 DEF Filled
<1> QED  BY <1>1, <1>6, <1>8, <1>9

(* The names an item resolves, alone: those that are found have a value,   *)
(* and a finalizer on their node if they had none.                         *)
LEMMA ResolvedArgs ==
  ASSUME NEW st \in Seq(Entries), NEW i \in Items, NEW names \in Seq(Fixtures),
         Resolve(st, i, names) \/ ResolveFails(st, i, names), CacheInv, ArgsTyped,
         Range(names) \subseteq Range(fixturenames[i])
  PROVE  /\ CacheInv' /\ ArgsTyped' /\ Finalized(st, i, Range(names))
         /\ \E found \in SUBSET Range(names) :
              Filled(i, found) /\ (Resolve(st, i, names) => found = Range(names))
<1>1. CASE Resolve(st, i, names)
  <2>1. Execution(st, i, names, <<>>) /\ Sound(i, names)
    BY <1>1 DEF Resolve
  <2>2. <<>> \in Seq(Fixtures) /\ Range(<<>>) = {}
    BY DEF Range
  <2>3. /\ \A f \in Range(<<>>) : Raises(f, i)
        /\ Range(<<>>) \subseteq Range(fixturenames[i])
    BY <2>2
  <2>4. /\ CacheInv' /\ ArgsTyped' /\ Filled(i, Range(names))
        /\ Finalized(st, i, Range(names) \cup Range(<<>>))
    BY <2>1, <2>2, <2>3, ExecutedArgs
  <2>5. Range(names) \cup Range(<<>>) = Range(names)
    BY <2>2
  <2> QED  BY <2>4, <2>5
<1>2. CASE ResolveFails(st, i, names) /\ ~ Resolve(st, i, names)
  <2>1. PICK n \in DOMAIN names :
          /\ Sound(i, SubSeq(names, 1, n - 1)) /\ Raises(names[n], i)
          /\ Execution(st, i, SubSeq(names, 1, n - 1), <<names[n]>>)
    BY <1>2 DEF ResolveFails
  <2>2. n \in 1 .. Len(names) /\ Len(names) \in Nat /\ DOMAIN names = 1 .. Len(names)
    OBVIOUS
  <2> PICK w, b : w = SubSeq(names, 1, n - 1) /\ b = <<names[n]>>
    OBVIOUS
  <2>3. /\ w \in Seq(Fixtures) /\ DOMAIN w = 1 .. (n - 1)
        /\ \A k \in 1 .. (n - 1) : w[k] = names[k]
    BY <2>2
  <2>4. Range(w) \subseteq Range(names)
    BY <2>2, <2>3 DEF Range
  <2>5. b \in Seq(Fixtures) /\ Range(b) = {names[n]} /\ names[n] \in Range(names)
    BY <2>2 DEF Range
  <2>6. /\ Execution(st, i, w, b) /\ Sound(i, w) /\ \A f \in Range(b) : Raises(f, i)
        /\ Range(w) \subseteq Range(fixturenames[i]) /\ Range(b) \subseteq Range(fixturenames[i])
    BY <2>1, <2>4, <2>5
  <2>7. /\ CacheInv' /\ ArgsTyped' /\ Filled(i, Range(w))
        /\ Finalized(st, i, Range(w) \cup Range(b))
    BY <2>3, <2>5, <2>6, ExecutedArgs
  <2>8. Range(w) \cup Range(b) \subseteq Range(names)
    BY <2>4, <2>5
  <2>9. Finalized(st, i, Range(names))
    BY <2>7, <2>8 DEF Finalized
  <2> QED  BY <1>2, <2>4, <2>7, <2>9
<1> QED  BY <1>1, <1>2

LEMMA AheadInit == Init => AheadInv
<1> SUFFICES ASSUME Init PROVE AheadInv
  OBVIOUS
<1>1. \A g \in DOMAIN groups : \A k \in DOMAIN groups[g] : groups[g][k] \in Items
  BY GroupFacts
<1> QED  BY <1>1 DEF Init, AheadInv

LEMMA AheadStep ==
  ASSUME ItemsInv, PlaceInv, AheadInv, [Next]_vars
  PROVE  AheadInv'
<1>0. /\ wpc \in [Items -> ItemPlaces] /\ idx \in Nat \ {0} /\ group_idx \in Nat
      /\ mpc \in SeqPlaces \cup GroupPlaces => group_idx \in DOMAIN groups
      /\ \A g \in DOMAIN groups : g \in Nat /\ \A k \in DOMAIN groups[g] : k \in Nat /\ groups[g][k] \in Items
  BY GroupFacts DEF ItemsInv, ControlInv
<1>1. ASSUME UNCHANGED <<group_idx, idx, wpc>>,
             mpc' \in {"loop", "seq", "hook"} => mpc \in {"loop", "seq", "hook"}
      PROVE  AheadInv'
  BY <1>1 DEF AheadInv
<1>2. ASSUME group_idx' = group_idx + 1, UNCHANGED wpc
      PROVE  AheadInv'
  BY <1>0, <1>2 DEF AheadInv
<1>3. ASSUME idx' = idx + 1, UNCHANGED <<group_idx, wpc>>
      PROVE  AheadInv'
  BY <1>0, <1>3 DEF AheadInv
<1>4. ASSUME mpc \in SeqPlaces \cup {"hook"}, idx \in DOMAIN groups[group_idx], UNCHANGED group_idx,
             \/ idx' = idx + 1
             \/ idx' = idx /\ mpc' \notin {"loop", "seq", "hook"},
             NEW p, wpc' = [wpc EXCEPT ![item] = p]
      PROVE  AheadInv'
  <2>1. group_idx \in DOMAIN groups
    BY <1>0, <1>4 DEF GroupPlaces
  <2>2. ASSUME NEW g \in DOMAIN groups, NEW k \in DOMAIN groups[g],
               g > group_idx \/ (g = group_idx /\ k > idx)
        PROVE  wpc'[groups[g][k]] = "out"
    <3>1. groups[g][k] # item
      <4>1. g # group_idx \/ k # idx
        BY <1>0, <2>2
      <4> QED  BY <1>4, <2>1, <4>1, ItemsDiffer DEF item
    <3>2. wpc[groups[g][k]] = "out" /\ groups[g][k] \in Items
      BY <1>0, <2>2 DEF AheadInv
    <3> QED  BY <1>0, <1>4, <3>1, <3>2
  <2>3. ASSUME NEW g \in DOMAIN groups, NEW k \in DOMAIN groups[g],
               \/ g > group_idx'
               \/ g = group_idx' /\ (k > idx' \/ (k = idx' /\ mpc' \in {"loop", "seq", "hook"}))
        PROVE  g > group_idx \/ (g = group_idx /\ k > idx)
    BY <1>0, <1>4, <2>3
  <2> QED  BY <2>2, <2>3 DEF AheadInv
<1>5. CASE EnterGroup \/ RaiseFailed \/ ReturnTrue \/ SessionFinish
  BY <1>1, <1>5 DEF EnterGroup, RaiseFailed, ReturnTrue, SessionFinish, tests
<1>6. CASE Sequential
  <2>1. mpc \in SeqPlaces /\ idx \in DOMAIN groups[group_idx]
    BY <1>6 DEF Sequential, SeqSetup, SeqSetupFails, SeqSkip, SeqCall, SeqTeardown, SeqPlaces,
       ItemsInv, ControlInv
  <2>2. CASE SeqTeardown
    BY <1>2, <1>3, <2>2 DEF SeqTeardown, NextGroup
  <2>3. CASE ~ SeqTeardown
    <3>1. /\ mpc' \in {"seqcall", "seqteardown"} /\ UNCHANGED <<group_idx, idx>>
          /\ \E p : wpc' = [wpc EXCEPT ![item] = p]
      BY <1>6, <2>3 DEF Sequential, SeqSetup, SeqSetupFails, SeqSkip, SeqCall
    <3> QED  BY <1>4, <2>1, <3>1
  <2> QED  BY <2>2, <2>3
<1>7. CASE HookPasses \/ HookFails \/ HookSkips
  <2>1. /\ mpc = "hook" /\ idx <= Len(groups[group_idx]) /\ UNCHANGED group_idx /\ idx' = idx + 1
        /\ \E p : wpc' = [wpc EXCEPT ![item] = p]
    BY <1>7 DEF HookPasses, HookFails, HookSkips, HookEntered
  <2>2. idx \in DOMAIN groups[group_idx]
    BY <1>0, <2>1, GroupFacts DEF GroupPlaces
  <2> QED  BY <1>4, <2>1, <2>2
<1>8. CASE Transition \/ PushItems
  BY <1>1, <1>8 DEF Transition, PushItems, control, tests
<1>9. CASE Close
  BY <1>1, <1>2, <1>9 DEF Close, PopItems, TeardownShared, RunFinalizer, CloseGroup, NextGroup,
     control, tests
<1>10. ASSUME NEW i \in Items, Worker(i) PROVE AheadInv'
  <2>1. /\ mpc = "workers" /\ i \in ParallelSet /\ UNCHANGED control
        /\ \E p : wpc' \in {wpc, [wpc EXCEPT ![i] = p]}
    BY <1>10 DEF Worker, Take, CacheHit, CacheMiss, Execute, ExecuteRaises, EnterCall, LeaveCall,
       PlaceInv
  <2>2. PICK n \in DOMAIN parallel_items : i = parallel_items[n]
    BY <2>1 DEF ParallelSet, Range
  <2>3. PICK m \in DOMAIN groups[group_idx] : m < idx /\ i = groups[group_idx][m]
    BY <2>1, <2>2 DEF PlaceInv, GroupPlaces
  <2>4. ASSUME NEW g \in DOMAIN groups, NEW k \in DOMAIN groups[g],
               g > group_idx \/ (g = group_idx /\ k > idx)
        PROVE  wpc'[groups[g][k]] = "out"
    <3>1. groups[g][k] # i
      <4>1. (g # group_idx \/ k # m) /\ group_idx \in DOMAIN groups
        BY <1>0, <2>1, <2>3, <2>4 DEF GroupPlaces
      <4> QED  BY <2>3, <4>1, ItemsDiffer
    <3>2. wpc[groups[g][k]] = "out" /\ groups[g][k] \in Items
      BY <1>0, <2>4 DEF AheadInv
    <3> QED  BY <1>0, <2>1, <3>1, <3>2
  <2> QED  BY <2>1, <2>4 DEF AheadInv, control
<1>11. CASE UNCHANGED Rest
  BY <1>1, <1>11 DEF Rest, control
<1> QED  BY <1>5, <1>6, <1>7, <1>8, <1>9, <1>10, <1>11, Steps DEF Proceed, Prepare

ValuesInv == CacheInv /\ AheadInv /\ FunctionInv /\ ArgsInv

LEMMA ValuesInit == Init => ValuesInv
<1> SUFFICES ASSUME Init PROVE ValuesInv
  OBVIOUS
<1>1. CacheInv
  BY DefShape DEF Init, CacheInv, Set
<1>2. FunctionInv
  BY DefShape DEF Init, FunctionInv
<1>3. ArgsInv
  BY DEF Init, ArgsInv
<1> QED  BY <1>1, <1>2, <1>3, AheadInit DEF ValuesInv

LEMMA LoopValues ==
  ASSUME ItemsInv, PlaceInv, ValuesInv, EnterGroup \/ RaiseFailed \/ ReturnTrue \/ SessionFinish
  PROVE  CacheInv' /\ FunctionInv' /\ ArgsInv'
<1>1. CASE EnterGroup
  <2>1. /\ mpc = "loop" /\ mpc' \in {"hook", "seq"} /\ parallel_items = <<>>
        /\ UNCHANGED <<group_idx, idx, caches, prepared, deferred, tests>>
    BY <1>1 DEF EnterGroup, PlaceInv
  <2>2. ParallelSet' = {}
    BY <2>1 DEF ParallelSet, prepared, Range
  <2>3. CacheInv' /\ FunctionInv'
    BY <2>1 DEF caches, ValuesInv, CacheInv, FunctionInv
  <2>4. ArgsInv'
    BY <2>1, <2>2 DEF caches, tests, ValuesInv, ArgsInv
  <2> QED  BY <2>3, <2>4
<1>2. CASE RaiseFailed \/ ReturnTrue
  <2>1. /\ mpc = "loop" /\ mpc' \in {"raised", "returned"}
        /\ UNCHANGED <<group_idx, idx, caches, prepared, deferred, tests>>
    BY <1>2 DEF RaiseFailed, ReturnTrue
  <2>2. CacheInv' /\ FunctionInv' /\ ArgsInv'
    BY <2>1 DEF caches, tests, ValuesInv, CacheInv, FunctionInv, ArgsInv
  <2> QED  BY <2>2
<1>3. CASE SessionFinish
  <2>1. /\ mpc \in {"raised", "returned", "error"} /\ mpc' = "finished"
        /\ TeardownExact(stack, None) /\ UNCHANGED tests
    BY <1>3 DEF SessionFinish
  <2>2. CacheInv'
    BY <2>1, CacheForget DEF TeardownExact, ValuesInv
  <2>3. FunctionInv'
    BY <2>1, DefShape DEF TeardownExact, Forget, ValuesInv, FunctionInv
  <2>4. ArgsInv'
    BY <2>1 DEF TeardownExact, tests, ValuesInv, ArgsInv
  <2> QED  BY <2>2, <2>3, <2>4
<1> QED  BY <1>1, <1>2, <1>3

LEMMA SequentialValues ==
  ASSUME ItemsInv, PlaceInv, StackInv, ValuesInv, Sequential
  PROVE  CacheInv' /\ FunctionInv' /\ ArgsInv'
<1>0. /\ mpc \in SeqPlaces /\ group_idx \in DOMAIN groups /\ idx \in DOMAIN groups[group_idx]
      /\ item \in Items /\ wpc \in [Items -> ItemPlaces]
  <2>1. mpc \in SeqPlaces
    BY DEF Sequential, SeqSetup, SeqSetupFails, SeqSkip, SeqCall, SeqTeardown, SeqPlaces
  <2> QED  BY <2>1, ItemTyped DEF ItemsInv, ControlInv
<1>1. ASSUME mpc = "seq", mpc' \in {"seqcall", "seqteardown"},
             UNCHANGED <<group_idx, idx, cloned>>,
             NEW p, p # "out", wpc' = [wpc EXCEPT ![item] = p],
             LET st == Append(Pushed(stack, item), [node |-> item, fins |-> <<>>])
             IN  \/ Resolve(st, item, fixturenames[item])
                 \/ ResolveFails(st, item, fixturenames[item]) /\ mpc' = "seqteardown"
      PROVE  CacheInv' /\ FunctionInv' /\ ArgsInv'
  <2> PICK i \in Items : i = item
    BY <1>0
  <2> PICK st : st = Append(Pushed(stack, i), [node |-> i, fins |-> <<>>])
    OBVIOUS
  <2> PICK names : names = fixturenames[i]
    OBVIOUS
  <2>1. /\ st \in Seq(Entries) /\ Len(st) = Len(collectors[i]) + 1
        /\ st[Len(collectors[i]) + 1].node = i
    BY <1>1, WithItem DEF StackInv
  <2>2. Len(collectors[i]) + 1 \in DOMAIN st
    BY <2>1, ChainFacts
  <2>3. names \in Seq(Fixtures) /\ Range(names) \subseteq Range(fixturenames[i])
    BY NamesTyped
  <2>4. Resolve(st, i, names) \/ (ResolveFails(st, i, names) /\ mpc' = "seqteardown")
    BY <1>1
  <2>5. CacheInv /\ ArgsTyped
    BY DEF ValuesInv, ArgsInv, ArgsTyped
  <2>6. CacheInv' /\ ArgsTyped' /\ Finalized(st, i, Range(names))
    BY <2>1, <2>3, <2>4, <2>5, ResolvedArgs
  <2>7. PICK found \in SUBSET Range(names) :
          Filled(i, found) /\ (Resolve(st, i, names) => found = Range(names))
    BY <2>1, <2>3, <2>4, <2>5, ResolvedArgs
  <2>8. SameNodes(st, stack')
    BY <2>1, <2>3, <2>4, ResolvedNodes
  <2>9. item' = i /\ i \notin cloned
    <3>1. item' = i
      BY <1>1 DEF item
    <3>2. group_idx \in Nat /\ i = groups[group_idx][idx]
      BY <1>0, GroupFacts DEF item
    <3>3. i \in cloned => group_idx < group_idx \/ mpc \notin {"loop"} \cup SeqPlaces
      BY <1>0, <3>2 DEF PlaceInv
    <3> QED  BY <1>1, <3>1, <3>2, <3>3 DEF SeqPlaces
  <2>10. \A f \in Fixtures : scope[f] = "function" => cached_result[<<f>>] = None
    BY <1>1 DEF ValuesInv, FunctionInv
  <2>11. FunctionInv'
    <3> SUFFICES ASSUME NEW f \in Fixtures, scope[f] = "function", cached_result'[<<f>>] # None
                 PROVE  \E k \in DOMAIN stack' : stack'[k].node = i /\ <<f>> \in Range(stack'[k].fins)
      BY <1>1, <2>9 DEF FunctionInv
    <3>1. PICK g \in Range(names) : <<f>> = Def(g, i) /\
            \A k \in DOMAIN st : NodeFor(g, i) = st[k].node => <<f>> \in Range(stack'[k].fins)
      BY <2>6, <2>10, DefShape DEF Finalized
    <3>2. g \in Fixtures
      BY <2>3 DEF Range
    <3>3. g = f
      BY <2>9, <3>1, <3>2, DefFacts, DefShape
    <3>4. NodeFor(g, i) = i
      BY <3>3 DEF NodeFor
    <3> QED  BY <2>1, <2>2, <2>8, <3>1, <3>4 DEF SameNodes
  <2>12. ASSUME NEW j \in Items, NEW f \in Fixtures, scope[f] = "function",
                funcargs'[j][f] # None
         PROVE  funcargs'[j][f].by = j
    <3>1. CASE j = i /\ f \in found
      <4>1. Def(f, i) = <<f>> /\ <<f>> \in Defs
        BY <2>9, <2>12, DefFacts, DefShape
      <4>2. funcargs'[i][f] = cached_result'[<<f>>] /\ Set(cached_result'[<<f>>])
        BY <2>7, <3>1, <4>1 DEF Filled
      <4> QED  BY <2>6, <2>10, <2>12, <3>1, <4>1, <4>2 DEF Finalized, Set
    <3>2. CASE j # i \/ f \notin found
      <4>1. funcargs'[j][f] = funcargs[j][f]
        BY <2>7, <3>2 DEF Filled
      <4> QED  BY <2>12, <4>1 DEF ValuesInv, ArgsInv
    <3> QED  BY <3>1, <3>2
  <2>13. ASSUME mpc' = "seqcall", NEW f \in Range(names)
         PROVE  funcargs'[i][f] \in alive'
    <3>1. f \in found /\ f \in Fixtures
      BY <1>1, <2>3, <2>4, <2>7, <2>13 DEF Range
    <3>2. funcargs'[i][f] = cached_result'[Def(f, i)] /\ Set(cached_result'[Def(f, i)])
      BY <2>7, <3>1 DEF Filled
    <3> QED  BY <2>6, <3>1, <3>2, DefFacts DEF CacheInv, Set
  <2>14. ASSUME NEW j \in Items, wpc'[j] = "out", NEW f \in Fixtures
         PROVE  funcargs'[j][f] = None
    <3>1. j # i /\ wpc[j] = "out"
      BY <1>0, <1>1, <2>14
    <3>2. funcargs'[j] = funcargs[j]
      BY <2>7, <3>1 DEF Filled
    <3> QED  BY <3>1, <3>2 DEF ValuesInv, ArgsInv
  <2>15. ArgsInv'
    BY <1>1, <2>6, <2>9, <2>12, <2>13, <2>14 DEF ArgsInv, ArgsTyped
  <2> QED  BY <2>6, <2>11, <2>15
<1>2. CASE SeqSetup
  BY <1>1, <1>2 DEF SeqSetup, prepared
<1>3. CASE SeqSetupFails
  BY <1>1, <1>3 DEF SeqSetupFails, prepared
<1>4. ASSUME mpc \in {"seq", "seqcall"}, mpc' = "seqteardown", UNCHANGED <<group_idx, idx, caches, funcargs>>,
             NEW p, p # "out", wpc' = [wpc EXCEPT ![item] = p]
      PROVE  CacheInv' /\ FunctionInv' /\ ArgsInv'
  <2>1. CacheInv'
    BY <1>4 DEF caches, ValuesInv, CacheInv
  <2>2. FunctionInv'
    BY <1>4 DEF caches, ValuesInv, FunctionInv, item
  <2>3. ArgsInv'
    BY <1>0, <1>4 DEF caches, ValuesInv, ArgsInv
  <2> QED  BY <2>1, <2>2, <2>3
<1>5. CASE SeqSkip
  BY <1>4, <1>5 DEF SeqSkip
<1>6. ASSUME NEW outcome \in {"passed", "failed"}, SeqCall(outcome)
      PROVE  CacheInv' /\ FunctionInv' /\ ArgsInv'
  BY <1>4, <1>6 DEF SeqCall
<1>7. CASE SeqTeardown
  <2>1. /\ mpc = "seqteardown" /\ mpc' \in {"seq", "loop"} /\ TeardownExact(stack, nextitem)
        /\ funcargs' = [funcargs EXCEPT ![item] = [f \in Fixtures |-> None]] /\ UNCHANGED wpc
    BY <1>7 DEF SeqTeardown, NextGroup
  <2> PICK next : next = nextitem
    OBVIOUS
  <2>2. next \in Items \cup {None} /\ next # item
    BY <1>0, NextItemFacts
  <2>3. CacheInv'
    BY <2>1, CacheForget DEF TeardownExact, ValuesInv
  <2>4. ASSUME NEW f \in Fixtures, scope[f] = "function" PROVE cached_result'[<<f>>] = None
    <3>1. cached_result'[<<f>>] = IF <<f>> \in DefsAbove(stack, Kept(stack, next)) THEN None
                                  ELSE cached_result[<<f>>]
      BY <2>1, DefShape DEF TeardownExact, Forget
    <3>2. CASE cached_result[<<f>>] # None
      <4>1. PICK k \in DOMAIN stack : stack[k].node = item /\ <<f>> \in Range(stack[k].fins)
        BY <2>4, <3>2 DEF ValuesInv, FunctionInv
      <4>2. k \in 1 .. Len(stack) /\ Len(stack) \in Nat /\ stack \in Seq(Entries)
        BY DEF StackInv
      <4>3. Kept(stack, next) \in 0 .. Len(stack) /\ ~ (k <= Kept(stack, next))
        <5>1. /\ Kept(stack, next) \in 0 .. Len(stack)
              /\ Kept(stack, next) <= Len(Needed(next))
              /\ \A j \in 1 .. Kept(stack, next) : stack[j].node = Needed(next)[j]
          BY <2>2, <4>2, KeptFacts
        <5>2. CASE next = None
          <6>1. Len(Needed(next)) = 0
            BY <5>2 DEF Needed
          <6> QED  BY <4>2, <5>1, <6>1
        <5>3. CASE next \in Items /\ next # None
          <6> SUFFICES ASSUME k <= Kept(stack, next) PROVE FALSE
            BY <5>1
          <6>1. Needed(next) = listchain(next)
            BY <5>3 DEF Needed
          <6>2. k \in DOMAIN listchain(next) /\ listchain(next)[k] = item
            BY <4>1, <4>2, <5>1, <5>3, <6>1, ChainFacts
          <6>3. item = next \/ item \in Nodes
            BY <5>3, <6>2, ChainFacts
          <6> QED  BY <1>0, <2>2, <6>3, CollectorsAssumption
        <5> QED  BY <2>2, <5>2, <5>3
      <4>4. k \in (Kept(stack, next) + 1) .. Len(stack)
        BY <4>2, <4>3
      <4> QED  BY <3>1, <4>1, <4>4 DEF DefsAbove
    <3> QED  BY <3>1, <3>2
  <2>5. FunctionInv'
    BY <2>4 DEF FunctionInv
  <2>6. ArgsInv'
    <3>1. created' = created /\ ArgsTyped
      BY <2>1 DEF TeardownExact, ValuesInv, ArgsInv, ArgsTyped
    <3>2. \A j \in Items, f \in Fixtures : funcargs'[j][f] \in {None, funcargs[j][f]}
      BY <2>1, <3>1 DEF ArgsTyped
    <3>3. ArgsTyped'
      BY <2>1, <3>1 DEF ArgsTyped
    <3> QED  BY <2>1, <3>2, <3>3 DEF ArgsInv, ArgsTyped, ValuesInv
  <2> QED  BY <2>3, <2>5, <2>6
<1> QED  BY <1>2, <1>3, <1>5, <1>6, <1>7 DEF Sequential

(* An item that has not been resolved yet holds nothing.                   *)
LEMMA HookValues ==
  ASSUME ItemsInv, PlaceInv, StackInv, ValuesInv, HookEntered,
         NEW p \in {"queued", "errored", "skipped"}, wpc' = [wpc EXCEPT ![item] = p],
         \/ Resolve(Pushed(stack, item), item, ToPopulate(item)) /\ cloned' = cloned \cup {item}
         \/ /\ ResolveFails(Pushed(stack, item), item, ToPopulate(item))
            /\ p # "queued" /\ UNCHANGED cloned
         \/ UNCHANGED <<caches, funcargs, cloned>> /\ p # "queued",
         ParallelSet' \subseteq ParallelSet \cup {item}
  PROVE  CacheInv' /\ FunctionInv' /\ ArgsInv'
<1>0. /\ item \in Items /\ group_idx \in DOMAIN groups /\ idx \in DOMAIN groups[group_idx]
      /\ mpc = "hook" /\ mpc' = "hook" /\ wpc \in [Items -> ItemPlaces]
      /\ stack \in Seq(Entries) /\ OnPath(stack, collectors[item])
  BY HookPath DEF HookEntered, ItemsInv, ControlInv, StackInv
<1> PICK i \in Items : i = item
  BY <1>0
<1>1. wpc[i] = "out" /\ \A f \in Fixtures : funcargs[i][f] = None
  <2>1. wpc[i] = "out"
    BY <1>0 DEF item, ValuesInv, AheadInv
  <2> QED  BY <2>1 DEF ValuesInv, ArgsInv
<1>2. \A f \in Fixtures : scope[f] = "function" => cached_result[<<f>>] = None
  BY <1>0 DEF ValuesInv, FunctionInv
<1>3. CacheInv /\ ArgsTyped
  BY DEF ValuesInv, ArgsInv, ArgsTyped
<1>4. CASE UNCHANGED <<caches, funcargs, cloned>> /\ p # "queued"
  <2>1. CacheInv' /\ FunctionInv'
    BY <1>2, <1>3, <1>4 DEF caches, CacheInv, FunctionInv
  <2>2. ArgsInv'
    BY <1>0, <1>4 DEF caches, ValuesInv, ArgsInv, Def
  <2> QED  BY <2>1, <2>2
<1>5. CASE \/ Resolve(Pushed(stack, item), item, ToPopulate(item)) /\ cloned' = cloned \cup {item}
           \/ /\ ResolveFails(Pushed(stack, item), item, ToPopulate(item))
              /\ p # "queued" /\ UNCHANGED cloned
  <2> PICK st, names : st = Pushed(stack, i) /\ names = ToPopulate(i)
    OBVIOUS
  <2>1. Resolve(st, i, names) \/ ResolveFails(st, i, names)
    BY <1>5
  <2>2. /\ st \in Seq(Entries) /\ names \in Seq(Fixtures)
        /\ Range(names) \subseteq Range(fixturenames[i])
        /\ \A f \in Range(names) : scope[f] # "function"
    BY <1>0, PushedFacts, NamesTyped
  <2>3. \A f \in Range(names) : f \in Fixtures /\ Def(f, i) = <<f>>
    BY <2>2, DefFacts DEF Range
  <2>4. CacheInv' /\ ArgsTyped' /\ Finalized(st, i, Range(names))
    BY <1>3, <2>1, <2>2, ResolvedArgs
  <2>5. PICK found \in SUBSET Range(names) : Filled(i, found)
    BY <1>3, <2>1, <2>2, ResolvedArgs
  <2>6. FunctionInv'
    <3> SUFFICES ASSUME NEW f \in Fixtures, scope[f] = "function", cached_result'[<<f>>] # None
                 PROVE  FALSE
      BY DEF FunctionInv
    <3>1. PICK g \in Range(names) : <<f>> = Def(g, i)
      BY <1>2, <2>4, DefShape DEF Finalized
    <3> QED  BY <2>2, <2>3, <3>1, DefShape
  <2>7. ASSUME NEW j \in Items, NEW f \in Fixtures
        PROVE  \/ funcargs'[j][f] = funcargs[j][f]
               \/ /\ j = i /\ scope[f] # "function" /\ funcargs'[j][f] \in alive'
                  /\ funcargs'[j][f].def = <<f>>
    <3>1. CASE j = i /\ f \in found
      <4>1. funcargs'[i][f] = cached_result'[<<f>>] /\ Set(cached_result'[<<f>>])
        BY <2>3, <2>5, <3>1 DEF Filled
      <4>2. scope[f] # "function" /\ <<f>> \in Defs
        BY <2>2, <3>1, DefShape
      <4> QED  BY <2>4, <3>1, <4>1, <4>2 DEF CacheInv
    <3>2. CASE j # i \/ f \notin found
      BY <2>5, <3>2 DEF Filled
    <3> QED  BY <3>1, <3>2
  <2>8. ASSUME NEW j \in Items, NEW f \in Fixtures, scope[f] = "function", funcargs'[j][f] # None
        PROVE  funcargs'[j][f].by = j
    BY <2>7, <2>8 DEF ValuesInv, ArgsInv
  <2>9. ASSUME NEW j \in Items, wpc'[j] = "out", NEW f \in Fixtures
        PROVE  funcargs'[j][f] = None
    <3>1. j # i /\ wpc[j] = "out"
      BY <1>0, <2>9
    <3> QED  BY <2>5, <3>1 DEF Filled, ValuesInv, ArgsInv
  <2>10. ASSUME NEW j \in Items, j \in ParallelSet', wpc'[j] \in {"queued", "setup", "executing", "call"},
                NEW f \in Fixtures, funcargs'[j][f] # None
         PROVE  funcargs'[j][f] \in alive' /\ funcargs'[j][f].def = Def(f, j)'
    <3>1. CASE j = i
      <4>1. funcargs'[i][f] \in alive' /\ funcargs'[i][f].def = <<f>> /\ scope[f] # "function"
        BY <1>1, <2>7, <2>10, <3>1
      <4>2. Def(f, i)' = <<f>>
        BY <4>1 DEF Def
      <4> QED  BY <3>1, <4>1, <4>2
    <3>2. CASE j # i
      <4>1. wpc'[j] = wpc[j] /\ j \in ParallelSet /\ funcargs'[j][f] = funcargs[j][f]
        BY <1>0, <2>7, <2>10, <3>2
      <4>2. funcargs[j][f] \in alive /\ funcargs[j][f].def = Def(f, j)
        BY <1>0, <2>10, <4>1 DEF ValuesInv, ArgsInv
      <4>3. Def(f, j)' = Def(f, j)
        BY <1>5, <3>2 DEF Def
      <4> QED  BY <2>5, <4>1, <4>2, <4>3 DEF Filled
    <3> QED  BY <3>1, <3>2
  <2>11. \A j \in ParallelSet' : j \in Items
    <3>1. parallel_items \in Seq(Items)
      BY DEF ItemsInv, ControlInv
    <3>2. ParallelSet \subseteq Items
      BY <3>1 DEF ParallelSet, Range
    <3> QED  BY <1>0, <3>2
  <2>12. ArgsInv'
    BY <1>0, <2>4, <2>8, <2>9, <2>10, <2>11 DEF ArgsInv, ArgsTyped
  <2> QED  BY <2>4, <2>6, <2>12
<1> QED  BY <1>4, <1>5

LEMMA PrepareValues ==
  ASSUME ItemsInv, PlaceInv, StackInv, ValuesInv, Prepare
  PROVE  CacheInv' /\ FunctionInv' /\ ArgsInv'
<1>0. parallel_items \in Seq(Items) /\ ParallelSet = {parallel_items[k] : k \in DOMAIN parallel_items}
  BY DEF ItemsInv, ControlInv, ParallelSet, Range
<1>1. CASE Transition
  <2>1. /\ mpc = "hook" /\ UNCHANGED <<mpc, cloned, parallel_items, tests>>
        /\ alive' = alive \ FinishedBy(DefsAbove(Cleared, Kept(Cleared, item)))
        /\ cached_result' = Forget(cached_result, DefsAbove(Cleared, Kept(Cleared, item)))
        /\ UNCHANGED created
    BY <1>1 DEF Transition, TeardownExact, Cleared, control
  <2>2. DefsAbove(Cleared, Kept(Cleared, item)) = {}
    <3>1. \A k \in (Kept(Cleared, item) + 1) .. Len(Cleared) : Cleared[k].fins = <<>>
      BY <1>1, TransitionFacts
    <3> QED  BY <3>1 DEF DefsAbove, Range
  <2>3. alive' = alive
    BY <2>1, <2>2 DEF FinishedBy
  <2>4. cached_result' = cached_result
    BY <2>1, <2>2 DEF Forget, ValuesInv, CacheInv
  <2>5. CacheInv' /\ FunctionInv'
    BY <2>1, <2>3, <2>4 DEF ValuesInv, CacheInv, FunctionInv
  <2>6. ArgsInv'
    BY <2>1, <2>3, <2>4 DEF tests, ValuesInv, ArgsInv, ParallelSet, Def
  <2> QED  BY <2>5, <2>6
<1>2. CASE HookPasses
  <2>1. /\ HookEntered /\ wpc' = [wpc EXCEPT ![item] = "queued"]
        /\ Resolve(Pushed(stack, item), item, ToPopulate(item)) /\ cloned' = cloned \cup {item}
        /\ parallel_items' = Append(parallel_items, item)
    BY <1>2 DEF HookPasses, Clone
  <2>2. item \in Items
    BY <2>1, HookPath
  <2>3. ParallelSet' \subseteq ParallelSet \cup {item}
    BY <1>0, <2>1, <2>2 DEF ParallelSet, Range
  <2> QED  BY <2>1, <2>3, HookValues
<1>3. CASE HookFails
  BY <1>3, HookValues DEF HookFails, prepared, ParallelSet
<1>4. CASE HookSkips
  BY <1>4, HookValues DEF HookSkips, prepared, ParallelSet
<1>5. CASE PushItems
  <2>1. /\ mpc = "hook" /\ mpc' = "workers"
        /\ UNCHANGED <<cached_result, alive, created, prepared, tests>>
    BY <1>5 DEF PushItems
  <2>2. \A i \in Items : wpc[i] # "call"
    BY <2>1 DEF PlaceInv
  <2>3. CacheInv' /\ FunctionInv'
    BY <2>1 DEF ValuesInv, CacheInv, FunctionInv
  <2>4. ArgsInv'
    BY <2>1, <2>2 DEF tests, prepared, ValuesInv, ArgsInv, ParallelSet, Def
  <2> QED  BY <2>3, <2>4
<1> QED  BY <1>1, <1>2, <1>3, <1>4, <1>5 DEF Prepare

(* A step of a worker that sets up at most one fixture, its next one.      *)
LEMMA OneCached ==
  ASSUME CacheInv, NEW i \in Items, NEW f \in Range(fixturenames[i]),
         NEW new \in SUBSET {Value(f, i)},
         created' = created \cup new, alive' = alive \cup new,
         cached_result' = [d \in Defs |-> cached_result'[d]],
         \A d \in Defs : \/ cached_result'[d] \in {None, cached_result[d]}
                         \/ /\ d = Def(f, i)
                            /\ cached_result'[d] = Error \/ cached_result'[d] \in new
  PROVE  CacheInv'
<1>1. /\ f \in Fixtures /\ Value(f, i) \in Instances /\ Value(f, i).def = Def(f, i)
      /\ Value(f, i).by = i
  BY ValueFacts
<1>2. created' \subseteq Instances /\ alive' \subseteq created'
  BY <1>1 DEF CacheInv
<1>3. cached_result' \in [Defs -> created' \cup {None, Error}]
  BY DEF CacheInv
<1>4. \A d \in Defs : Set(cached_result'[d]) =>
        cached_result'[d] \in alive' /\ cached_result'[d].def = d
  BY <1>1 DEF CacheInv, Set
<1>5. ASSUME NEW g \in Fixtures, NEW j \in Items, scope[g] = "function",
             Set(cached_result'[<<g, j>>])
      PROVE  cached_result'[<<g, j>>].by = j
  <2>1. <<g, j>> \in Defs
    BY <1>5, DefShape
  <2>2. CASE <<g, j>> = Def(f, i) /\ cached_result'[<<g, j>>] = Value(f, i)
    <3>1. Def(f, i) \in {<<f>>, <<f, i>>} /\ <<f>> \in Defs
      BY <1>1, DefShape DEF Def
    <3>2. j = i
      BY <1>1, <2>1, <2>2, <3>1, DefShape
    <3> QED  BY <1>1, <2>2, <3>2
  <2>3. CASE cached_result'[<<g, j>>] = cached_result[<<g, j>>]
    BY <1>5, <2>3 DEF CacheInv
  <2> QED  BY <1>5, <2>1, <2>2, <2>3 DEF Set
<1> QED  BY <1>2, <1>3, <1>4, <1>5 DEF CacheInv

(* What the threads do to the values of the others.                        *)
LEMMA OthersValues ==
  ASSUME PlaceInv, FunctionInv, ArgsInv, ItemsInv, ArgsTyped', NEW i \in Items,
         i \in ParallelSet, mpc = "workers", UNCHANGED <<control, prepared>>,
         \A d \in Defs : \/ cached_result'[d] \in {None, cached_result[d]}
                         \/ \E f \in Fixtures : d = Def(f, i),
         \A x \in alive \ alive' : x.def \in FunctionDefs(i),
         NEW p \in ItemPlaces \ {"out", "queued"}, wpc' = [wpc EXCEPT ![i] = p],
         \A j \in Items \ {i} : funcargs'[j] = funcargs[j],
         \A g \in Fixtures : scope[g] = "function" /\ funcargs'[i][g] # None =>
           funcargs'[i][g].by = i,
         p \in {"setup", "executing", "call"} => \A g \in Fixtures :
           funcargs'[i][g] # None =>
             funcargs'[i][g] \in alive' /\ funcargs'[i][g].def = Def(g, i),
         p = "call" => /\ Unresolved(i)' = {}
                       /\ \A d \in FunctionDefs(i) : cached_result'[d] = None
  PROVE  FunctionInv' /\ ArgsInv'
<1>1. ParallelSet' = ParallelSet /\ mpc' = "workers" /\ UNCHANGED cloned
  BY DEF control, prepared, ParallelSet
<1>2. i \in cloned /\ wpc \in [Items -> ItemPlaces] /\ ParallelSet \subseteq cloned
  BY DEF PlaceInv, ItemsInv, ControlInv
<1>3. ASSUME NEW g \in Fixtures, scope[g] = "function" PROVE cached_result'[<<g>>] = None
  <2>1. cached_result[<<g>>] = None /\ <<g>> \in Defs
    BY <1>3, DefShape DEF FunctionInv
  <2>2. ASSUME NEW f \in Fixtures PROVE <<g>> # Def(f, i)
    <3> SUFFICES ASSUME <<g>> = Def(f, i) PROVE FALSE
      OBVIOUS
    <3>1. Def(f, i) = <<f, i>> \/ (Def(f, i) = <<f>> /\ scope[f] # "function")
      BY <1>2 DEF Def
    <3> QED  BY <1>3, <2>1, <3>1, DefShape
  <2> QED  BY <2>1, <2>2
<1>4. FunctionInv'
  BY <1>3 DEF FunctionInv
<1>5. \A j \in Items, g \in Fixtures : Def(g, j)' = Def(g, j)
  BY <1>1 DEF Def
<1>6. ASSUME NEW j \in Items, j \in cloned, j # i, NEW g \in Fixtures PROVE Def(g, j) \notin FunctionDefs(i)
  <2> SUFFICES ASSUME NEW h \in Range(fixturenames[i]), scope[h] = "function",
                      Def(g, j) = Def(h, i)
               PROVE  FALSE
    BY DEF FunctionDefs
  <2>1. h \in Fixtures
    BY ValueFacts
  <2>2. Def(h, i) = <<h, i>>
    BY <1>2, <2>1 DEF Def
  <2>3. Def(g, j) \in {<<g>>, <<g, j>>} /\ <<g>> \in Defs
    BY DefShape DEF Def
  <2> QED  BY <1>6, <2>1, <2>2, <2>3, DefShape
<1>7. ASSUME NEW j \in ParallelSet, wpc'[j] \in {"queued", "setup", "executing", "call"},
             NEW g \in Fixtures, funcargs'[j][g] # None
      PROVE  funcargs'[j][g] \in alive' /\ funcargs'[j][g].def = Def(g, j)
  <2>0. j \in Items
    BY <1>2 DEF PlaceInv
  <2>1. CASE j = i
    BY <1>2, <1>7, <2>1
  <2>2. CASE j # i
    <3>1. wpc'[j] = wpc[j] /\ funcargs'[j] = funcargs[j]
      BY <1>2, <2>0, <2>2
    <3>2. funcargs[j][g] \in alive /\ funcargs[j][g].def = Def(g, j)
      BY <1>7, <3>1 DEF ArgsInv
    <3>3. funcargs[j][g].def \notin FunctionDefs(i)
      BY <1>2, <1>6, <2>0, <2>2, <3>2
    <3> QED  BY <3>1, <3>2, <3>3
  <2> QED  BY <2>1, <2>2
<1>8. ASSUME NEW j \in Items, wpc'[j] = "call"
      PROVE  Unresolved(j)' = {} /\ \A d \in FunctionDefs(j)' : cached_result'[d] = None
  <2>1. FunctionDefs(j)' = FunctionDefs(j)
    BY <1>1 DEF FunctionDefs, Def
  <2>2. CASE j = i
    BY <1>2, <1>8, <2>1, <2>2
  <2>3. CASE j # i
    <3>1. wpc[j] = "call" /\ funcargs'[j] = funcargs[j]
      BY <1>2, <1>8, <2>3
    <3>2. Unresolved(j)' = Unresolved(j)
      BY <3>1 DEF Unresolved
    <3>3. Unresolved(j) = {} /\ \A d \in FunctionDefs(j) : cached_result[d] = None
      BY <3>1 DEF ArgsInv
    <3>4. j \in cloned
      BY <1>2, <3>1 DEF PlaceInv
    <3>5. ASSUME NEW d \in FunctionDefs(j), NEW f \in Fixtures
          PROVE  d \in Defs /\ d # Def(f, i)
      <4>1. PICK h \in Range(fixturenames[j]) : scope[h] = "function" /\ d = Def(h, j)
        BY DEF FunctionDefs
      <4>2. h \in Fixtures
        BY ValueFacts
      <4>3. d = <<h, j>> /\ d \in Defs
        BY <3>4, <4>1, <4>2, DefFacts
      <4>4. Def(f, i) \in {<<f>>, <<f, i>>} /\ <<f>> \in Defs
        BY DefShape DEF Def
      <4> QED  BY <2>3, <4>2, <4>3, <4>4, DefShape
    <3>6. FunctionDefs(j) \subseteq Defs
      <4>1. \A h \in Range(fixturenames[j]) : h \in Fixtures
        BY ValueFacts
      <4> QED  BY <4>1, DefFacts DEF FunctionDefs
    <3> QED  BY <2>1, <3>2, <3>3, <3>5, <3>6
  <2> QED  BY <2>2, <2>3
<1>9. ASSUME NEW j \in Items, NEW g \in Fixtures, scope[g] = "function", funcargs'[j][g] # None
      PROVE  funcargs'[j][g].by = j
  BY <1>9 DEF ArgsInv
<1>10. ASSUME NEW j \in Items, wpc'[j] = "out", NEW g \in Fixtures
       PROVE  funcargs'[j][g] = None
  BY <1>2, <1>10 DEF ArgsInv
<1>11. \A j \in ParallelSet : j \in Items
  BY <1>2 DEF PlaceInv
<1>12. ArgsInv'
  BY <1>1, <1>5, <1>7, <1>8, <1>9, <1>10, <1>11 DEF ArgsInv, ArgsTyped
<1> QED  BY <1>4, <1>12

LEMMA WorkerValues ==
  ASSUME ItemsInv, PlaceInv, NextInv, ValuesInv, NEW i \in Items, Worker(i)
  PROVE  CacheInv' /\ FunctionInv' /\ ArgsInv'
<1>0. /\ mpc = "workers" /\ i \in ParallelSet /\ UNCHANGED <<control, prepared>>
      /\ i \in cloned
  BY DEF Worker, Take, CacheHit, CacheMiss, Execute, ExecuteRaises, EnterCall, LeaveCall, PlaceInv
<1>1. CacheInv /\ FunctionInv /\ ArgsInv /\ ArgsTyped
  BY DEF ValuesInv, ArgsInv, ArgsTyped
<1>2. wpc \in [Items -> ItemPlaces] /\ DOMAIN cached_result = Defs
  BY <1>1 DEF ItemsInv, ControlInv, CacheInv
<1>3. ASSUME wpc[i] \in {"queued", "setup", "executing", "call"}, NEW g \in Fixtures, funcargs[i][g] # None
      PROVE  funcargs[i][g] \in alive /\ funcargs[i][g].def = Def(g, i)
  BY <1>0, <1>1, <1>3 DEF ArgsInv
<1>4. \A g \in Fixtures : scope[g] = "function" /\ funcargs[i][g] # None => funcargs[i][g].by = i
  BY <1>1 DEF ArgsInv
<1>5. ASSUME Unresolved(i) # {}
      PROVE  /\ NextName(i) \in Range(fixturenames[i]) /\ NextName(i) \in Fixtures
             /\ Def(NextName(i), i) \in Defs
  BY <1>5, NextNameFacts
<1>6. \A d \in FunctionDefs(i) : d \in Defs /\ \E g \in Fixtures : d = <<g, i>>
  <2> SUFFICES ASSUME NEW h \in Range(fixturenames[i]), scope[h] = "function"
               PROVE  Def(h, i) \in Defs /\ \E g \in Fixtures : Def(h, i) = <<g, i>>
    BY DEF FunctionDefs
  <2>1. h \in Fixtures
    BY ValueFacts
  <2> QED  BY <1>0, <2>1, DefFacts
<1>7. CASE Take(i) \/ CacheMiss(i)
  <2>1. /\ UNCHANGED <<cached_result, alive, created, funcargs>>
        /\ wpc[i] \in {"queued", "setup"}
        /\ \E p \in {"setup", "executing"} : wpc' = [wpc EXCEPT ![i] = p]
    BY <1>7 DEF Take, CacheMiss, caches
  <2>2. CacheInv' /\ ArgsTyped'
    BY <1>1, <2>1 DEF CacheInv, ArgsTyped
  <2>3. PICK p \in {"setup", "executing"} : wpc' = [wpc EXCEPT ![i] = p]
    BY <2>1
  <2>4. p \in ItemPlaces \ {"out", "queued"}
    BY DEF ItemPlaces
  <2>5. FunctionInv' /\ ArgsInv'
    BY <1>0, <1>1, <1>3, <1>4, <2>1, <2>2, <2>3, <2>4, OthersValues
  <2> QED  BY <2>2, <2>5
<1>8. CASE CacheHit(i)
  <2> PICK f, hit : f = NextName(i) /\ hit = cached_result[Def(f, i)]
    OBVIOUS
  <2>1. /\ wpc[i] = "setup" /\ Unresolved(i) # {} /\ hit # None
        /\ UNCHANGED <<alive, created>>
        /\ IF hit = Error
           THEN /\ cached_result' = Forget(cached_result, FunctionDefs(i))
                /\ wpc' = [wpc EXCEPT ![i] = "errored"] /\ UNCHANGED funcargs
           ELSE /\ funcargs' = [funcargs EXCEPT ![i][f] = hit]
                /\ UNCHANGED <<cached_result, wpc>>
    BY <1>8 DEF CacheHit
  <2>2. f \in Range(fixturenames[i]) /\ f \in Fixtures /\ Def(f, i) \in Defs
    BY <1>5, <2>1
  <2>3. CASE hit = Error
    <3>1. /\ cached_result' = [d \in Defs |-> cached_result'[d]]
          /\ \A d \in Defs : cached_result'[d] =
               IF d \in FunctionDefs(i) THEN None ELSE cached_result[d]
      BY <2>1, <2>3 DEF Forget
    <3>2. /\ \A d \in Defs : cached_result'[d] \in {None, cached_result[d]}
          /\ created' = created \cup {} /\ alive' = alive \cup {}
      BY <2>1, <3>1
    <3>3. CacheInv'
      BY <1>1, <2>2, <3>1, <3>2, OneCached
    <3>4. ArgsTyped' /\ wpc' = [wpc EXCEPT ![i] = "errored"] /\ UNCHANGED <<funcargs, alive>>
      BY <1>1, <2>1, <2>3 DEF ArgsTyped
    <3>5. "errored" \in ItemPlaces \ {"out", "queued"}
      BY DEF ItemPlaces
    <3> QED  BY <1>0, <1>1, <1>4, <3>2, <3>3, <3>4, <3>5, OthersValues
  <2>4. CASE hit # Error
    <3>1. /\ funcargs' = [funcargs EXCEPT ![i][f] = hit] /\ UNCHANGED <<cached_result, wpc>>
      BY <2>1, <2>4
    <3>2. hit \in alive /\ hit \in created /\ hit.def = Def(f, i)
      BY <1>1, <2>1, <2>2, <2>4 DEF CacheInv, Set
    <3>3. /\ \A j \in Items \ {i} : funcargs'[j] = funcargs[j]
          /\ \A g \in Fixtures : funcargs'[i][g] = IF g = f THEN hit ELSE funcargs[i][g]
      BY <1>1, <2>2, <3>1 DEF ArgsTyped
    <3>4. ArgsTyped'
      BY <1>1, <2>1, <2>2, <3>1, <3>2 DEF ArgsTyped
    <3>5. scope[f] = "function" => hit.by = i
      <4> SUFFICES ASSUME scope[f] = "function" PROVE hit.by = i
        OBVIOUS
      <4>1. Def(f, i) = <<f, i>>
        BY <1>0, <2>2, DefFacts
      <4> QED  BY <1>1, <2>1, <2>2, <2>4, <4>1 DEF CacheInv, Set
    <3>6. CacheInv'
      BY <1>1, <2>1, <3>1 DEF CacheInv
    <3>7. "setup" \in ItemPlaces \ {"out", "queued"} /\ wpc' = [wpc EXCEPT ![i] = "setup"]
      BY <1>2, <2>1, <3>1 DEF ItemPlaces
    <3>8. /\ \A g \in Fixtures : scope[g] = "function" /\ funcargs'[i][g] # None =>
               funcargs'[i][g].by = i
          /\ \A g \in Fixtures : funcargs'[i][g] # None =>
               funcargs'[i][g] \in alive' /\ funcargs'[i][g].def = Def(g, i)
      BY <1>3, <1>4, <2>1, <3>2, <3>3, <3>5
    <3> QED  BY <1>0, <1>1, <2>1, <3>1, <3>3, <3>4, <3>6, <3>7, <3>8, OthersValues
  <2> QED  BY <2>3, <2>4
<1>9. CASE Execute(i)
  <2> PICK f, v, done : /\ f = NextName(i) /\ v = Value(f, i)
                        /\ done = (scope[f] = "function" \/ v.node \in StackNodes)
    OBVIOUS
  <2>1. /\ wpc[i] = "executing" /\ alive' = alive \cup {v} /\ created' = created \cup {v}
        /\ cached_result' = IF done THEN [cached_result EXCEPT ![v.def] = v]
                            ELSE Forget([cached_result EXCEPT ![v.def] = v], FunctionDefs(i))
        /\ funcargs' = IF done THEN [funcargs EXCEPT ![i][f] = v] ELSE funcargs
        /\ wpc' = [wpc EXCEPT ![i] = IF done THEN "setup" ELSE "broken"]
    BY <1>9 DEF Execute
  <2>2. f \in Range(fixturenames[i]) /\ f \in Fixtures /\ Def(f, i) \in Defs
    BY <1>5, <2>1 DEF NextInv
  <2>3. v.def = Def(f, i) /\ v.by = i /\ v \in Instances
    BY <2>2, ValueFacts
  <2>4. /\ cached_result' = [d \in Defs |-> cached_result'[d]]
        /\ \A d \in Defs : \/ cached_result'[d] \in {None, cached_result[d]}
                           \/ d = Def(f, i) /\ cached_result'[d] = v
    BY <1>2, <2>1, <2>3 DEF Forget
  <2>5. CacheInv'
    <3> PICK new : new = {Value(f, i)}
      OBVIOUS
    <3>1. /\ new \in SUBSET {Value(f, i)}
          /\ created' = created \cup new /\ alive' = alive \cup new
          /\ \A d \in Defs : \/ cached_result'[d] \in {None, cached_result[d]}
                             \/ /\ d = Def(f, i)
                                /\ cached_result'[d] = Error \/ cached_result'[d] \in new
      BY <2>1, <2>4
    <3> QED  BY <1>1, <2>2, <2>4, <3>1, OneCached
  <2>6. /\ \A j \in Items \ {i} : funcargs'[j] = funcargs[j]
        /\ \A g \in Fixtures : \/ funcargs'[i][g] = funcargs[i][g]
                               \/ g = f /\ funcargs'[i][g] = v
    BY <1>1, <2>1, <2>2 DEF ArgsTyped
  <2>7. ArgsTyped'
    BY <1>1, <2>1, <2>2 DEF ArgsTyped
  <2>8. /\ \A g \in Fixtures : scope[g] = "function" /\ funcargs'[i][g] # None =>
             funcargs'[i][g].by = i
        /\ \A g \in Fixtures : funcargs'[i][g] # None =>
             funcargs'[i][g] \in alive' /\ funcargs'[i][g].def = Def(g, i)
    BY <1>3, <1>4, <2>1, <2>3, <2>6
  <2>9. /\ \A x \in alive \ alive' : x.def \in FunctionDefs(i)
        /\ \A d \in Defs : \/ cached_result'[d] \in {None, cached_result[d]}
                           \/ \E g \in Fixtures : d = Def(g, i)
    BY <2>1, <2>2, <2>4
  <2> PICK p : p = IF done THEN "setup" ELSE "broken"
    OBVIOUS
  <2>10. /\ p \in ItemPlaces \ {"out", "queued"} /\ p # "call"
         /\ wpc' = [wpc EXCEPT ![i] = p]
    BY <2>1 DEF ItemPlaces
  <2>11. FunctionInv' /\ ArgsInv'
    BY <1>0, <1>1, <2>6, <2>7, <2>8, <2>9, <2>10, OthersValues
  <2> QED  BY <2>5, <2>11
<1>10. CASE ExecuteRaises(i)
  <2> PICK f, p : /\ f = NextName(i)
                  /\ p = IF scope[f] = "function" \/ NodeFor(f, i) \in StackNodes
                         THEN "errored" ELSE "broken"
    OBVIOUS
  <2>1. /\ wpc[i] = "executing" /\ UNCHANGED <<alive, created, funcargs>>
        /\ cached_result' = Forget([cached_result EXCEPT ![Def(f, i)] = Error], FunctionDefs(i))
        /\ wpc' = [wpc EXCEPT ![i] = p]
    BY <1>10 DEF ExecuteRaises
  <2>2. f \in Range(fixturenames[i]) /\ f \in Fixtures /\ Def(f, i) \in Defs
    BY <1>5, <2>1 DEF NextInv
  <2>3. /\ cached_result' = [d \in Defs |-> cached_result'[d]]
        /\ \A d \in Defs : \/ cached_result'[d] \in {None, cached_result[d]}
                           \/ d = Def(f, i) /\ cached_result'[d] = Error
    BY <1>2, <2>1 DEF Forget
  <2>4. created' = created \cup {} /\ alive' = alive \cup {}
    BY <2>1
  <2>5. CacheInv'
    BY <1>1, <2>2, <2>3, <2>4, OneCached
  <2>6. /\ p \in ItemPlaces \ {"out", "queued"}
        /\ p \notin {"setup", "executing", "call"}
    BY DEF ItemPlaces
  <2>7. ArgsTyped' /\ \A x \in alive \ alive' : x.def \in FunctionDefs(i)
    BY <1>1, <2>1 DEF ArgsTyped
  <2>8. \A d \in Defs : \/ cached_result'[d] \in {None, cached_result[d]}
                       \/ \E g \in Fixtures : d = Def(g, i)
    BY <2>2, <2>3
  <2>9. FunctionInv' /\ ArgsInv'
    BY <1>0, <1>1, <1>4, <2>1, <2>6, <2>7, <2>8, OthersValues
  <2> QED  BY <2>5, <2>9
<1>11. CASE EnterCall(i)
  <2>1. /\ wpc[i] = "setup" /\ Unresolved(i) = {} /\ UNCHANGED <<alive, created, funcargs>>
        /\ cached_result' = Forget(cached_result, FunctionDefs(i))
        /\ wpc' = [wpc EXCEPT ![i] = "call"]
    BY <1>11 DEF EnterCall
  <2>2. /\ cached_result' = [d \in Defs |-> cached_result'[d]]
        /\ \A d \in Defs : cached_result'[d] =
             IF d \in FunctionDefs(i) THEN None ELSE cached_result[d]
    BY <2>1 DEF Forget
  <2>3. /\ \A d \in Defs : cached_result'[d] \in {None, cached_result[d]}
        /\ \A d \in FunctionDefs(i) : cached_result'[d] = None
    BY <1>6, <2>2
  <2>4. CacheInv'
    BY <1>1, <2>1, <2>2, <2>3, DefShape DEF CacheInv, Set
  <2>5. /\ Unresolved(i)' = {} /\ ArgsTyped' /\ "call" \in ItemPlaces \ {"out", "queued"}
        /\ \A x \in alive \ alive' : x.def \in FunctionDefs(i)
    BY <1>1, <2>1 DEF Unresolved, ArgsTyped, ItemPlaces
  <2>6. FunctionInv' /\ ArgsInv'
    BY <1>0, <1>1, <1>3, <1>4, <2>1, <2>3, <2>5, OthersValues
  <2> QED  BY <2>4, <2>6
<1>12. ASSUME NEW outcome \in {"passed", "failed"}, LeaveCall(i, outcome)
       PROVE  CacheInv' /\ FunctionInv' /\ ArgsInv'
  <2>1. /\ wpc[i] = "call" /\ UNCHANGED <<cached_result, created, funcargs>>
        /\ alive' = alive \ FinishedBy(FunctionDefs(i))
        /\ wpc' = [wpc EXCEPT ![i] = outcome]
    BY <1>12 DEF LeaveCall
  <2>2. \A d \in FunctionDefs(i) : cached_result[d] = None
    BY <1>0, <1>1, <2>1 DEF ArgsInv
  <2>3. \A x \in alive \ alive' : x.def \in FunctionDefs(i)
    BY <2>1 DEF FinishedBy
  <2>4. \A d \in Defs : Set(cached_result[d]) => cached_result[d] \in alive'
    BY <1>1, <2>2, <2>3 DEF CacheInv, Set
  <2>5. CacheInv'
    BY <1>1, <2>1, <2>4 DEF CacheInv
  <2>6. ArgsTyped' /\ outcome \in ItemPlaces \ {"out", "queued"}
    BY <1>1, <2>1 DEF ArgsTyped, ItemPlaces
  <2>7. FunctionInv' /\ ArgsInv'
    BY <1>0, <1>1, <1>4, <2>1, <2>3, <2>6, OthersValues
  <2> QED  BY <2>5, <2>7
<1> QED  BY <1>7, <1>8, <1>9, <1>10, <1>11, <1>12 DEF Worker

LEMMA CloseValues ==
  ASSUME ItemsInv, ValuesInv, Close
  PROVE  CacheInv' /\ FunctionInv' /\ ArgsInv'
<1>0. /\ CacheInv /\ ArgsInv
      /\ mpc \notin {"seqcall", "seqteardown"} => \A f \in Fixtures : scope[f] = "function" =>
           cached_result[<<f>>] = None
  BY DEF ValuesInv, FunctionInv
<1>1. CASE PopItems
  <2>1. /\ mpc = "workers" /\ mpc' = "teardown_all"
        /\ UNCHANGED <<cached_result, alive, created, wpc, funcargs>>
    BY <1>1 DEF PopItems, tests
  <2> QED  BY <1>0, <2>1 DEF CacheInv, FunctionInv, ArgsInv
<1>2. ASSUME NEW raises \in BOOLEAN, TeardownShared(raises)
      PROVE  CacheInv' /\ FunctionInv' /\ ArgsInv'
  <2>1. /\ mpc = "teardown_all" /\ mpc' \in {"error", "deferred"} /\ UNCHANGED wpc
        /\ TeardownExact(stack, next_group_first)
        /\ funcargs' = [i \in Items |-> IF i \in Range(groups[group_idx])
                                        THEN [f \in Fixtures |-> None] ELSE funcargs[i]]
    BY <1>2 DEF TeardownShared
  <2>2. CacheInv' /\ created' = created
    BY <1>0, <2>1, CacheForget DEF TeardownExact
  <2>3. FunctionInv'
    BY <1>0, <2>1, DefShape DEF TeardownExact, Forget, FunctionInv
  <2>4. ArgsTyped /\ \A i \in Items, f \in Fixtures : funcargs'[i][f] \in {None, funcargs[i][f]}
    BY <1>0, <2>1 DEF ArgsTyped, ArgsInv
  <2>5. ArgsTyped'
    BY <2>1, <2>2, <2>4 DEF ArgsTyped
  <2>6. ArgsInv'
    BY <1>0, <2>1, <2>4, <2>5 DEF ArgsInv, ArgsTyped
  <2> QED  BY <2>2, <2>3, <2>6
<1>3. CASE RunFinalizer
  <2>1. /\ mpc = "deferred" /\ mpc' = "deferred" /\ UNCHANGED <<created, wpc, funcargs>>
        /\ alive' = alive \ FinishedBy({Last(deferred)})
        /\ cached_result' = Forget(cached_result, {Last(deferred)})
    BY <1>3 DEF RunFinalizer, control, tests
  <2>2. CacheInv'
    BY <1>0, <2>1, CacheForget
  <2>3. FunctionInv'
    BY <1>0, <2>1, DefShape DEF Forget, FunctionInv
  <2>4. ArgsInv'
    BY <1>0, <2>1 DEF ArgsInv
  <2> QED  BY <2>2, <2>3, <2>4
<1>4. CASE CloseGroup
  <2>1. /\ mpc = "deferred" /\ mpc' \in {"loop", "error"}
        /\ UNCHANGED <<cached_result, alive, created, wpc, funcargs>>
    BY <1>4 DEF CloseGroup, NextGroup, caches, tests
  <2> QED  BY <1>0, <2>1 DEF CacheInv, FunctionInv, ArgsInv
<1> QED  BY <1>1, <1>2, <1>3, <1>4 DEF Close

LEMMA ValuesStep ==
  ASSUME SessionInv, ValuesInv, [Next]_vars
  PROVE  ValuesInv'
<1>0. ItemsInv /\ PlaceInv /\ StackInv /\ NextInv
  BY DEF SessionInv
<1>1. AheadInv'
  BY <1>0, AheadStep DEF ValuesInv
<1>2. CASE Proceed
  <2>1. CacheInv' /\ FunctionInv' /\ ArgsInv'
    BY <1>0, <1>2, LoopValues, SequentialValues, PrepareValues, CloseValues DEF Proceed
  <2> QED  BY <1>1, <2>1 DEF ValuesInv
<1>3. ASSUME NEW i \in Items, Worker(i) PROVE ValuesInv'
  BY <1>0, <1>1, <1>3, WorkerValues DEF ValuesInv
<1>4. CASE UNCHANGED Rest
  <2>1. UNCHANGED <<mpc, group_idx, idx, stack, cached_result, alive, created, cloned,
                    parallel_items, wpc, funcargs>>
    BY <1>4 DEF Rest, control, caches, prepared
  <2>2. CacheInv' /\ FunctionInv'
    BY <2>1 DEF ValuesInv, CacheInv, FunctionInv, item
  <2>3. ArgsInv'
    BY <2>1 DEF ValuesInv, ArgsInv, item, ParallelSet, Unresolved, FunctionDefs, Def
  <2> QED  BY <1>1, <2>2, <2>3 DEF ValuesInv
<1> QED  BY <1>2, <1>3, <1>4, Steps

LEMMA ValuesAlways == Spec => [](SessionInv /\ ValuesInv)
<1>1. Init => ValuesInv
  BY ValuesInit
<1>2. SessionInv /\ ValuesInv /\ [Next]_vars => ValuesInv'
  BY ValuesStep
<1> QED  BY <1>1, <1>2, SessionAlways, PTL DEF Spec

-----------------------------------------------------------------------------
(* The limit of failures.                                                  *)

Uncounted == Failures \ reported

(* pytest has counted every failure but those of a parallel group that is  *)
(* under way; a group none of whose items was taken up was entered before  *)
(* the limit.                                                              *)
CountInv ==
  /\ testsfailed \in Nat /\ reported \subseteq Items
  /\ IsFiniteSet(reported) /\ Cardinality(reported) <= testsfailed
  /\ Uncounted # {} =>
       mpc \in {"hook", "workers"} /\ Uncounted \subseteq Range(groups[group_idx])
  /\ mpc \in {"seq", "hook"} /\ (\A j \in Range(groups[group_idx]) : wpc[j] = "out")
       => ~ shouldfail

LEMMA CountInit == Init => CountInv
  BY FS_EmptySet DEF Init, CountInv, Uncounted, Failures, Ended

(* A failure more is reported and counted.                                 *)
LEMMA OneMore ==
  ASSUME CountInv, NEW i \in Items, i \notin reported,
         reported' = reported \cup {i}, testsfailed' = testsfailed + 1
  PROVE  /\ testsfailed' \in Nat /\ reported' \subseteq Items
         /\ IsFiniteSet(reported') /\ Cardinality(reported') <= testsfailed'
<1>1. IsFiniteSet(reported) /\ Cardinality(reported) \in Nat
  BY FS_CardinalityType DEF CountInv
<1>2. IsFiniteSet(reported') /\ Cardinality(reported') = Cardinality(reported) + 1
  BY <1>1, FS_AddElement
<1> QED  BY <1>1, <1>2 DEF CountInv

(* Only the end of a test changes what has failed.                         *)
LEMMA FailuresKept ==
  ASSUME wpc \in [Items -> ItemPlaces], NEW i \in Items, NEW p,
         wpc' = [wpc EXCEPT ![i] = p]
  PROVE  /\ Failures' \subseteq Failures \cup {i}
         /\ p \notin {"failed", "broken", "errored"} => Failures' \subseteq Failures
  BY DEF Failures, Ended

LEMMA SequentialCounts ==
  ASSUME ItemsInv, CountInv, Sequential
  PROVE  CountInv'
<1>0. /\ mpc \in SeqPlaces /\ Uncounted = {} /\ wpc \in [Items -> ItemPlaces]
      /\ item \in Items /\ item \in Range(groups[group_idx])
      /\ mpc = "seqteardown" => wpc[item] # "out"
  <2>1. mpc \in SeqPlaces
    BY DEF Sequential, SeqSetup, SeqSetupFails, SeqSkip, SeqCall, SeqTeardown, SeqPlaces
  <2>2. Uncounted = {}
    BY <2>1 DEF CountInv, SeqPlaces
  <2> QED  BY <2>1, <2>2, ItemTyped DEF ItemsInv, ControlInv, BegunInv
<1>1. ASSUME mpc' \in {"seqcall", "seqteardown"}, UNCHANGED <<reported, testsfailed>>,
             NEW p \in {"call", "skipped", "passed"}, wpc' = [wpc EXCEPT ![item] = p]
      PROVE  CountInv'
  <2>1. Uncounted' = {}
    BY <1>0, <1>1, FailuresKept DEF Uncounted
  <2> QED  BY <1>1, <2>1 DEF CountInv
<1>2. ASSUME mpc' = "seqteardown", mpc \in {"seq", "seqcall"},
             reported' = reported \cup {item}, testsfailed' = testsfailed + 1,
             NEW p, wpc' = [wpc EXCEPT ![item] = p]
      PROVE  CountInv'
  <2>1. Uncounted' = {}
    BY <1>0, <1>2, FailuresKept DEF Uncounted
  <2>2. /\ testsfailed' \in Nat /\ reported' \subseteq Items
        /\ IsFiniteSet(reported') /\ Cardinality(reported') <= testsfailed'
    <3>1. IsFiniteSet(reported) /\ Cardinality(reported) \in Nat
      BY FS_CardinalityType DEF CountInv
    <3>2. IsFiniteSet(reported') /\ Cardinality(reported') <= Cardinality(reported) + 1
      BY <1>2, <3>1, FS_AddElement
    <3>3. reported' \subseteq Items
      BY <1>0, <1>2 DEF CountInv
    <3>4. testsfailed' \in Nat /\ Cardinality(reported) + 1 <= testsfailed'
      BY <1>2, <3>1 DEF CountInv
    <3>5. Cardinality(reported') \in Nat
      BY <3>2, FS_CardinalityType
    <3> QED  BY <3>1, <3>2, <3>3, <3>4, <3>5
  <2> QED  BY <1>2, <2>1, <2>2 DEF CountInv
<1>3. ASSUME NEW outcome \in {"passed", "failed"}, SeqCall(outcome) PROVE CountInv'
  <2>1. CASE outcome = "passed"
    BY <1>1, <1>3, <2>1 DEF SeqCall
  <2>2. CASE outcome = "failed"
    BY <1>2, <1>3, <2>2 DEF SeqCall
  <2> QED  BY <2>1, <2>2
<1>4. CASE SeqTeardown
  <2>1. /\ mpc = "seqteardown" /\ UNCHANGED <<wpc, reported>>
        /\ testsfailed' \in {testsfailed, testsfailed + 1}
        /\ \/ mpc' = "seq" /\ UNCHANGED group_idx
           \/ mpc' = "loop"
    BY <1>4 DEF SeqTeardown, NextGroup
  <2>2. Uncounted' = {}
    BY <1>0, <2>1 DEF Uncounted, Failures, Ended
  <2>3. Cardinality(reported) \in Nat
    BY FS_CardinalityType DEF CountInv
  <2>4. testsfailed' \in Nat /\ Cardinality(reported') <= testsfailed'
    BY <2>1, <2>3 DEF CountInv
  <2> QED  BY <1>0, <2>1, <2>2, <2>4 DEF CountInv
<1> QED  BY <1>1, <1>2, <1>3, <1>4 DEF Sequential, SeqSetup, SeqSetupFails, SeqSkip

LEMMA HookCounts ==
  ASSUME ItemsInv, CountInv, HookPasses \/ HookFails \/ HookSkips
  PROVE  CountInv'
<1>1. /\ mpc = "hook" /\ UNCHANGED <<mpc, group_idx, reported, testsfailed>>
      /\ \E p \in {"queued", "errored", "skipped"} : wpc' = [wpc EXCEPT ![item] = p]
      /\ idx <= Len(groups[group_idx])
  BY DEF HookPasses, HookFails, HookSkips, HookEntered
<1>2. /\ item \in Items /\ item \in Range(groups[group_idx])
      /\ wpc \in [Items -> ItemPlaces]
  BY <1>1, ItemTyped DEF ItemsInv, ControlInv
<1>3. Uncounted' \subseteq Uncounted \cup {item}
  BY <1>1, <1>2, FailuresKept DEF Uncounted
<1>4. wpc'[item] # "out"
  BY <1>1, <1>2
<1> QED  BY <1>1, <1>2, <1>3, <1>4 DEF CountInv

LEMMA WorkerCounts ==
  ASSUME ItemsInv, PlaceInv, CountInv, NEW i \in Items, Worker(i)
  PROVE  CountInv'
<1>1. /\ mpc = "workers" /\ i \in ParallelSet
      /\ UNCHANGED <<control, reported, testsfailed>>
      /\ \E p : wpc' \in {wpc, [wpc EXCEPT ![i] = p]}
  BY DEF Worker, Take, CacheHit, CacheMiss, Execute, ExecuteRaises, EnterCall, LeaveCall,
     PlaceInv
<1>2. i \in Range(groups[group_idx])
  <2>1. PICK n \in DOMAIN parallel_items : i = parallel_items[n]
    BY <1>1 DEF ParallelSet, Range
  <2> QED  BY <1>1, <2>1 DEF PlaceInv, GroupPlaces, Range
<1>3. wpc \in [Items -> ItemPlaces]
  BY DEF ItemsInv, ControlInv
<1>4. Uncounted' \subseteq Uncounted \cup {i}
  <2>1. CASE wpc' = wpc
    BY <1>1, <2>1 DEF Uncounted, Failures, Ended
  <2>2. CASE \E p : wpc' = [wpc EXCEPT ![i] = p]
    BY <1>1, <1>3, <2>2, FailuresKept DEF Uncounted
  <2> QED  BY <1>1, <2>1, <2>2
<1> QED  BY <1>1, <1>2, <1>4 DEF CountInv, control

LEMMA CloseCounts ==
  ASSUME ItemsInv, CountInv, Close
  PROVE  CountInv'
<1>1. CASE PopItems
  <2>1. /\ mpc = "workers" /\ mpc' = "teardown_all" /\ UNCHANGED <<wpc, reported, testsfailed>>
        /\ Failures \cap Range(groups[group_idx]) \subseteq reported
    BY <1>1 DEF PopItems, tests
  <2>2. Uncounted' = {}
    BY <2>1 DEF CountInv, Uncounted, Failures, Ended
  <2> QED  BY <2>1, <2>2 DEF CountInv
<1>2. CASE RunFinalizer \/ CloseGroup
  <2>1. /\ mpc = "deferred" /\ mpc' \in {"deferred", "loop", "error"}
        /\ UNCHANGED <<wpc, reported, testsfailed>>
    BY <1>2 DEF RunFinalizer, CloseGroup, NextGroup, control, tests
  <2>2. Uncounted' = {}
    BY <2>1 DEF CountInv, Uncounted, Failures, Ended
  <2> QED  BY <2>1, <2>2 DEF CountInv
<1>3. ASSUME NEW raises \in BOOLEAN, TeardownShared(raises) PROVE CountInv'
  <2>1. /\ mpc = "teardown_all" /\ mpc' \in {"error", "deferred"} /\ UNCHANGED <<wpc, reported>>
    BY <1>3 DEF TeardownShared
  <2>2. PICK n \in Nat : testsfailed' = testsfailed + n
    BY <1>3 DEF TeardownShared
  <2>3. Uncounted' = {}
    BY <2>1 DEF CountInv, Uncounted, Failures, Ended
  <2>4. Cardinality(reported) \in Nat
    BY FS_CardinalityType DEF CountInv
  <2>5. testsfailed' \in Nat /\ Cardinality(reported') <= testsfailed'
    BY <2>1, <2>2, <2>4 DEF CountInv
  <2> QED  BY <2>1, <2>3, <2>5 DEF CountInv
<1> QED  BY <1>1, <1>2, <1>3 DEF Close

LEMMA CountStep ==
  ASSUME ItemsInv, PlaceInv, CountInv, [Next]_vars
  PROVE  CountInv'
<1>1. CASE Sequential
  BY <1>1, SequentialCounts
<1>2. CASE HookPasses \/ HookFails \/ HookSkips
  BY <1>2, HookCounts
<1>3. CASE \E i \in Items : Worker(i)
  BY <1>3, WorkerCounts
<1>4. CASE Close
  BY <1>4, CloseCounts
<1>5. CASE EnterGroup
  <2>1. /\ mpc = "loop" /\ ~ shouldfail /\ UNCHANGED <<wpc, reported, testsfailed>>
    BY <1>5 DEF EnterGroup, tests
  <2>2. Uncounted' = {} /\ ~ shouldfail'
    BY <2>1 DEF CountInv, Uncounted, Failures, Ended, shouldfail
  <2> QED  BY <2>1, <2>2 DEF CountInv
<1>6. CASE RaiseFailed \/ ReturnTrue \/ SessionFinish
  <2>1. /\ mpc \in {"loop", "raised", "returned", "error"}
        /\ mpc' \in {"raised", "returned", "finished"}
        /\ UNCHANGED <<wpc, reported, testsfailed>>
    BY <1>6 DEF RaiseFailed, ReturnTrue, SessionFinish, tests
  <2>2. Uncounted' = {}
    BY <2>1 DEF CountInv, Uncounted, Failures, Ended
  <2> QED  BY <2>1, <2>2 DEF CountInv
<1>7. CASE Transition \/ PushItems
  <2>1. /\ mpc = "hook" /\ mpc' \in {"hook", "workers"}
        /\ UNCHANGED <<group_idx, wpc, reported, testsfailed>>
    BY <1>7 DEF Transition, PushItems, control, tests
  <2> QED  BY <2>1 DEF CountInv, Uncounted, Failures, Ended, shouldfail
<1>8. CASE Report
  <2>1. PICK i \in Items : ReportFailure(i)
    BY <1>8 DEF Report
  <2>2. /\ mpc = "workers" /\ UNCHANGED <<mpc, group_idx, wpc>> /\ i \notin reported
        /\ reported' = reported \cup {i} /\ testsfailed' = testsfailed + 1
    BY <2>1 DEF ReportFailure, control
  <2>3. Uncounted' \subseteq Uncounted
    BY <2>2 DEF Uncounted, Failures, Ended
  <2> QED  BY <2>2, <2>3, OneMore DEF CountInv
<1>9. CASE UNCHANGED vars \/ Terminated
  BY <1>9 DEF Terminated, vars, control, tests, CountInv, Uncounted, Failures, Ended, shouldfail
<1> QED  BY <1>1, <1>2, <1>3, <1>4, <1>5, <1>6, <1>7, <1>8, <1>9
        DEF Next, Main, Proceed, Prepare

LEMMA CountAlways == Spec => [](SessionInv /\ ValuesInv /\ CountInv)
<1>1. SessionInv /\ ValuesInv /\ CountInv /\ [Next]_vars => CountInv'
  BY CountStep DEF SessionInv, ValuesInv
<1> QED  BY <1>1, CountInit, ValuesAlways, PTL DEF Spec

(* No test of a group is taken up, to run item by item or in a hook, once  *)
(* the limit is reached, unless the group was begun before: what failed in *)
(* earlier groups is counted, whether a body, a setup, a hook or the main  *)
(* thread's own work failed, before a group is entered.                    *)
THEOREM LimitEndsAtGroup == Spec => StopsAtGroupBoundary
<1> DEFINE Boundary ==
      \A i \in Items : wpc[i] = "out" /\ wpc'[i] # "out" /\ LimitReached =>
        \E j \in Range(groups[group_idx]) : wpc[j] # "out"
<1>1. SessionInv /\ ValuesInv /\ CountInv /\ [Next]_vars => [Boundary]_vars
  <2> SUFFICES ASSUME SessionInv, ValuesInv, CountInv, Next,
                      NEW i \in Items, wpc[i] = "out", wpc'[i] # "out", LimitReached,
                      \A j \in Range(groups[group_idx]) : wpc[j] = "out"
               PROVE  FALSE
    OBVIOUS
  <2>0. ItemsInv /\ PlaceInv /\ wpc \in [Items -> ItemPlaces]
    BY DEF SessionInv, ItemsInv, ControlInv
  <2>1. ~ (mpc \in {"seq", "hook"})
    <3> SUFFICES ASSUME mpc \in {"seq", "hook"} PROVE FALSE
      OBVIOUS
    <3>1. ~ shouldfail
      BY DEF CountInv
    <3>2. Uncounted = {}
      BY DEF CountInv, Uncounted, Failures, Ended
    <3>3. /\ Failures \subseteq reported /\ IsFiniteSet(reported)
          /\ Cardinality(reported) <= testsfailed /\ testsfailed \in Nat
      BY <3>2 DEF CountInv, Uncounted
    <3>4. /\ Cardinality(Failures) <= Cardinality(reported)
          /\ Cardinality(Failures) \in Nat /\ Cardinality(reported) \in Nat
      BY <3>3, FS_Subset, FS_CardinalityType
    <3>5. maxfail > 0 /\ Cardinality(Failures) >= maxfail
      BY <3>1 DEF LimitReached
    <3> QED  BY <3>1, <3>3, <3>4, <3>5, OptionsAssumption DEF shouldfail
  <2>2. CASE Sequential
    <3>1. mpc \in SeqPlaces
      BY <2>2 DEF Sequential, SeqSetup, SeqSetupFails, SeqSkip, SeqCall, SeqTeardown, SeqPlaces
    <3>2. item \in Range(groups[group_idx])
      BY <2>0, <3>1, ItemTyped DEF ItemsInv
    <3>3. mpc \in {"seqcall", "seqteardown"} => wpc[item] # "out"
      BY <2>0 DEF ItemsInv, BegunInv
    <3> QED  BY <2>1, <3>1, <3>2, <3>3 DEF SeqPlaces
  <2>3. CASE \E j \in Items : Worker(j)
    <3>1. PICK j \in Items : Worker(j)
      BY <2>3
    <3>2. wpc[j] # "out" /\ \E p : wpc' \in {wpc, [wpc EXCEPT ![j] = p]}
      BY <3>1 DEF Worker, Take, CacheHit, CacheMiss, Execute, ExecuteRaises, EnterCall, LeaveCall
    <3> QED  BY <2>0, <3>2
  <2>4. CASE Prepare
    <3>1. mpc = "hook"
      BY <2>4 DEF Prepare, Transition, HookPasses, HookFails, HookSkips, PushItems, HookEntered
    <3> QED  BY <2>1, <3>1
  <2>5. CASE Close \/ EnterGroup \/ RaiseFailed \/ ReturnTrue \/ SessionFinish
    <3>1. wpc' = wpc
      BY <2>5 DEF Close, PopItems, RunFinalizer, CloseGroup, TeardownShared, EnterGroup,
         RaiseFailed, ReturnTrue, SessionFinish, tests
    <3> QED  BY <3>1
  <2>6. CASE UNCHANGED Rest
    BY <2>6 DEF Rest
  <2> QED  BY <2>2, <2>3, <2>4, <2>5, <2>6, Steps DEF Proceed
<1> QED  BY <1>1, CountAlways, PTL DEF Spec, StopsAtGroupBoundary

-----------------------------------------------------------------------------
(* What a test may rely on.                                                *)

(* Every variable keeps the kind of value the code gives it; the stack     *)
(* holds no node twice, and what is alive or cached was created.           *)
THEOREM SessionTypeCorrect == Spec => []TypeInv
<1>1. SessionInv /\ ValuesInv /\ CountInv => TypeInv
  <2> SUFFICES ASSUME SessionInv, ValuesInv, CountInv PROVE TypeInv
    OBVIOUS
  <2>1. ItemsInv /\ PlaceInv /\ StackInv /\ CacheInv /\ ArgsInv
    BY DEF SessionInv, ValuesInv
  <2>2. ASSUME NEW k \in DOMAIN stack
        PROVE  /\ stack[k].node \in Nodes \cup Items
               /\ Range(stack[k].fins) \subseteq Defs
               /\ \A n \in DOMAIN stack : stack[n].node = stack[k].node => n = k
    <3>1. stack[k] \in Entries
      BY <2>1 DEF StackInv
    <3>2. stack[k].fins \in Seq(Defs) /\ stack[k].node \in Nodes \cup Items
      BY <3>1 DEF Entries
    <3> QED  BY <2>1, <3>2 DEF StackInv, Distinct, Range
  <2>3. Range(parallel_items) \subseteq Items
    BY <2>1 DEF ItemsInv, ControlInv, Range
  <2> QED  BY <2>1, <2>2, <2>3 DEF TypeInv, ItemsInv, ControlInv, PlaceInv, CacheInv, ArgsInv,
                                  CountInv
<1> QED  BY <1>1, CountAlways, PTL

(* A test never holds a function-scoped value that was made for another:   *)
(* in a worker its FixtureDefs are clones of its own, and the shared ones  *)
(* of the collection are dropped by the teardown of each test before the   *)
(* next one is set up.                                                     *)
THEOREM FunctionValuesAreOwn == Spec => []OwnFunctionFixtures
<1>1. ValuesInv => OwnFunctionFixtures
  BY DEF ValuesInv, ArgsInv, OwnFunctionFixtures
<1> QED  BY <1>1, ValuesAlways, PTL

(* Whatever the other threads and the main thread tear down, a body that   *)
(* was entered finds every fixture it asked for set up and not torn down.  *)
THEOREM NeverTornDownInUse == Spec => []InUseIsAlive
<1>1. SessionInv /\ ValuesInv => InUseIsAlive
  <2> SUFFICES ASSUME SessionInv, ValuesInv, NEW i \in Items, wpc[i] = "call",
                      NEW f \in Range(fixturenames[i])
               PROVE  funcargs[i][f] \in alive
    BY DEF InUseIsAlive
  <2>1. PlaceInv /\ ArgsInv
    BY DEF SessionInv, ValuesInv
  <2>2. CASE mpc = "seqcall" /\ i = item
    BY <2>1, <2>2 DEF ArgsInv
  <2>3. CASE mpc = "workers" /\ i \in ParallelSet
    <3>1. Unresolved(i) = {}
      BY <2>1, <2>3 DEF ArgsInv
    <3>2. PICK k \in DOMAIN fixturenames[i] : f = fixturenames[i][k]
      BY DEF Range
    <3>3. funcargs[i][f] # None /\ f \in Fixtures
      BY <3>1, <3>2, ValueFacts DEF Unresolved
    <3> QED  BY <2>1, <2>3, <3>3 DEF ArgsInv
  <2> QED  BY <2>1, <2>2, <2>3 DEF PlaceInv
<1> QED  BY <1>1, ValuesAlways, PTL

(* The members of a sequence of sequences put one behind the other.        *)
LEMMA FlattenRange ==
  ASSUME NEW S, NEW ss \in Seq(Seq(S))
  PROVE  /\ FlattenSeq(ss) \in Seq(S)
         /\ Range(FlattenSeq(ss)) = UNION {Range(ss[k]) : k \in DOMAIN ss}
<1> DEFINE all(n) == UNION {Range(ss[k]) : k \in 1 .. n}
           fun(n) == [1 .. n -> Seq(S)]
           good(f, n) == \A i \in 1 .. n : f[i] = IF i = 1 THEN ss[i] ELSE f[i - 1] \o ss[i]
           step(f) == f = [i \in 1 .. Len(ss) |-> IF i = 1 THEN ss[i] ELSE f[i - 1] \o ss[i]]
<1>0. Len(ss) \in Nat /\ DOMAIN ss = 1 .. Len(ss) /\ \A k \in 1 .. Len(ss) : ss[k] \in Seq(S)
  OBVIOUS
<1>1. \A n \in 0 .. Len(ss) : \E f \in fun(n) : good(f, n)
  <2> DEFINE Bad == {n \in 0 .. Len(ss) : ~ \E f \in fun(n) : good(f, n)}
  <2> SUFFICES ASSUME Bad # {} PROVE FALSE
    OBVIOUS
  <2>1. Bad \in SUBSET Nat
    BY <1>0
  <2>2. PICK n \in Bad : \A m \in Bad : n <= m
    <3> HIDE DEF Bad
    <3> QED  BY <2>1, SmallestMember
  <2>3. n \in 0 .. Len(ss) /\ n \in Nat
    BY <1>0
  <2>4. n # 0
    <3>1. [i \in 1 .. 0 |-> <<>>] \in fun(0) /\ good([i \in 1 .. 0 |-> <<>>], 0)
      OBVIOUS
    <3> QED  BY <3>1
  <2>5. n - 1 \in 0 .. Len(ss) /\ n - 1 \notin Bad
    <3>1. n - 1 \in 0 .. Len(ss) /\ ~ (n <= n - 1)
      BY <1>0, <2>3, <2>4
    <3> HIDE DEF Bad
    <3> QED  BY <2>2, <3>1
  <2>6. PICK f \in fun(n - 1) : good(f, n - 1)
    BY <2>5
  <2>7. DEFINE g == [i \in 1 .. n |-> IF i = n THEN IF n = 1 THEN ss[n] ELSE f[n - 1] \o ss[n] ELSE f[i]]
  <2>8. ss[n] \in Seq(S) /\ (n # 1 => f[n - 1] \in Seq(S)) /\ \A i \in 1 .. n : i # n => f[i] \in Seq(S)
    BY <1>0, <2>3, <2>4
  <2>9. g \in fun(n)
    <3>1. n # 1 => f[n - 1] \o ss[n] \in Seq(S)
      BY <2>8
    <3> QED  BY <2>8, <3>1
  <2>10. ASSUME NEW i \in 1 .. n PROVE g[i] = IF i = 1 THEN ss[i] ELSE g[i - 1] \o ss[i]
    <3>1. CASE i = n
      <4>1. n # 1 => n - 1 \in 1 .. n /\ n - 1 # n
        BY <2>3, <2>4
      <4> QED  BY <3>1, <4>1
    <3>2. CASE i # n
      <4>1. i \in 1 .. (n - 1) /\ g[i] = f[i] /\ (i # 1 => i - 1 \in 1 .. n /\ i - 1 # n)
        BY <3>2, <2>3
      <4>2. i # 1 => g[i - 1] = f[i - 1]
        BY <4>1
      <4> QED  BY <2>6, <4>1, <4>2
    <3> QED  BY <3>1, <3>2
  <2>11. good(g, n)
    BY <2>10
  <2> QED  BY <2>9, <2>11
<1>2. PICK f \in fun(Len(ss)) : good(f, Len(ss))
  <2> HIDE DEF fun, good
  <2> QED  BY <1>0, <1>1
<1>3. step(f)
  BY <1>0, <1>2
<1> DEFINE flat == CHOOSE h : step(h)
<1>4. step(flat)
  <2> HIDE DEF step
  <2> QED  BY <1>3
<1>5. DOMAIN flat = 1 .. Len(ss)
      /\ \A i \in 1 .. Len(ss) : flat[i] = IF i = 1 THEN ss[i] ELSE flat[i - 1] \o ss[i]
  <2> PICK h : h = flat
    OBVIOUS
  <2> HIDE DEF flat
  <2>1. step(h)
    BY <1>4
  <2>2. DOMAIN h = 1 .. Len(ss) /\ \A i \in 1 .. Len(ss) : h[i] = IF i = 1 THEN ss[i] ELSE h[i - 1] \o ss[i]
    BY <2>1
  <2> QED  BY <2>2
<1>6. FlattenSeq(ss) = IF Len(ss) = 0 THEN ss ELSE flat[Len(ss)]
  BY DEF FlattenSeq
<1> HIDE DEF flat
<1>7. \A n \in 1 .. Len(ss) : flat[n] \in Seq(S) /\ Range(flat[n]) = all(n)
  <2> DEFINE Bad == {n \in 1 .. Len(ss) : ~ (flat[n] \in Seq(S) /\ Range(flat[n]) = all(n))}
  <2> SUFFICES ASSUME Bad # {} PROVE FALSE
    OBVIOUS
  <2>1. Bad \in SUBSET Nat
    BY <1>0
  <2>2. PICK n \in Bad : \A m \in Bad : n <= m
    <3> HIDE DEF Bad
    <3> QED  BY <2>1, SmallestMember
  <2>3. n \in 1 .. Len(ss) /\ ss[n] \in Seq(S)
    BY <1>0
  <2>4. CASE n = 1
    <3>1. flat[n] = ss[n]
      BY <1>5, <2>3, <2>4
    <3>2. all(n) = Range(ss[n])
      <4>1. 1 .. n = {n}
        BY <2>4
      <4> QED  BY <4>1
    <3> QED  BY <2>3, <3>1, <3>2
  <2>5. CASE n # 1
    <3>1. n - 1 \in 1 .. Len(ss) /\ n - 1 \notin Bad
      <4>1. n - 1 \in 1 .. Len(ss) /\ ~ (n <= n - 1)
        BY <1>0, <2>3, <2>5
      <4> HIDE DEF Bad
      <4> QED  BY <2>2, <4>1
    <3>2. flat[n - 1] \in Seq(S) /\ Range(flat[n - 1]) = all(n - 1)
      BY <3>1
    <3>3. flat[n] = flat[n - 1] \o ss[n]
      BY <1>5, <2>3, <2>5
    <3>4. flat[n] \in Seq(S) /\ Range(flat[n]) = all(n - 1) \cup Range(ss[n])
      <4> HIDE DEF all
      <4> QED  BY <2>3, <3>2, <3>3, RangeOfConcat
    <3>5. all(n) = all(n - 1) \cup Range(ss[n])
      <4>1. 1 .. n = (1 .. (n - 1)) \cup {n}
        BY <1>0, <2>3
      <4> QED  BY <4>1
    <3> QED  BY <3>4, <3>5
  <2> QED  BY <2>4, <2>5
<1>8. CASE Len(ss) = 0
  <2>1. FlattenSeq(ss) = <<>> /\ DOMAIN ss = {} /\ Range(<<>>) = {}
    BY <1>0, <1>6, <1>8 DEF Range
  <2> QED  BY <2>1
<1>9. CASE Len(ss) # 0
  <2>1. Len(ss) \in 1 .. Len(ss)
    BY <1>0, <1>9
  <2> QED  BY <1>0, <1>6, <1>7, <1>9, <2>1
<1> QED  BY <1>8, <1>9

(* The finalizers that an execution adds are those of the definitions that *)
(* had no value.                                                           *)
LEMMA OnlyMissing ==
  ASSUME NEW i \in Items, NEW names \in Seq(Fixtures), NEW n
  PROVE  Range(FinsOf(i, names, n)) \subseteq
           {Def(f, i) : f \in {g \in Missing(i, names) : NodeFor(g, i) = n}}
<1> SUFFICES ASSUME NEW d \in Range(FinsOf(i, names, n))
             PROVE  \E f \in Missing(i, names) : NodeFor(f, i) = n /\ d = Def(f, i)
  OBVIOUS
<1> DEFINE chosen == {f \in Missing(i, names) : NodeFor(f, i) = n}
           onNode == Among(names, chosen)
<1>1. Range(onNode) = {x \in Range(names) : x \in chosen}
  <2> HIDE DEF chosen
  <2> QED  BY AmongFacts
<1>2. FinsOf(i, names, n) = [k \in DOMAIN onNode |-> Def(onNode[k], i)]
  BY DEF FinsOf
<1> HIDE DEF onNode
<1>3. PICK k \in DOMAIN onNode : d = Def(onNode[k], i)
  BY <1>2 DEF Range
<1>4. onNode[k] \in chosen
  BY <1>1 DEF Range
<1> QED  BY <1>3, <1>4

(* Fixtures that are set up: a new value is cached where none was, cached  *)
(* results stay, and the finalizers added are those of new results.        *)
SetUp(st, i, names) ==
  /\ created \subseteq created' /\ alive \subseteq alive'
  /\ \A x \in created' \ created :
       /\ cached_result[x.def] = None /\ cached_result'[x.def] = x
       /\ \E f \in Range(names) : x = Value(f, i)
  /\ \A x \in alive' \ alive :
       /\ cached_result[x.def] = None /\ cached_result'[x.def] = x
       /\ \E f \in Range(names) : x = Value(f, i)
  /\ \A d \in Defs : cached_result[d] # None => cached_result'[d] = cached_result[d]
  /\ \A d \in Defs : Set(cached_result'[d]) =>
       \/ cached_result'[d] = cached_result[d]
       \/ \E f \in Range(names) : d = Def(f, i) /\ cached_result'[d] = Value(f, i)
  /\ \A k \in DOMAIN st : \A d \in Range(stack'[k].fins) :
       \/ d \in Range(st[k].fins)
       \/ /\ cached_result[d] = None /\ cached_result'[d] # None
          /\ \E f \in Range(names) : NodeFor(f, i) = st[k].node /\ d = Def(f, i)

LEMMA ExecutedSetUp ==
  ASSUME NEW st \in Seq(Entries), NEW i \in Items, NEW wanted \in Seq(Fixtures),
         NEW bad \in Seq(Fixtures), Execution(st, i, wanted, bad), CacheInv,
         Range(wanted) \subseteq Range(fixturenames[i]),
         Range(bad) \subseteq Range(fixturenames[i]),
         \A f \in Range(bad) : Raises(f, i),
         NEW names, Range(wanted) \cup Range(bad) \subseteq Range(names)
  PROVE  SetUp(st, i, names)
<1>0. CacheInv' /\ Cached(i, wanted, bad)
  BY ExecutedCache
<1>1. /\ \A f \in Missing(i, wanted) : cached_result'[Def(f, i)] = Value(f, i)
      /\ \A d \in Defs : cached_result'[d] # cached_result[d] =>
           \E f \in Missing(i, wanted) \cup Range(bad) : d = Def(f, i)
      /\ \A f \in Range(bad) \ Missing(i, wanted) : cached_result'[Def(f, i)] = Error
  BY <1>0 DEF Cached
<1>2. \A f \in Range(wanted) \cup Range(bad) :
        f \in Fixtures /\ f \in Range(fixturenames[i]) /\ Def(f, i) \in Defs
  BY ValueFacts, DefFacts
<1>3. \A f \in Missing(i, wanted) : f \in Range(wanted) /\ cached_result[Def(f, i)] = None
  BY DEF Missing
<1>4. /\ alive' = alive \cup {Value(f, i) : f \in Missing(i, wanted)}
      /\ created' = created \cup {Value(f, i) : f \in Missing(i, wanted)}
  BY DEF Execution
<1>5. ASSUME NEW f \in Missing(i, wanted)
      PROVE  /\ cached_result[Value(f, i).def] = None
             /\ cached_result'[Value(f, i).def] = Value(f, i)
             /\ f \in Range(names)
  <2>1. Value(f, i).def = Def(f, i)
    BY DEF Value
  <2> QED  BY <1>1, <1>3, <2>1
<1>6. ASSUME NEW d \in Defs, cached_result[d] # None
      PROVE  cached_result'[d] = cached_result[d]
  <2> SUFFICES ASSUME cached_result'[d] # cached_result[d] PROVE FALSE
    OBVIOUS
  <2>1. PICK f \in Missing(i, wanted) \cup Range(bad) : d = Def(f, i)
    BY <1>1
  <2>2. f \in Range(bad) \ Missing(i, wanted)
    BY <1>3, <1>6, <2>1
  <2>3. cached_result[d] = Error
    BY <1>6, <2>1, <2>2 DEF Raises
  <2> QED  BY <1>1, <2>1, <2>2, <2>3
<1>7. ASSUME NEW d \in Defs, Set(cached_result'[d]), cached_result'[d] # cached_result[d]
      PROVE  \E f \in Range(names) : d = Def(f, i) /\ cached_result'[d] = Value(f, i)
  <2>1. PICK f \in Missing(i, wanted) \cup Range(bad) : d = Def(f, i)
    BY <1>1, <1>7
  <2>2. f \in Missing(i, wanted)
    BY <1>1, <1>7, <2>1 DEF Set
  <2> QED  BY <1>1, <1>5, <2>1, <2>2
<1>8. ASSUME NEW k \in DOMAIN st, NEW d \in Range(stack'[k].fins), d \notin Range(st[k].fins)
      PROVE  /\ cached_result[d] = None /\ cached_result'[d] # None
             /\ \E f \in Range(names) : NodeFor(f, i) = st[k].node /\ d = Def(f, i)
  <2> DEFINE own == FinsOf(i, wanted \o bad, st[k].node)
  <2>1. own \in Seq(Defs) /\ stack'[k].fins = st[k].fins \o own
    BY ExecutedEntry
  <2>2. st[k].fins \in Seq(Defs)
    <3>1. st[k] \in Entries
      OBVIOUS
    <3> QED  BY <3>1 DEF Entries
  <2>3. d \in Range(own)
    <3> HIDE DEF own
    <3>1. Range(st[k].fins \o own) = Range(st[k].fins) \cup Range(own)
      BY <2>1, <2>2, RangeOfConcat
    <3> QED  BY <1>8, <2>1, <3>1
  <2>4. wanted \o bad \in Seq(Fixtures)
    OBVIOUS
  <2>5. PICK f \in Missing(i, wanted \o bad) : NodeFor(f, i) = st[k].node /\ d = Def(f, i)
    <3>1. d \in Range(FinsOf(i, wanted \o bad, st[k].node))
      BY <2>3
    <3>2. Range(FinsOf(i, wanted \o bad, st[k].node)) \subseteq
            {Def(f, i) : f \in {g \in Missing(i, wanted \o bad) : NodeFor(g, i) = st[k].node}}
      BY <2>4, OnlyMissing
    <3> QED  BY <3>1, <3>2
  <2>6. Range(wanted \o bad) = Range(wanted) \cup Range(bad)
    BY RangeOfConcat
  <2>7. f \in Range(wanted) \cup Range(bad) /\ cached_result[d] = None
    BY <2>5, <2>6 DEF Missing
  <2>8. cached_result'[d] # None
    <3>1. CASE f \in Range(wanted)
      <4>1. f \in Missing(i, wanted)
        BY <2>5, <2>7, <3>1 DEF Missing
      <4> QED  BY <1>1, <1>2, <2>5, <2>7, <4>1, ValueFacts
    <3>2. CASE f \notin Range(wanted)
      <4>1. f \in Range(bad) \ Missing(i, wanted)
        BY <1>3, <2>7, <3>2
      <4> QED  BY <1>1, <2>5, <4>1, OptionsAssumption
    <3> QED  BY <3>1, <3>2
  <2> QED  BY <2>5, <2>7, <2>8
<1> QED  BY <1>4, <1>5, <1>6, <1>7, <1>8 DEF SetUp

LEMMA SetUpFacts ==
  ASSUME NEW st \in Seq(Entries), NEW i \in Items, NEW names \in Seq(Fixtures),
         Resolve(st, i, names) \/ ResolveFails(st, i, names), CacheInv,
         Range(names) \subseteq Range(fixturenames[i])
  PROVE  SetUp(st, i, names)
<1>1. CASE Resolve(st, i, names)
  <2>1. Execution(st, i, names, <<>>)
    BY <1>1 DEF Resolve
  <2>2. <<>> \in Seq(Fixtures) /\ Range(<<>>) = {}
    BY DEF Range
  <2>3. /\ \A f \in Range(<<>>) : Raises(f, i)
        /\ Range(<<>>) \subseteq Range(fixturenames[i])
        /\ Range(names) \cup Range(<<>>) \subseteq Range(names)
    BY <2>2
  <2> QED  BY <2>1, <2>2, <2>3, ExecutedSetUp
<1>2. CASE ResolveFails(st, i, names)
  <2>1. PICK n \in DOMAIN names :
          /\ Sound(i, SubSeq(names, 1, n - 1)) /\ Raises(names[n], i)
          /\ Execution(st, i, SubSeq(names, 1, n - 1), <<names[n]>>)
    BY <1>2 DEF ResolveFails
  <2>2. n \in 1 .. Len(names) /\ Len(names) \in Nat /\ DOMAIN names = 1 .. Len(names)
    OBVIOUS
  <2> PICK w, b : w = SubSeq(names, 1, n - 1) /\ b = <<names[n]>>
    OBVIOUS
  <2>3. /\ w \in Seq(Fixtures) /\ DOMAIN w = 1 .. (n - 1)
        /\ \A k \in 1 .. (n - 1) : w[k] = names[k]
    BY <2>2
  <2>4. Range(w) \subseteq Range(names)
    BY <2>2, <2>3 DEF Range
  <2>5. b \in Seq(Fixtures) /\ Range(b) = {names[n]} /\ names[n] \in Range(names)
    BY <2>2 DEF Range
  <2>6. /\ Execution(st, i, w, b) /\ \A f \in Range(b) : Raises(f, i)
        /\ Range(w) \subseteq Range(fixturenames[i]) /\ Range(b) \subseteq Range(fixturenames[i])
        /\ Range(w) \cup Range(b) \subseteq Range(names)
    BY <2>1, <2>4, <2>5
  <2> QED  BY <2>3, <2>5, <2>6, ExecutedSetUp
<1> QED  BY <1>1, <1>2

-----------------------------------------------------------------------------
(* What phase 2 did for the workers, when the tests of a module use the    *)
(* same shared fixtures.                                                   *)

(* The definition of a shared fixture.                                     *)
Shared(d) == \E f \in Fixtures : scope[f] # "function" /\ d = <<f>>

(* The shared fixtures of a populated module have values, those of every   *)
(* item that waits for a worker among them; so what a worker executes is a *)
(* function fixture.                                                       *)
PopulatedInv ==
  /\ mpc \in GroupPlaces => InParallel(group_idx)
  /\ mpc \in {"loop"} \cup SeqPlaces => shared_populated_modules = {}
  /\ mpc \in {"hook", "workers"} =>
       /\ \A i \in Range(groups[group_idx]) : module[i] \in shared_populated_modules =>
            \A f \in SharedOf(i) : Set(cached_result[<<f>>])
       /\ \A i \in ParallelSet : module[i] \in shared_populated_modules
  /\ \A i \in Items : wpc[i] = "executing" => scope[NextName(i)] = "function"
  /\ AddFinalizerPasses

LEMMA PopulatedInit == Init => PopulatedInv
  BY DEF Init, PopulatedInv, GroupPlaces, SeqPlaces, AddFinalizerPasses

LEMMA SharedFacts ==
  ASSUME NEW i \in Items
  PROVE  /\ \A f \in SharedOf(i) : /\ f \in Fixtures /\ Shared(<<f>>) /\ <<f>> \in Defs
                                   /\ Def(f, i) = <<f>>
                                   /\ f \in Range(fixturenames[i]) /\ scope[f] # "function"
         /\ \A f \in Fixtures : scope[f] = "function" => ~ Shared(Def(f, i))
         /\ \A f \in Fixtures : Shared(Def(f, i)) => scope[f] # "function"
         /\ \A d \in FunctionDefs(i) : ~ Shared(d)
         /\ Range(ToPopulate(i)) \subseteq SharedOf(i)
         /\ module[i] \notin shared_populated_modules => Range(ToPopulate(i)) = SharedOf(i)
<1>1. Range(fixturenames[i]) \subseteq Fixtures /\ fixturenames[i] \in Seq(Fixtures)
  BY NamesTyped DEF Range
<1>2. ASSUME NEW f \in SharedOf(i)
      PROVE  /\ f \in Fixtures /\ Shared(<<f>>) /\ <<f>> \in Defs /\ Def(f, i) = <<f>>
             /\ f \in Range(fixturenames[i]) /\ scope[f] # "function"
  BY <1>1, DefFacts DEF SharedOf, Shared
<1>3. ASSUME NEW f \in Fixtures, Shared(Def(f, i)) PROVE scope[f] # "function"
  <2>1. PICK g \in Fixtures : scope[g] # "function" /\ Def(f, i) = <<g>>
    BY <1>3 DEF Shared
  <2>2. Def(f, i)[1] = f
    BY DEF Def
  <2> QED  BY <2>1, <2>2
<1>4. ASSUME NEW d \in FunctionDefs(i) PROVE ~ Shared(d)
  BY <1>1, <1>3 DEF FunctionDefs
<1>5. Range(SharedNames(i)) = SharedOf(i)
  <2> DEFINE chosen == {f \in Fixtures : scope[f] # "function"}
  <2>1. Range(Among(fixturenames[i], chosen)) = {x \in Range(fixturenames[i]) : x \in chosen}
    <3> HIDE DEF chosen
    <3> QED  BY <1>1, AmongFacts
  <2> QED  BY <1>1, <2>1 DEF SharedNames, SharedOf
<1>6. Range(<<>>) = {}
  BY DEF Range
<1> QED  BY <1>2, <1>3, <1>4, <1>5, <1>6 DEF ToPopulate

(* A transition leaves every value where it is.                            *)
LEMMA TransitionKeeps ==
  ASSUME ItemsInv, StackInv, CacheInv, Transition
  PROVE  UNCHANGED <<cached_result, alive, created>>
<1>1. /\ \A k \in (Kept(Cleared, item) + 1) .. Len(Cleared) : Cleared[k].fins = <<>>
  BY TransitionFacts
<1>2. /\ cached_result' = Forget(cached_result, DefsAbove(Cleared, Kept(Cleared, item)))
      /\ alive' = alive \ FinishedBy(DefsAbove(Cleared, Kept(Cleared, item)))
      /\ UNCHANGED created
  BY DEF Transition, TeardownExact, Cleared
<1>3. DefsAbove(Cleared, Kept(Cleared, item)) = {}
  <2>1. Range(<<>>) = {}
    BY DEF Range
  <2> QED  BY <1>1, <2>1 DEF DefsAbove
<1>4. FinishedBy({}) = {} /\ Forget(cached_result, {}) = cached_result
  BY DEF FinishedBy, Forget, CacheInv
<1> QED  BY <1>2, <1>3, <1>4

(* The items of the group that wait for the workers.                       *)
LEMMA ParallelItems ==
  ASSUME PlaceInv, ItemsInv, mpc \in GroupPlaces
  PROVE  ParallelSet \subseteq Range(groups[group_idx]) /\ group_idx \in DOMAIN groups
         /\ Range(groups[group_idx]) \subseteq Items
<1>1. group_idx \in DOMAIN groups
  BY DEF ItemsInv, ControlInv
<1>2. \A k \in DOMAIN groups[group_idx] : groups[group_idx][k] \in Items
  BY <1>1, GroupFacts
<1>3. \A n \in DOMAIN parallel_items :
        \E k \in DOMAIN groups[group_idx] : parallel_items[n] = groups[group_idx][k]
  BY DEF PlaceInv
<1> QED  BY <1>1, <1>2, <1>3 DEF ParallelSet, Range

(* What a step does to no shared fixture.                                  *)
SharedKept ==
  /\ \A d \in Defs : Shared(d) => cached_result'[d] = cached_result[d]
  /\ created \subseteq created'
  /\ \A x \in created' \ created : ~ Shared(x.def) /\ x.node \in Items

(* A worker finds every shared fixture cached: what it sets up or drops is *)
(* its own, and addfinalizer has no node to look for.                      *)
LEMMA WorkerShared ==
  ASSUME SessionInv, ValuesInv, PopulatedInv, UniformModules, NEW i \in Items, Worker(i)
  PROVE  /\ mpc = "workers" /\ i \in ParallelSet /\ i \in cloned
         /\ UNCHANGED <<control, stack, prepared, deferred>>
         /\ SharedKept
         /\ \A j \in Items : wpc'[j] = "executing" => scope[NextName(j)'] = "function"
         /\ AddFinalizerPasses'
         /\ wpc[i] = "executing" => Def(NextName(i), i) = <<NextName(i), i>>
<1>1. mpc = "workers" /\ i \in ParallelSet
  <2>1. wpc[i] \in {"setup", "executing", "call"} \/ i \in ParallelSet
    BY DEF Worker, Take, CacheHit, CacheMiss, Execute, ExecuteRaises, EnterCall, LeaveCall
  <2>2. mpc = "workers"
    BY DEF Worker, Take, CacheHit, CacheMiss, Execute, ExecuteRaises, EnterCall, LeaveCall
  <2> QED  BY <2>1, <2>2 DEF SessionInv, PlaceInv
<1>2. i \in cloned
  BY <1>1 DEF SessionInv, PlaceInv
<1>3. /\ UNCHANGED <<control, prepared, deferred>>
  BY DEF Worker, Take, CacheHit, CacheMiss, Execute, ExecuteRaises, EnterCall, LeaveCall, caches,
         prepared, control
<1>4. /\ stack \in Seq(Entries) /\ DOMAIN funcargs = Items
      /\ wpc \in [Items -> ItemPlaces] /\ cached_result \in [Defs -> created \cup {None, Error}]
  BY DEF SessionInv, StackInv, NextInv, ItemsInv, ControlInv, ValuesInv, CacheInv
<1>5. ASSUME wpc[i] = "executing"
      PROVE  /\ NextName(i) \in Range(fixturenames[i]) /\ NextName(i) \in Fixtures
             /\ scope[NextName(i)] = "function"
             /\ Def(NextName(i), i) = <<NextName(i), i>>
             /\ Def(NextName(i), i) \in Defs /\ Def(NextName(i), i) \in FunctionDefs(i)
             /\ ~ Shared(Def(NextName(i), i))
             /\ NodeFor(NextName(i), i) = i
  <2>1. Unresolved(i) # {}
    BY <1>5 DEF SessionInv, NextInv
  <2>2. /\ NextName(i) \in Range(fixturenames[i]) /\ NextName(i) \in Fixtures
        /\ Def(NextName(i), i) \in Defs
    BY <2>1, NextNameFacts
  <2>3. scope[NextName(i)] = "function"
    BY <1>5 DEF PopulatedInv
  <2>4. Def(NextName(i), i) = <<NextName(i), i>> /\ Def(NextName(i), i) \in FunctionDefs(i)
    BY <1>2, <2>2, <2>3, DefFacts DEF FunctionDefs
  <2>5. NodeFor(NextName(i), i) = i
    BY <2>3 DEF NodeFor
  <2> QED  BY <2>2, <2>3, <2>4, <2>5, SharedFacts
<1>6. ASSUME NEW cache PROVE \A d \in Defs : Shared(d) =>
         Forget(cache, FunctionDefs(i))[d] = cache[d]
  BY SharedFacts DEF Forget
<1>7. UNCHANGED stack /\ SharedKept
  <2>1. CASE Take(i) \/ CacheMiss(i)
    BY <2>1 DEF Take, CacheMiss, SharedKept, caches
  <2>2. CASE CacheHit(i)
    <3>1. UNCHANGED <<stack, created>>
      BY <2>2 DEF CacheHit
    <3>2. cached_result' \in {cached_result, Forget(cached_result, FunctionDefs(i))}
      BY <2>2 DEF CacheHit
    <3> QED  BY <1>6, <3>1, <3>2 DEF SharedKept
  <2>3. CASE EnterCall(i) \/ \E outcome \in {"passed", "failed"} : LeaveCall(i, outcome)
    <3>1. UNCHANGED <<stack, created>>
      BY <2>3 DEF EnterCall, LeaveCall
    <3>2. cached_result' \in {cached_result, Forget(cached_result, FunctionDefs(i))}
      BY <2>3 DEF EnterCall, LeaveCall
    <3> QED  BY <1>6, <3>1, <3>2 DEF SharedKept
  <2>4. CASE Execute(i)
    <3> PICK f, v : f = NextName(i) /\ v = Value(f, i)
      OBVIOUS
    <3>1. wpc[i] = "executing"
      BY <2>4 DEF Execute
    <3>2. /\ f \in Fixtures /\ scope[f] = "function" /\ v.def = Def(f, i)
          /\ v.node = i /\ v.def \in Defs /\ ~ Shared(v.def)
      BY <1>5, <3>1 DEF Value
    <3>3. /\ created' = created \cup {v}
          /\ stack' = [k \in DOMAIN stack |->
                        IF scope[f] # "function" /\ stack[k].node = v.node
                        THEN [stack[k] EXCEPT !.fins = Append(@, v.def)]
                        ELSE stack[k]]
          /\ cached_result' = [cached_result EXCEPT ![v.def] = v]
      BY <2>4, <3>2 DEF Execute
    <3>4. stack' = [k \in DOMAIN stack |-> stack[k]]
      BY <3>2, <3>3
    <3>5. stack' = stack
      BY <1>4, <3>4
    <3>6. \A d \in Defs : Shared(d) => cached_result'[d] = cached_result[d]
      BY <1>4, <3>2, <3>3
    <3> QED  BY <3>2, <3>3, <3>5, <3>6 DEF SharedKept
  <2>5. CASE ExecuteRaises(i)
    <3> PICK f : f = NextName(i)
      OBVIOUS
    <3>1. wpc[i] = "executing"
      BY <2>5 DEF ExecuteRaises
    <3>2. f \in Fixtures /\ scope[f] = "function" /\ ~ Shared(Def(f, i)) /\ Def(f, i) \in Defs
      BY <1>5, <3>1
    <3>3. /\ UNCHANGED created
          /\ stack' = [k \in DOMAIN stack |->
                        IF scope[f] # "function" /\ stack[k].node = NodeFor(f, i)
                        THEN [stack[k] EXCEPT !.fins = Append(@, Def(f, i))]
                        ELSE stack[k]]
          /\ cached_result' = Forget([cached_result EXCEPT ![Def(f, i)] = Error], FunctionDefs(i))
      BY <2>5 DEF ExecuteRaises
    <3>4. stack' = [k \in DOMAIN stack |-> stack[k]]
      BY <3>2, <3>3
    <3>5. stack' = stack
      BY <1>4, <3>4
    <3>6. \A d \in Defs : Shared(d) => cached_result'[d] = cached_result[d]
      BY <1>4, <1>6, <3>2, <3>3
    <3> QED  BY <3>3, <3>5, <3>6 DEF SharedKept
  <2> QED  BY <2>1, <2>2, <2>3, <2>4, <2>5 DEF Worker
<1>8. \A j \in Items \ {i} : wpc'[j] = wpc[j] /\ funcargs'[j] = funcargs[j]
  <2>1. CASE Take(i) \/ CacheMiss(i) \/ EnterCall(i) \/ ExecuteRaises(i)
             \/ \E outcome \in {"passed", "failed"} : LeaveCall(i, outcome)
    BY <1>4, <2>1 DEF Take, CacheMiss, EnterCall, ExecuteRaises, LeaveCall
  <2>2. CASE CacheHit(i)
    <3>1. wpc' = wpc \/ \E p \in {"errored"} : wpc' = [wpc EXCEPT ![i] = p]
      BY <2>2 DEF CacheHit
    <3>2. funcargs' = funcargs \/ \E h : funcargs' = [funcargs EXCEPT ![i] = h]
      BY <2>2 DEF CacheHit
    <3> QED  BY <1>4, <3>1, <3>2
  <2>3. CASE Execute(i)
    <3>1. \E p : wpc' = [wpc EXCEPT ![i] = p]
      BY <2>3 DEF Execute
    <3>2. funcargs' = funcargs \/ \E h : funcargs' = [funcargs EXCEPT ![i] = h]
      BY <2>3 DEF Execute
    <3> QED  BY <1>4, <3>1, <3>2
  <2> QED  BY <2>1, <2>2, <2>3 DEF Worker
<1>9. wpc'[i] # "broken" /\ (wpc'[i] = "executing" => CacheMiss(i))
  <2>1. CASE Take(i) \/ CacheMiss(i) \/ EnterCall(i)
             \/ \E outcome \in {"passed", "failed"} : LeaveCall(i, outcome)
    BY <1>4, <2>1 DEF Take, CacheMiss, EnterCall, LeaveCall
  <2>2. CASE CacheHit(i)
    BY <1>4, <2>2 DEF CacheHit
  <2>3. CASE Execute(i)
    BY <1>4, <1>5, <2>3 DEF Execute
  <2>4. CASE ExecuteRaises(i)
    BY <1>4, <1>5, <2>4 DEF ExecuteRaises
  <2> QED  BY <2>1, <2>2, <2>3, <2>4 DEF Worker
<1>10. ASSUME CacheMiss(i) PROVE scope[NextName(i)'] = "function"
  <2>1. /\ UNCHANGED funcargs /\ Unresolved(i) # {}
        /\ cached_result[Def(NextName(i), i)] = None
    BY <1>10 DEF CacheMiss
  <2>2. NextName(i) \in Range(fixturenames[i]) /\ NextName(i) \in Fixtures
    BY <2>1, NextNameFacts
  <2>3. NextName(i)' = NextName(i)
    BY <2>1 DEF NextName, Unresolved
  <2>4. i \in Range(groups[group_idx]) /\ module[i] \in shared_populated_modules
    BY <1>1, ParallelItems DEF PopulatedInv, SessionInv, GroupPlaces
  <2>5. \A f \in SharedOf(i) : Set(cached_result[<<f>>])
    BY <1>1, <2>4 DEF PopulatedInv
  <2>6. NextName(i) \notin SharedOf(i)
    <3> SUFFICES ASSUME NextName(i) \in SharedOf(i) PROVE FALSE
      OBVIOUS
    <3>1. Def(NextName(i), i) = <<NextName(i)>>
      BY SharedFacts
    <3> QED  BY <2>1, <2>5, <3>1 DEF Set
  <2> QED  BY <2>2, <2>3, <2>6 DEF SharedOf
<1>11. ASSUME NEW j \in Items, wpc'[j] = "executing" PROVE scope[NextName(j)'] = "function"
  <2>1. CASE j = i
    BY <1>9, <1>10, <1>11, <2>1
  <2>2. CASE j # i
    <3>1. wpc[j] = "executing" /\ funcargs'[j] = funcargs[j]
      BY <1>8, <1>11, <2>2
    <3>2. NextName(j)' = NextName(j)
      BY <3>1 DEF NextName, Unresolved
    <3> QED  BY <3>1, <3>2 DEF PopulatedInv
  <2> QED  BY <2>1, <2>2
<1>12. AddFinalizerPasses'
  BY <1>8, <1>9 DEF AddFinalizerPasses, PopulatedInv
<1> QED  BY <1>1, <1>2, <1>3, <1>5, <1>7, <1>11, <1>12

(* What held without conditions is used again, step by step.               *)
LEMMA SessionStep == SessionInv /\ [Next]_vars => SessionInv'
  BY ItemsStep, PlaceStep, StackStep, NextStep DEF SessionInv

(* Main lets no worker execute anything, and breaks no item.               *)
LEMMA MainThreads ==
  ASSUME SessionInv, SessionInv', Proceed \/ Terminated
  PROVE  /\ \A j \in Items : wpc'[j] # "executing"
         /\ \A j \in Items : wpc'[j] = "broken" => wpc[j] = "broken"
<1>1. wpc \in [Items -> ItemPlaces]
  BY DEF SessionInv, ItemsInv, ControlInv
<1>2. CASE \E p \in {"call", "errored", "skipped", "passed", "failed", "queued"} :
             wpc' = [wpc EXCEPT ![item] = p]
  <2>2. \A j \in Items : wpc'[j] = "executing" => wpc[j] = "executing" /\ mpc = "workers"
    BY <1>1, <1>2 DEF SessionInv, PlaceInv
  <2>3. mpc # "workers" \/ wpc' = wpc
    BY DEF Proceed, EnterGroup, RaiseFailed, ReturnTrue, SessionFinish, Sequential, SeqSetup,
           SeqSetupFails, SeqSkip, SeqCall, SeqTeardown, Prepare, Transition, HookPasses,
           HookFails, HookSkips, HookEntered, PushItems, Close, PopItems, RunFinalizer,
           CloseGroup, TeardownShared, Terminated, vars, tests
  <2>4. mpc = "workers" => \A j \in Items : wpc'[j] # "executing"
    <3>1. mpc = "workers" => mpc' = "teardown_all"
      BY DEF Proceed, EnterGroup, RaiseFailed, ReturnTrue, SessionFinish, Sequential, SeqSetup,
             SeqSetupFails, SeqSkip, SeqCall, SeqTeardown, Prepare, Transition, HookPasses,
             HookFails, HookSkips, HookEntered, PushItems, Close, PopItems, RunFinalizer,
             CloseGroup, TeardownShared, Terminated
    <3> QED  BY <3>1 DEF SessionInv, PlaceInv
  <2>5. \A j \in Items : wpc'[j] = "broken" => wpc[j] = "broken"
    BY <1>1, <1>2
  <2> QED  BY <2>2, <2>4, <2>5
<1>3. CASE wpc' = wpc
  <2>1. ASSUME NEW j \in Items, wpc'[j] = "executing" PROVE FALSE
    <3>1. mpc = "workers" /\ mpc' = "workers"
      BY <1>3, <2>1 DEF SessionInv, PlaceInv
    <3>2. ~ (mpc = "workers" /\ mpc' = "workers")
      BY DEF Proceed, EnterGroup, RaiseFailed, ReturnTrue, SessionFinish, Sequential, SeqSetup,
             SeqSetupFails, SeqSkip, SeqCall, SeqTeardown, Prepare, Transition, HookPasses,
             HookFails, HookSkips, HookEntered, PushItems, Close, PopItems, RunFinalizer,
             CloseGroup, TeardownShared, Terminated
    <3> QED  BY <3>1, <3>2
  <2> QED  BY <1>3, <2>1
<1>4. wpc' = wpc \/ \E p \in {"call", "errored", "skipped", "passed", "failed", "queued"} :
                      wpc' = [wpc EXCEPT ![item] = p]
  <2>1. CASE Sequential
    BY <2>1 DEF Sequential, SeqSetup, SeqSetupFails, SeqSkip, SeqCall, SeqTeardown
  <2>2. CASE Prepare
    BY <2>2 DEF Prepare, Transition, HookPasses, HookFails, HookSkips, PushItems, tests
  <2>3. CASE EnterGroup \/ RaiseFailed \/ ReturnTrue \/ SessionFinish \/ Close \/ Terminated
    BY <2>3 DEF EnterGroup, RaiseFailed, ReturnTrue, SessionFinish, Close, PopItems,
           RunFinalizer, CloseGroup, TeardownShared, Terminated, vars, tests
  <2> QED  BY <2>1, <2>2, <2>3 DEF Proceed
<1> QED  BY <1>2, <1>3, <1>4

(* The hook of an item: its module is populated if it passes, and no value *)
(* is lost.                                                                *)
LEMMA HookPopulated ==
  ASSUME SessionInv, ValuesInv, PopulatedInv, UniformModules,
         HookPasses \/ HookFails \/ HookSkips
  PROVE  /\ \A i \in Range(groups[group_idx]) : module[i] \in shared_populated_modules' =>
              \A f \in SharedOf(i) : Set(cached_result'[<<f>>])
         /\ \A i \in ParallelSet' : module[i] \in shared_populated_modules'
<1>1. /\ HookEntered /\ item \in Items /\ OnPath(stack, collectors[item])
      /\ group_idx \in DOMAIN groups /\ idx \in DOMAIN groups[group_idx]
  <2>1. HookEntered
    BY DEF HookPasses, HookFails, HookSkips
  <2> QED  BY <2>1, HookPath DEF SessionInv
<1>2. mpc = "hook" /\ UNCHANGED group_idx
  BY <1>1 DEF HookEntered
<1>3. item \in Range(groups[group_idx]) /\ Range(groups[group_idx]) \subseteq Items
  BY <1>1, <1>2, ParallelItems DEF item, Range, SessionInv, GroupPlaces
<1>4. Pushed(stack, item) \in Seq(Entries)
  BY <1>1, PushedFacts DEF SessionInv, StackInv
<1>5. /\ ToPopulate(item) \in Seq(Fixtures)
      /\ Range(ToPopulate(item)) \subseteq Range(fixturenames[item])
  BY <1>1, NamesTyped
<1>6. \A d \in Defs : Set(cached_result[d]) => cached_result'[d] = cached_result[d]
  <2>1. CASE HookPasses \/ HookFails
    <3>1. \/ Resolve(Pushed(stack, item), item, ToPopulate(item))
          \/ ResolveFails(Pushed(stack, item), item, ToPopulate(item))
      BY <2>1 DEF HookPasses, HookFails
    <3>2. SetUp(Pushed(stack, item), item, ToPopulate(item))
      BY <1>1, <1>4, <1>5, <3>1, SetUpFacts DEF ValuesInv
    <3> QED  BY <3>2 DEF SetUp, Set
  <2>2. CASE HookSkips
    BY <2>2 DEF HookSkips, caches
  <2> QED  BY <2>1, <2>2
<1>7. ASSUME NEW i \in Range(groups[group_idx]), module[i] \in shared_populated_modules,
             NEW f \in SharedOf(i)
      PROVE  Set(cached_result'[<<f>>])
  <2>1. Set(cached_result[<<f>>])
    BY <1>2, <1>7 DEF PopulatedInv
  <2>2. <<f>> \in Defs
    BY <1>3, SharedFacts
  <2> QED  BY <1>6, <2>1, <2>2
<1>8. CASE HookFails \/ HookSkips
  <2>1. UNCHANGED <<shared_populated_modules, parallel_items>>
    BY <1>8 DEF HookFails, HookSkips, prepared
  <2>2. ParallelSet' = ParallelSet
    BY <2>1 DEF ParallelSet
  <2> QED  BY <1>2, <1>7, <2>1, <2>2 DEF PopulatedInv
<1>9. CASE HookPasses
  <2>1. /\ Resolve(Pushed(stack, item), item, ToPopulate(item))
        /\ shared_populated_modules' = shared_populated_modules \cup {module[item]}
        /\ parallel_items' = Append(parallel_items, item)
    BY <1>9 DEF HookPasses
  <2>2. ASSUME NEW i \in Range(groups[group_idx]), module[i] \in shared_populated_modules',
               NEW f \in SharedOf(i)
        PROVE  Set(cached_result'[<<f>>])
    <3>1. CASE module[i] \in shared_populated_modules
      BY <1>7, <3>1
    <3>2. CASE module[i] \notin shared_populated_modules
      <4>1. module[i] = module[item] /\ InParallel(group_idx)
        BY <1>2, <2>1, <2>2, <3>2 DEF PopulatedInv, GroupPlaces
      <4>2. SharedOf(i) = SharedOf(item)
        BY <1>1, <1>3, <4>1 DEF UniformModules
      <4>3. f \in Range(ToPopulate(item)) /\ Def(f, item) = <<f>>
        BY <1>1, <2>2, <3>2, <4>1, <4>2, SharedFacts
      <4>4. PICK found \in SUBSET Range(ToPopulate(item)) :
              Filled(item, found) /\ found = Range(ToPopulate(item))
        <5>1. ArgsTyped
          BY DEF ArgsTyped, ValuesInv, ArgsInv
        <5> QED  BY <1>1, <1>4, <1>5, <2>1, <5>1, ResolvedArgs DEF ValuesInv
      <4> QED  BY <4>3, <4>4 DEF Filled
    <3> QED  BY <3>1, <3>2
  <2>3. ParallelSet' \subseteq ParallelSet \cup {item}
    <3>1. parallel_items \in Seq(Items)
      BY DEF SessionInv, ItemsInv, ControlInv
    <3> QED  BY <1>1, <2>1, <3>1 DEF ParallelSet, Range
  <2>4. \A i \in ParallelSet' : module[i] \in shared_populated_modules'
    BY <1>2, <2>1, <2>3 DEF PopulatedInv
  <2> QED  BY <2>2, <2>4
<1> QED  BY <1>8, <1>9

LEMMA PopulatedStep ==
  ASSUME SessionInv, ValuesInv, PopulatedInv, UniformModules, [Next]_vars
  PROVE  PopulatedInv'
<1>0. SessionInv'
  BY SessionStep
<1>1. CASE UNCHANGED Rest
  <2>1. \A j \in Items : NextName(j)' = NextName(j)
    BY <1>1 DEF NextName, Unresolved, Rest
  <2>2. ParallelSet' = ParallelSet
    BY <1>1 DEF ParallelSet, Rest, prepared
  <2> QED  BY <1>1, <2>1, <2>2 DEF PopulatedInv, AddFinalizerPasses, Rest, control,
                                  prepared, caches
<1>2. CASE \E i \in Items : Worker(i)
  <2>1. PICK i \in Items : Worker(i)
    BY <1>2
  <2>2. /\ mpc = "workers"
        /\ UNCHANGED <<control, stack, prepared, deferred>>
        /\ SharedKept
        /\ \A j \in Items : wpc'[j] = "executing" => scope[NextName(j)'] = "function"
        /\ AddFinalizerPasses'
    BY <2>1, WorkerShared
  <2>3. ParallelSet' = ParallelSet /\ UNCHANGED <<mpc, group_idx, shared_populated_modules>>
    BY <2>2 DEF ParallelSet, prepared, control
  <2>4. ASSUME NEW j \in Range(groups[group_idx]), module[j] \in shared_populated_modules,
               NEW f \in SharedOf(j)
        PROVE  Set(cached_result'[<<f>>])
    <3>1. j \in Items
      BY <2>2, ParallelItems DEF SessionInv, GroupPlaces
    <3>2. Set(cached_result[<<f>>]) /\ Shared(<<f>>) /\ <<f>> \in Defs
      BY <2>2, <2>4, <3>1, SharedFacts DEF PopulatedInv
    <3> QED  BY <2>2, <3>2 DEF SharedKept
  <2> QED  BY <2>2, <2>3, <2>4 DEF PopulatedInv, SeqPlaces, GroupPlaces
<1>3. ASSUME Proceed PROVE PopulatedInv'
  <2>1. (\A i \in Items : wpc[i]' = "executing" => scope[NextName(i)'] = "function")
        /\ AddFinalizerPasses'
    BY <1>0, <1>3, MainThreads DEF PopulatedInv, AddFinalizerPasses
  <2>2. CASE EnterGroup
    <3>1. /\ mpc = "loop" /\ mpc' = IF InParallel(group_idx) THEN "hook" ELSE "seq"
          /\ UNCHANGED <<group_idx, shared_populated_modules, parallel_items>>
      BY <2>2 DEF EnterGroup, prepared
    <3>2. shared_populated_modules' = {} /\ ParallelSet' = {}
      BY <3>1 DEF PopulatedInv, SessionInv, PlaceInv, ParallelSet, Range
    <3> QED  BY <2>1, <3>1, <3>2 DEF PopulatedInv, GroupPlaces, SeqPlaces
  <2>3. CASE RaiseFailed \/ ReturnTrue \/ SessionFinish
    <3>1. mpc' \in {"raised", "returned", "finished"}
      BY <2>3 DEF RaiseFailed, ReturnTrue, SessionFinish
    <3> QED  BY <2>1, <3>1 DEF PopulatedInv, GroupPlaces, SeqPlaces
  <2>4. CASE Sequential
    <3>1. /\ mpc \in SeqPlaces /\ mpc' \in SeqPlaces \cup {"loop"}
          /\ UNCHANGED shared_populated_modules
      BY <2>4 DEF Sequential, SeqSetup, SeqSetupFails, SeqSkip, SeqCall, SeqTeardown, SeqPlaces,
                  NextGroup, prepared
    <3> QED  BY <2>1, <3>1 DEF PopulatedInv, GroupPlaces, SeqPlaces
  <2>5. CASE Transition \/ PushItems
    <3>1. /\ mpc = "hook" /\ mpc' \in {"hook", "workers"}
          /\ UNCHANGED <<group_idx, shared_populated_modules, parallel_items>>
      BY <2>5 DEF Transition, PushItems, control, prepared
    <3>2. cached_result' = cached_result
      BY <2>5, TransitionKeeps DEF PushItems, SessionInv, ValuesInv
    <3>3. ParallelSet' = ParallelSet
      BY <3>1 DEF ParallelSet
    <3> QED  BY <2>1, <3>1, <3>2, <3>3 DEF PopulatedInv, GroupPlaces, SeqPlaces
  <2>6. CASE HookPasses \/ HookFails \/ HookSkips
    <3>1. mpc = "hook" /\ mpc' = "hook" /\ UNCHANGED group_idx
      BY <2>6 DEF HookPasses, HookFails, HookSkips, HookEntered
    <3> QED  BY <2>1, <2>6, <3>1, HookPopulated DEF PopulatedInv, GroupPlaces, SeqPlaces
  <2>7. CASE Close
    <3>1. CASE PopItems \/ RunFinalizer \/ \E raises \in BOOLEAN : TeardownShared(raises)
      <4>1. /\ mpc \in GroupPlaces /\ mpc' \in {"teardown_all", "deferred", "error"}
            /\ UNCHANGED group_idx
        BY <3>1 DEF PopItems, RunFinalizer, TeardownShared, control, GroupPlaces
      <4> QED  BY <2>1, <4>1 DEF PopulatedInv, GroupPlaces, SeqPlaces
    <3>2. CASE CloseGroup
      <4>1. mpc' \in {"loop", "error"} /\ shared_populated_modules' = {}
        BY <3>2 DEF CloseGroup, NextGroup
      <4> QED  BY <2>1, <4>1 DEF PopulatedInv, GroupPlaces, SeqPlaces
    <3> QED  BY <2>7, <3>1, <3>2 DEF Close
  <2> QED  BY <1>3, <2>2, <2>3, <2>4, <2>5, <2>6, <2>7 DEF Proceed, Prepare
<1> QED  BY <1>1, <1>2, <1>3, Steps

(* Among keeps a prefix when it is asked for one.                          *)
LEMMA AmongPrefix ==
  ASSUME NEW S, NEW s \in Seq(S), NEW p \in 0 .. Len(s), NEW chosen,
         \A k \in DOMAIN s : s[k] \in chosen <=> k <= p
  PROVE  Among(s, chosen) = SubSeq(s, 1, p)
<1> DEFINE places == {k \in DOMAIN s : s[k] \in chosen}
           rank(k) == Cardinality({n \in places : n <= k})
<1>1. Len(s) \in Nat /\ DOMAIN s = 1 .. Len(s)
  OBVIOUS
<1>2. places = 1 .. p /\ p \in Nat
  BY <1>1
<1>3. ASSUME NEW k \in 1 .. p PROVE rank(k) = k
  <2>1. {n \in 1 .. p : n <= k} = 1 .. k
    OBVIOUS
  <2>2. Cardinality(1 .. k) = k
    BY <1>2, FS_Interval
  <2> HIDE DEF places
  <2> QED  BY <1>2, <2>1, <2>2
<1>4. Cardinality(places) = p
  <2>1. Cardinality(1 .. p) = p
    BY <1>2, FS_Interval
  <2> HIDE DEF places
  <2> QED  BY <1>2, <2>1
<1>5. Among(s, chosen) = [j \in 1 .. Cardinality(places) |-> s[CHOOSE k \in places : rank(k) = j]]
  BY DEF Among
<1> HIDE DEF places, rank
<1>6. ASSUME NEW j \in 1 .. p PROVE (CHOOSE k \in places : rank(k) = j) = j
  BY <1>2, <1>3
<1>7. Among(s, chosen) = [j \in 1 .. p |-> s[j]]
  BY <1>4, <1>5, <1>6
<1>8. SubSeq(s, 1, p) = [j \in 1 .. p |-> s[j]]
  BY <1>1, <1>2
<1> QED  BY <1>7, <1>8

(* While a parallel group runs, the collectors on the stack are those of   *)
(* the last item that had its hook; behind them are the items the workers  *)
(* run, without finalizers of main's.                                      *)
PathInv ==
  /\ mpc = "hook" /\ idx > 1 => OnPath(stack, collectors[groups[group_idx][idx - 1]])
  /\ mpc = "workers" => \E p \in 0 .. Len(stack) :
       /\ \A k \in 1 .. p :
            /\ k <= Len(collectors[Last(groups[group_idx])])
            /\ stack[k].node = collectors[Last(groups[group_idx])][k]
       /\ \A k \in (p + 1) .. Len(stack) :
            stack[k].node \in ParallelSet /\ Range(stack[k].fins) = {}
  /\ mpc = "teardown_all" => OnPath(stack, collectors[Last(groups[group_idx])])
  /\ mpc \in {"teardown_all", "deferred"} => idx > Len(groups[group_idx])

LEMMA PathInit == Init => PathInv
  BY DEF Init, PathInv

LEMMA LastFacts ==
  ASSUME NEW g \in DOMAIN groups
  PROVE  /\ Last(groups[g]) = groups[g][Len(groups[g])] /\ Last(groups[g]) \in Items
         /\ Len(groups[g]) \in DOMAIN groups[g]
<1>1. Len(groups[g]) \in DOMAIN groups[g]
  BY GroupFacts
<1> QED  BY <1>1, GroupFacts DEF Last

LEMMA HookOnPath ==
  ASSUME SessionInv, HookPasses \/ HookFails \/ HookSkips
  PROVE  /\ HookEntered /\ OnPath(stack', collectors[item])
<1>1. /\ HookEntered /\ item \in Items /\ OnPath(stack, collectors[item])
  <2>1. HookEntered
    BY DEF HookPasses, HookFails, HookSkips
  <2> QED  BY <2>1, HookPath DEF SessionInv
<1>2. CASE HookSkips
  BY <1>1, <1>2 DEF HookSkips, caches
<1>3. CASE HookPasses \/ HookFails
  <2>1. \/ Resolve(Pushed(stack, item), item, ToPopulate(item))
        \/ ResolveFails(Pushed(stack, item), item, ToPopulate(item))
    BY <1>3 DEF HookPasses, HookFails
  <2>2. /\ Pushed(stack, item) \in Seq(Entries)
        /\ Len(Pushed(stack, item)) = Len(collectors[item])
        /\ \A k \in DOMAIN collectors[item] : Pushed(stack, item)[k].node = collectors[item][k]
    BY <1>1, PushedFacts DEF SessionInv, StackInv
  <2>3. ToPopulate(item) \in Seq(Fixtures)
    BY <1>1, NamesTyped
  <2>4. SameNodes(Pushed(stack, item), stack')
    BY <1>1, <2>1, <2>2, <2>3, ResolvedNodes
  <2>5. OnPath(Pushed(stack, item), collectors[item])
    <3>1. DOMAIN Pushed(stack, item) = DOMAIN collectors[item]
          /\ DOMAIN collectors[item] = 1 .. Len(collectors[item])
      BY <1>1, <2>2, ChainFacts
    <3> QED  BY <2>2, <3>1 DEF OnPath
  <2> QED  BY <1>1, <2>4, <2>5, SameNodesFacts
<1> QED  BY <1>1, <1>2, <1>3

LEMMA PreparePath ==
  ASSUME SessionInv, SessionInv', PathInv, Prepare
  PROVE  PathInv'
<1>0. mpc = "hook" /\ group_idx \in DOMAIN groups /\ idx \in Nat \ {0}
      /\ idx <= Len(groups[group_idx]) + 1 /\ stack \in Seq(Entries)
  BY DEF Prepare, Transition, HookPasses, HookFails, HookSkips, HookEntered, PushItems,
         SessionInv, ItemsInv, ControlInv, StackInv, GroupPlaces
<1>1. CASE Transition
  <2>1. /\ SameNodes(stack, Cleared) /\ Cleared \in Seq(Entries) /\ item \in Items
        /\ stack' = SubSeq(Cleared, 1, Kept(Cleared, item))
    BY <1>1, TransitionFacts DEF SessionInv
  <2>2. /\ \A k \in DOMAIN stack' : k \in DOMAIN Cleared /\ stack'[k] = Cleared[k]
    <3>1. item \in Items \cup {None}
      BY <2>1
    <3> QED  BY <2>1, <3>1, KeptPath
  <2>3. mpc' = "hook" /\ UNCHANGED <<idx, group_idx>>
    BY <1>0, <1>1 DEF Transition, control
  <2>4. ASSUME NEW chain, OnPath(stack, chain) PROVE OnPath(stack', chain)
    <3>1. OnPath(Cleared, chain)
      BY <2>1, <2>4, SameNodesFacts
    <3> QED  BY <2>2, <3>1 DEF OnPath
  <2> QED  BY <1>0, <2>3, <2>4 DEF PathInv
<1>2. CASE HookPasses \/ HookFails \/ HookSkips
  <2>1. HookEntered /\ OnPath(stack', collectors[item])
    BY <1>2, HookOnPath
  <2>2. mpc' = "hook" /\ idx' = idx + 1 /\ group_idx' = group_idx
    BY <2>1 DEF HookEntered
  <2>3. groups[group_idx'][idx' - 1] = item
    BY <1>0, <2>2 DEF item
  <2> QED  BY <2>1, <2>2, <2>3 DEF PathInv
<1>3. CASE PushItems
  <2> PICK extra : extra = [k \in DOMAIN parallel_items |-> [node |-> parallel_items[k], fins |-> <<>>]]
    OBVIOUS
  <2>1. /\ idx > Len(groups[group_idx]) /\ stack' = stack \o extra /\ mpc' = "workers"
        /\ UNCHANGED <<group_idx, idx, parallel_items>>
    BY <1>3 DEF PushItems, prepared
  <2>2. idx = Len(groups[group_idx]) + 1 /\ idx > 1 /\ idx - 1 = Len(groups[group_idx])
    BY <1>0, <2>1, GroupFacts
  <2>3. OnPath(stack, collectors[Last(groups[group_idx])])
    BY <1>0, <2>2, LastFacts DEF PathInv
  <2>4. parallel_items \in Seq(Items)
    BY DEF SessionInv, ItemsInv, ControlInv
  <2>5. extra \in Seq(Entries) /\ DOMAIN extra = DOMAIN parallel_items
    <3>1. \A k \in DOMAIN parallel_items :
            [node |-> parallel_items[k], fins |-> <<>>] \in Entries
      BY <2>4 DEF Entries
    <3>2. extra \in [1 .. Len(parallel_items) -> Entries] /\ Len(parallel_items) \in Nat
      BY <2>4, <3>1
    <3> QED  BY <2>4, <3>2, FunctionIsSeq
  <2>6. /\ DOMAIN stack' = 1 .. (Len(stack) + Len(extra)) /\ stack' \in Seq(Entries)
        /\ \A k \in DOMAIN stack' : stack'[k] = IF k <= Len(stack) THEN stack[k]
                                                 ELSE extra[k - Len(stack)]
    BY <1>0, <2>1, <2>5, ConcatFacts
  <2>7. Len(stack) \in Nat /\ Len(extra) \in Nat /\ Len(stack') = Len(stack) + Len(extra)
        /\ DOMAIN extra = 1 .. Len(extra) /\ DOMAIN stack = 1 .. Len(stack)
    BY <1>0, <2>5, <2>6
  <2>8. ASSUME NEW k \in 1 .. Len(stack)
        PROVE  /\ k <= Len(collectors[Last(groups[group_idx])])
               /\ stack'[k].node = collectors[Last(groups[group_idx])][k]
    <3>1. k \in DOMAIN stack /\ k \in DOMAIN stack' /\ k <= Len(stack)
      BY <2>6, <2>7
    <3>2. stack'[k] = stack[k]
      BY <2>6, <3>1
    <3> QED  BY <2>3, <3>1, <3>2 DEF OnPath
  <2>9. ASSUME NEW k \in (Len(stack) + 1) .. Len(stack')
        PROVE  stack'[k].node \in ParallelSet /\ Range(stack'[k].fins) = {}
    <3>1. k \in DOMAIN stack' /\ ~ (k <= Len(stack)) /\ k - Len(stack) \in DOMAIN extra
      BY <2>6, <2>7
    <3>2. stack'[k] = [node |-> parallel_items[k - Len(stack)], fins |-> <<>>]
      BY <2>5, <2>6, <3>1
    <3> QED  BY <2>5, <3>1, <3>2 DEF ParallelSet, Range
  <2>10. Len(stack) \in 0 .. Len(stack')
    BY <2>7
  <2>11. ParallelSet' = ParallelSet
    BY <2>1 DEF ParallelSet
  <2>12. \E p \in 0 .. Len(stack') :
           /\ \A k \in 1 .. p :
                /\ k <= Len(collectors[Last(groups[group_idx])])
                /\ stack'[k].node = collectors[Last(groups[group_idx])][k]
           /\ \A k \in (p + 1) .. Len(stack') :
                stack'[k].node \in ParallelSet /\ Range(stack'[k].fins) = {}
    BY <2>8, <2>9, <2>10
  <2>13. mpc' = "workers" /\ group_idx' = group_idx
    BY <2>1
  <2> QED  BY <2>11, <2>12, <2>13 DEF PathInv
<1> QED  BY <1>1, <1>2, <1>3 DEF Prepare

LEMMA PopPath ==
  ASSUME SessionInv, PathInv, PopItems
  PROVE  /\ PathInv'
         /\ \E p \in 0 .. Len(stack) : stack' = SubSeq(stack, 1, p) /\
              \A k \in (p + 1) .. Len(stack) : Range(stack[k].fins) = {}
<1>0. /\ mpc = "workers" /\ group_idx \in DOMAIN groups /\ stack \in Seq(Entries)
      /\ idx = Len(groups[group_idx]) + 1 /\ ParallelSet \subseteq Items
  <2>1. mpc = "workers"
    BY DEF PopItems
  <2> QED  BY <2>1, ParallelItems DEF SessionInv, ItemsInv, ControlInv, StackInv, GroupPlaces
<1>1. /\ stack' = Among(stack, {e \in Range(stack) : e.node \notin ParallelSet})
      /\ mpc' = "teardown_all" /\ UNCHANGED <<group_idx, idx>>
  BY DEF PopItems
<1> PICK last : last = Last(groups[group_idx])
  OBVIOUS
<1>2. last \in Items
  BY <1>0, LastFacts
<1>3. PICK p \in 0 .. Len(stack) :
        /\ \A k \in 1 .. p : k <= Len(collectors[last]) /\ stack[k].node = collectors[last][k]
        /\ \A k \in (p + 1) .. Len(stack) :
             stack[k].node \in ParallelSet /\ Range(stack[k].fins) = {}
  BY <1>0 DEF PathInv
<1>4. ASSUME NEW k \in DOMAIN stack
      PROVE  stack[k] \in {e \in Range(stack) : e.node \notin ParallelSet} <=> k <= p
  <2>1. stack[k] \in Range(stack)
    BY DEF Range
  <2>2. k \in 1 .. Len(stack) /\ Len(stack) \in Nat
    BY <1>0
  <2>3. CASE k <= p
    <3>1. k \in 1 .. p
      BY <2>2, <2>3
    <3>2. stack[k].node \in Nodes
      <4>1. k \in DOMAIN collectors[last] /\ stack[k].node = collectors[last][k]
        BY <1>2, <1>3, <2>2, <3>1, ChainFacts
      <4> QED  BY <1>2, <4>1, ChainFacts
    <3>3. stack[k].node \notin ParallelSet
      BY <1>0, <3>2, CollectorsAssumption
    <3> QED  BY <2>1, <2>3, <3>3
  <2>4. CASE ~ (k <= p)
    <3>1. k \in (p + 1) .. Len(stack)
      BY <2>2, <2>4
    <3> QED  BY <1>3, <2>4, <3>1
  <2> QED  BY <2>3, <2>4
<1>5. stack' = SubSeq(stack, 1, p)
  <2> DEFINE chosen == {e \in Range(stack) : e.node \notin ParallelSet}
  <2>1. \A k \in DOMAIN stack : stack[k] \in chosen <=> k <= p
    BY <1>4
  <2>2. stack' = Among(stack, chosen)
    BY <1>1
  <2> HIDE DEF chosen
  <2> QED  BY <1>0, <2>1, <2>2, AmongPrefix
<1>6. OnPath(stack', collectors[last])
  <2>1. DOMAIN stack' = 1 .. p /\ \A k \in 1 .. p : stack'[k] = stack[k]
    BY <1>0, <1>5
  <2> QED  BY <1>3, <2>1 DEF OnPath
<1>7. PathInv'
  <2>1. idx' > Len(groups[group_idx'])
    BY <1>0, <1>1, GroupFacts
  <2> QED  BY <1>1, <1>6, <2>1 DEF PathInv
<1> QED  BY <1>3, <1>5, <1>7

LEMMA PathStep ==
  ASSUME SessionInv, ValuesInv, PopulatedInv, UniformModules, PathInv, [Next]_vars
  PROVE  PathInv'
<1>0. SessionInv'
  BY SessionStep
<1>1. CASE UNCHANGED Rest
  <2>1. ParallelSet' = ParallelSet
    BY <1>1 DEF ParallelSet, Rest, prepared
  <2> QED  BY <1>1, <2>1 DEF PathInv, Rest, control, caches
<1>2. CASE \E i \in Items : Worker(i)
  <2>1. UNCHANGED <<control, stack, prepared, deferred>>
    BY <1>2, WorkerShared
  <2>2. ParallelSet' = ParallelSet /\ UNCHANGED <<mpc, group_idx, idx, stack>>
    BY <2>1 DEF ParallelSet, prepared, control
  <2> QED  BY <2>2 DEF PathInv
<1>3. CASE Sequential \/ RaiseFailed \/ ReturnTrue \/ SessionFinish \/ CloseGroup
  <2>1. mpc' \notin {"hook", "workers", "teardown_all", "deferred"}
    BY <1>3 DEF Sequential, SeqSetup, SeqSetupFails, SeqSkip, SeqCall, SeqTeardown, NextGroup,
                RaiseFailed, ReturnTrue, SessionFinish, CloseGroup
  <2> QED  BY <2>1 DEF PathInv
<1>4. CASE EnterGroup
  <2>1. mpc' \in {"hook", "seq"} /\ idx' = 1
    BY <1>4 DEF EnterGroup, SessionInv, ItemsInv, ControlInv
  <2> QED  BY <2>1 DEF PathInv
<1>5. CASE RunFinalizer \/ \E raises \in BOOLEAN : TeardownShared(raises)
  <2>1. mpc' \in {"deferred", "error"} /\ mpc \in {"deferred", "teardown_all"}
        /\ UNCHANGED <<group_idx, idx>>
    BY <1>5 DEF RunFinalizer, TeardownShared, control
  <2> QED  BY <2>1 DEF PathInv
<1> QED  BY <1>0, <1>1, <1>2, <1>3, <1>4, <1>5, PreparePath, PopPath, Steps
        DEF Proceed, Close

-----------------------------------------------------------------------------
(* A shared fixture is set up once.                                        *)

(* A test that main has not passed lives below n.                          *)
Ahead(n) ==
  \E h \in DOMAIN groups : \E m \in DOMAIN groups[h] :
    NotAfter(group_idx, idx, h, m) /\ n \in Range(collectors[groups[h][m]])

(* Main does not go back.                                                  *)
Goes == NotAfter(group_idx, idx, group_idx', idx')

SavingPlaces == {"hook", "workers", "teardown_all"}

SavedFins == UNION {Range(saved_collector_fins[k].fins) : k \in DOMAIN saved_collector_fins}

OnStack(d) == \E k \in DOMAIN stack : d \in Range(stack[k].fins)

ClosingInv ==
  /\ saved_collector_fins \in Seq(Entries) /\ deferred \in Seq(Defs)
  /\ mpc \in {"loop"} \cup SeqPlaces => saved_collector_fins = <<>>
  /\ mpc # "deferred" => deferred = <<>>

(* The finalizer of a shared definition is on the node its value lives on, *)
(* on that node only, or saved, or due.                                    *)
FinsInv ==
  /\ \A k \in DOMAIN stack : \A d \in Range(stack[k].fins) : Shared(d) =>
       /\ cached_result[d] # None
       /\ Set(cached_result[d]) => cached_result[d].node = stack[k].node
       /\ \A n \in DOMAIN stack : d \in Range(stack[n].fins) => n = k
  /\ mpc \in SavingPlaces => \A d \in SavedFins : Shared(d) =>
       cached_result[d] # None /\ ~ OnStack(d)
  /\ \A d \in Range(deferred) : Shared(d) => ~ OnStack(d)

(* A shared value was made for a test that main has reached, on one of its *)
(* collectors.                                                             *)
MadeInv ==
  \A x \in created :
    /\ x.node \notin Items => Shared(x.def)
    /\ Shared(x.def) =>
         /\ x.node \in Range(collectors[x.by])
         /\ \E h \in DOMAIN groups : \E m \in DOMAIN groups[h] :
              groups[h][m] = x.by /\ NotAfter(h, m, group_idx, idx)

(* A shared value that a later test can ask for is the cached one; one     *)
(* whose finalizer is saved or due cannot be asked for any more.           *)
NewestInv ==
  \A x \in created : Shared(x.def) /\ Ahead(x.node) => cached_result[x.def] = x

GoneInv ==
  \A x \in created : Shared(x.def) =>
    /\ mpc \in SavingPlaces /\ x.def \in SavedFins => ~ Ahead(x.node)
    /\ x.def \in Range(deferred) => ~ Ahead(x.node)

OnceInv ==
  /\ ClosingInv
  /\ MadeInv
  /\ CreatedOnce
  /\ mpc # "finished" => FinsInv /\ NewestInv /\ GoneInv

LEMMA OnceInit == Init => OnceInv
<1> SUFFICES ASSUME Init PROVE OnceInv
  OBVIOUS
<1>1. Range(<<>>) = {}
  BY DEF Range
<1>2. /\ stack = <<>> /\ created = {} /\ deferred = <<>> /\ saved_collector_fins = <<>>
      /\ mpc = "loop"
  BY DEF Init
<1>3. SavedFins = {}
  BY <1>2 DEF SavedFins
<1> QED  BY <1>1, <1>2, <1>3 DEF OnceInv, ClosingInv, MadeInv, CreatedOnce, FinsInv, NewestInv,
                                 GoneInv

(* Main goes through the groups in order.                                  *)
LEMMA Position ==
  ASSUME SessionInv
  PROVE  group_idx \in Nat /\ idx \in Nat \ {0}
  BY GroupFacts DEF SessionInv, ItemsInv, ControlInv

LEMMA MainGoes ==
  ASSUME SessionInv, [Next]_vars
  PROVE  Goes
<1>1. group_idx \in Nat /\ idx \in Nat
  BY Position
<1>2. \/ UNCHANGED <<group_idx, idx>>
      \/ group_idx' = group_idx /\ idx' = idx + 1
      \/ group_idx' = group_idx + 1
  <2>1. CASE \E i \in Items : Worker(i)
    BY <2>1 DEF Worker, Take, CacheHit, CacheMiss, Execute, ExecuteRaises, EnterCall, LeaveCall,
           control
  <2>2. CASE Sequential
    BY <2>2 DEF Sequential, SeqSetup, SeqSetupFails, SeqSkip, SeqCall, SeqTeardown, NextGroup
  <2>3. CASE Prepare
    BY <2>3 DEF Prepare, Transition, HookPasses, HookFails, HookSkips, HookEntered, PushItems,
           control
  <2>4. CASE Close
    BY <2>4 DEF Close, PopItems, RunFinalizer, CloseGroup, TeardownShared, NextGroup, control
  <2>5. CASE EnterGroup \/ RaiseFailed \/ ReturnTrue \/ SessionFinish \/ UNCHANGED Rest
    BY <2>5 DEF EnterGroup, RaiseFailed, ReturnTrue, SessionFinish, Rest, control
  <2> QED  BY <2>1, <2>2, <2>3, <2>4, <2>5, Steps DEF Proceed
<1> QED  BY <1>1, <1>2 DEF Goes, NotAfter

LEMMA AheadShrinks ==
  ASSUME SessionInv, SessionInv', Goes, NEW n, Ahead(n)'
  PROVE  Ahead(n)
<1>1. /\ group_idx \in Nat /\ idx \in Nat /\ group_idx' \in Nat /\ idx' \in Nat
  <2>1. group_idx' \in 1 .. (Len(groups) + 1) /\ idx' \in Nat \ {0}
    BY DEF SessionInv, ItemsInv, ControlInv
  <2>2. Len(groups) \in Nat
    BY GroupFacts
  <2>3. group_idx' \in Nat /\ idx' \in Nat
    BY <2>1, <2>2
  <2>4. group_idx \in Nat /\ idx \in Nat \ {0}
    BY Position
  <2> QED  BY <2>3, <2>4
<1> PICK h \in DOMAIN groups : \E m \in DOMAIN groups[h] :
        NotAfter(group_idx', idx', h, m) /\ n \in Range(collectors[groups[h][m]])
  BY DEF Ahead
<1>2. PICK m \in DOMAIN groups[h] :
        NotAfter(group_idx', idx', h, m) /\ n \in Range(collectors[groups[h][m]])
  OBVIOUS
<1>3. h \in Nat /\ m \in Nat
  BY GroupFacts
<1>4. NotAfter(group_idx, idx, h, m)
  BY <1>1, <1>2, <1>3 DEF NotAfter, Goes
<1> QED  BY <1>2, <1>4 DEF Ahead

LEMMA KeptBetween ==
  ASSUME KeptTogether, NEW a \in DOMAIN groups, NEW b \in DOMAIN groups, NEW c \in DOMAIN groups,
         NEW k \in DOMAIN groups[a], NEW m \in DOMAIN groups[b], NEW n \in DOMAIN groups[c],
         NotAfter(a, k, b, m), NotAfter(b, m, c, n)
  PROVE  \A node \in Range(collectors[groups[a][k]]) :
           node \in Range(collectors[groups[c][n]]) => node \in Range(collectors[groups[b][m]])
  BY DEF KeptTogether

(* What main has left, it has left for good.                               *)
LEMMA LeftBehind ==
  ASSUME SessionInv, KeptTogether, MadeInv, NEW x \in created, Shared(x.def),
         NEW b \in DOMAIN groups, NEW p \in DOMAIN groups[b], NotAfter(group_idx, idx, b, p),
         x.node \notin Range(collectors[groups[b][p]]),
         NEW c \in DOMAIN groups, NEW q \in DOMAIN groups[c], NotAfter(b, p, c, q)
  PROVE  x.node \notin Range(collectors[groups[c][q]])
<1>1. PICK node : node = x.node
  OBVIOUS
<1>2. \E h \in DOMAIN groups : \E m \in DOMAIN groups[h] :
        node \in Range(collectors[groups[h][m]]) /\ NotAfter(h, m, group_idx, idx)
  BY <1>1 DEF MadeInv
<1>3. ASSUME NEW h \in DOMAIN groups, NEW m \in DOMAIN groups[h],
             node \in Range(collectors[groups[h][m]]), NotAfter(h, m, group_idx, idx),
             node \in Range(collectors[groups[c][q]])
      PROVE  node \in Range(collectors[groups[b][p]])
  <2>1. h \in Nat /\ m \in Nat /\ b \in Nat /\ p \in Nat
    BY GroupFacts
  <2>2. group_idx \in Nat /\ idx \in Nat
    BY Position
  <2>3. NotAfter(h, m, b, p)
    BY <1>3, <2>1, <2>2 DEF NotAfter
  <2> QED  BY <1>3, <2>3, KeptBetween
<1> QED  BY <1>1, <1>2, <1>3

(* The finalizers of st are among those of the stack.                      *)
FinsFrom(st) ==
  \A k \in DOMAIN st : Range(st[k].fins) = {} \/ \E n \in DOMAIN stack : st[k] = stack[n]

LEMMA StackDefs ==
  ASSUME SessionInv
  PROVE  /\ \A k \in DOMAIN stack : Range(stack[k].fins) \subseteq Defs
         /\ ClosingInv => SavedFins \subseteq Defs /\ Range(deferred) \subseteq Defs
<1>1. ASSUME NEW s \in Seq(Entries), NEW k \in DOMAIN s PROVE Range(s[k].fins) \subseteq Defs
  <2>1. s[k] \in Entries
    OBVIOUS
  <2>2. s[k].fins \in Seq(Defs)
    BY <2>1 DEF Entries
  <2> QED  BY <2>2 DEF Range
<1>2. ASSUME ClosingInv PROVE SavedFins \subseteq Defs /\ Range(deferred) \subseteq Defs
  BY <1>1, <1>2 DEF ClosingInv, SavedFins, Range
<1> QED  BY <1>1, <1>2 DEF SessionInv, StackInv

(* A step that sets up and tears down no shared fixture.                   *)
LEMMA QuietOnce ==
  ASSUME SessionInv, SessionInv', ValuesInv, OnceInv, mpc # "finished", Goes, SharedKept,
         FinsFrom(stack'), ClosingInv', Range(deferred') \subseteq Range(deferred),
         mpc' \in SavingPlaces =>
           SavedFins' = {} \/ (mpc \in SavingPlaces /\ SavedFins' = SavedFins)
  PROVE  OnceInv'
<1>0. /\ FinsInv /\ NewestInv /\ GoneInv /\ MadeInv /\ CreatedOnce /\ ClosingInv
      /\ created \subseteq Instances /\ Distinct(stack') /\ Distinct(stack)
  BY DEF OnceInv, ValuesInv, CacheInv, SessionInv, StackInv
<1>1. \A x \in created : x.def \in Defs
  BY <1>0 DEF Instances
<1>2. \A x \in created' : Shared(x.def) \/ x.node \notin Items => x \in created
  BY DEF SharedKept
<1>3. \A n : Ahead(n)' => Ahead(n)
  BY AheadShrinks
<1>4. \A d : OnStack(d)' => OnStack(d)
  BY DEF OnStack, FinsFrom
<1>5. \A d \in Defs : Shared(d) => cached_result'[d] = cached_result[d]
  BY DEF SharedKept
<1>6. MadeInv'
  <2>1. ASSUME NEW x \in created',  Shared(x.def)
        PROVE  /\ x.node \in Range(collectors[x.by])
               /\ \E h \in DOMAIN groups : \E m \in DOMAIN groups[h] :
                    groups[h][m] = x.by /\ NotAfter(h, m, group_idx', idx')
    <3> PICK h \in DOMAIN groups : \E m \in DOMAIN groups[h] :
             groups[h][m] = x.by /\ NotAfter(h, m, group_idx, idx)
      BY <1>0, <1>2, <2>1 DEF MadeInv
    <3>1. PICK m \in DOMAIN groups[h] : groups[h][m] = x.by /\ NotAfter(h, m, group_idx, idx)
      OBVIOUS
    <3>2. h \in Nat /\ m \in Nat /\ group_idx \in Nat /\ idx \in Nat /\ group_idx' \in Nat /\ idx' \in Nat
      <4>1. group_idx' \in 1 .. (Len(groups) + 1) /\ idx' \in Nat \ {0}
        BY DEF SessionInv, ItemsInv, ControlInv
      <4> QED  BY <4>1, Position, GroupFacts
    <3>3. NotAfter(h, m, group_idx', idx')
      BY <3>1, <3>2 DEF NotAfter, Goes
    <3> QED  BY <1>0, <1>2, <2>1, <3>1, <3>3 DEF MadeInv
  <2>2. \A x \in created' : x.node \notin Items => Shared(x.def)
    BY <1>0, <1>2 DEF MadeInv
  <2> QED  BY <2>1, <2>2 DEF MadeInv
<1>7. CreatedOnce'
  BY <1>0, <1>2 DEF CreatedOnce
<1>8. NewestInv'
  BY <1>0, <1>1, <1>2, <1>3, <1>5 DEF NewestInv
<1>9. GoneInv'
  BY <1>0, <1>2, <1>3 DEF GoneInv
<1>10. FinsInv'
  <2>1. ASSUME NEW k \in DOMAIN stack', NEW d \in Range(stack'[k].fins), Shared(d)
        PROVE  /\ cached_result'[d] # None
               /\ Set(cached_result'[d]) => cached_result'[d].node = stack'[k].node
               /\ \A n \in DOMAIN stack' : d \in Range(stack'[n].fins) => n = k
    <3>1. PICK m \in DOMAIN stack : stack'[k] = stack[m]
      BY <2>1 DEF FinsFrom
    <3>2. d \in Range(stack[m].fins) /\ d \in Defs
      BY <2>1, <3>1, StackDefs
    <3>3. /\ cached_result[d] # None
          /\ Set(cached_result[d]) => cached_result[d].node = stack[m].node
          /\ \A n \in DOMAIN stack : d \in Range(stack[n].fins) => n = m
      BY <1>0, <2>1, <3>2 DEF FinsInv
    <3>4. ASSUME NEW n \in DOMAIN stack', d \in Range(stack'[n].fins) PROVE n = k
      <4>1. PICK j \in DOMAIN stack : stack'[n] = stack[j]
        BY <3>4 DEF FinsFrom
      <4>2. j = m
        BY <3>3, <3>4, <4>1
      <4> QED  BY <1>0, <3>1, <4>1, <4>2 DEF Distinct
    <3> QED  BY <1>5, <2>1, <3>1, <3>2, <3>3, <3>4
  <2>2. ASSUME mpc' \in SavingPlaces, NEW d \in SavedFins', Shared(d)
        PROVE  cached_result'[d] # None /\ ~ OnStack(d)'
    <3>1. mpc \in SavingPlaces /\ d \in SavedFins /\ d \in Defs
      BY <1>0, <2>2, StackDefs
    <3> QED  BY <1>0, <1>4, <1>5, <2>2, <3>1 DEF FinsInv
  <2>3. \A d \in Range(deferred') : Shared(d) => ~ OnStack(d)'
    BY <1>0, <1>4 DEF FinsInv
  <2> QED  BY <2>1, <2>2, <2>3 DEF FinsInv
<1> QED  BY <1>6, <1>7, <1>8, <1>9, <1>10 DEF OnceInv

LEMMA PositionNext ==
  ASSUME SessionInv'
  PROVE  group_idx' \in Nat /\ idx' \in Nat
<1>1. group_idx' \in 1 .. (Len(groups) + 1) /\ idx' \in Nat \ {0}
  BY DEF SessionInv, ItemsInv, ControlInv
<1> QED  BY <1>1, GroupFacts

LEMMA MadeGoes ==
  ASSUME SessionInv, SessionInv', MadeInv, Goes, NEW x \in created, Shared(x.def)
  PROVE  /\ x.node \in Range(collectors[x.by])
         /\ \E h \in DOMAIN groups : \E m \in DOMAIN groups[h] :
              groups[h][m] = x.by /\ NotAfter(h, m, group_idx', idx')
<1> PICK h \in DOMAIN groups : \E m \in DOMAIN groups[h] :
           groups[h][m] = x.by /\ NotAfter(h, m, group_idx, idx)
  BY DEF MadeInv
<1>1. PICK m \in DOMAIN groups[h] : groups[h][m] = x.by /\ NotAfter(h, m, group_idx, idx)
  OBVIOUS
<1>2. h \in Nat /\ m \in Nat /\ group_idx \in Nat /\ idx \in Nat
  BY Position, GroupFacts
<1>3. group_idx' \in Nat /\ idx' \in Nat
  BY PositionNext
<1>4. NotAfter(h, m, group_idx', idx')
  BY <1>1, <1>2, <1>3 DEF NotAfter, Goes
<1> QED  BY <1>1, <1>4 DEF MadeInv

LEMMA NodeOfShared ==
  ASSUME NEW i \in Items, NEW f \in Range(fixturenames[i]), scope[f] # "function"
  PROVE  NodeFor(f, i) \in Range(collectors[i])
<1>1. \E n \in Range(collectors[i]) : kind[n] = scope[f]
  BY FixturesAssumption
<1> QED  BY <1>1 DEF NodeFor

(* Main sets up fixtures for the item it is at.                            *)
LEMMA SetupOnce ==
  ASSUME SessionInv, SessionInv', ValuesInv, OnceInv, Goes,
         mpc \notin {"finished", "deferred"},
         group_idx \in DOMAIN groups, idx \in DOMAIN groups[group_idx],
         NEW st \in Seq(Entries), Distinct(st), FinsFrom(st), SameNodes(st, stack'),
         NEW names \in Seq(Fixtures), Range(names) \subseteq Range(fixturenames[item]),
         SetUp(st, item, names), ClosingInv',
         UNCHANGED <<saved_collector_fins, deferred>>,
         mpc' \in SavingPlaces => mpc \in SavingPlaces
  PROVE  OnceInv'
<1> PICK i : i = item
  OBVIOUS
<1>0. /\ FinsInv /\ NewestInv /\ GoneInv /\ MadeInv /\ CreatedOnce /\ ClosingInv
      /\ created \subseteq Instances /\ Range(deferred) = {} /\ Range(deferred') = {}
      /\ SavedFins' = SavedFins
  <2>1. deferred = <<>> /\ Range(<<>>) = {}
    BY DEF OnceInv, ClosingInv, Range
  <2>2. FinsInv /\ NewestInv /\ GoneInv /\ MadeInv /\ CreatedOnce /\ ClosingInv
        /\ created \subseteq Instances
    BY DEF OnceInv, ValuesInv, CacheInv
  <2>3. SavedFins' = SavedFins
    BY DEF SavedFins
  <2> QED  BY <2>1, <2>2, <2>3
<1>1. i \in Items /\ i = groups[group_idx][idx] /\ group_idx \in Nat /\ idx \in Nat
  BY Position, GroupFacts DEF item
<1>2. /\ created \subseteq created'
      /\ \A x \in created' \ created :
           /\ cached_result[x.def] = None /\ cached_result'[x.def] = x
           /\ \E f \in Range(names) : x = Value(f, i)
      /\ \A d \in Defs : cached_result[d] # None => cached_result'[d] = cached_result[d]
      /\ \A d \in Defs : Set(cached_result'[d]) =>
           \/ cached_result'[d] = cached_result[d]
           \/ \E f \in Range(names) : d = Def(f, i) /\ cached_result'[d] = Value(f, i)
      /\ \A k \in DOMAIN st : \A d \in Range(stack'[k].fins) :
           \/ d \in Range(st[k].fins)
           \/ /\ cached_result[d] = None /\ cached_result'[d] # None
              /\ \E f \in Range(names) : NodeFor(f, i) = st[k].node /\ d = Def(f, i)
  BY DEF SetUp
<1>3. \A f \in Range(names) :
        /\ f \in Fixtures /\ f \in Range(fixturenames[i])
        /\ Value(f, i).def = Def(f, i) /\ Value(f, i).node = NodeFor(f, i) /\ Value(f, i).by = i
        /\ Def(f, i) \in Defs
        /\ \A g \in Range(names) : Def(g, i) = Def(f, i) => g = f
  BY <1>1, ValueFacts, DefFacts
<1>4. \A f \in Range(names) :
        /\ scope[f] = "function" => NodeFor(f, i) = i /\ ~ Shared(Def(f, i))
        /\ scope[f] # "function" => NodeFor(f, i) \in Range(collectors[i]) /\ Shared(Def(f, i))
  <2>1. ASSUME NEW f \in Range(names), scope[f] = "function"
        PROVE  NodeFor(f, i) = i /\ ~ Shared(Def(f, i))
    BY <1>1, <1>3, <2>1, SharedFacts DEF NodeFor
  <2>2. ASSUME NEW f \in Range(names), scope[f] # "function"
        PROVE  NodeFor(f, i) \in Range(collectors[i]) /\ Shared(Def(f, i))
    BY <1>1, <1>3, <2>2, NodeOfShared, DefFacts DEF Shared
  <2> QED  BY <2>1, <2>2
<1>5. ASSUME NEW n \in Range(collectors[i]) PROVE Ahead(n)
  BY <1>1 DEF Ahead, NotAfter
<1>6. \A n : Ahead(n)' => Ahead(n)
  BY AheadShrinks
<1>7. \A x \in created : x.def \in Defs /\ x # None
  BY <1>0, ValuesAssumption DEF Instances
<1>8. ASSUME NEW x \in created' \ created
      PROVE  /\ x.def \in Defs /\ cached_result[x.def] = None /\ cached_result'[x.def] = x
             /\ x.by = i
             /\ x.node \notin Items => Shared(x.def)
             /\ Shared(x.def) => x.node \in Range(collectors[i]) /\ Ahead(x.node)
  <2>1. PICK f \in Range(names) : x = Value(f, i)
    BY <1>2
  <2> QED  BY <1>1, <1>2, <1>3, <1>4, <1>5, <2>1
<1>9. MadeInv'
  <2>1. ASSUME NEW x \in created', Shared(x.def)
        PROVE  /\ x.node \in Range(collectors[x.by])
               /\ \E h \in DOMAIN groups : \E m \in DOMAIN groups[h] :
                    groups[h][m] = x.by /\ NotAfter(h, m, group_idx', idx')
    <3>1. CASE x \in created
      BY <1>0, <2>1, <3>1, MadeGoes
    <3>2. CASE x \notin created
      BY <1>1, <1>8, <2>1, <3>2 DEF Goes
    <3> QED  BY <3>1, <3>2
  <2>2. \A x \in created' : x.node \notin Items => Shared(x.def)
    BY <1>0, <1>8 DEF MadeInv
  <2> QED  BY <2>1, <2>2 DEF MadeInv
<1>10. ASSUME NEW x \in created', NEW y \in created', x.node \notin Items, x.def = y.def,
              x.node = y.node, x \notin created
       PROVE  x = y
  <2>1. Shared(x.def) /\ Ahead(x.node) /\ cached_result[x.def] = None /\ cached_result'[x.def] = x
    BY <1>8, <1>10
  <2>2. CASE y \in created
    BY <1>0, <1>7, <1>10, <2>1, <2>2 DEF NewestInv
  <2>3. CASE y \notin created
    BY <1>8, <1>10, <2>1, <2>3
  <2> QED  BY <2>2, <2>3
<1>11. CreatedOnce'
  <2>1. ASSUME NEW x \in created', NEW y \in created', x.node \notin Items, x.def = y.def,
               x.node = y.node
        PROVE  x = y
    <3>1. CASE x \in created /\ y \in created
      BY <1>0, <2>1, <3>1 DEF CreatedOnce
    <3>2. CASE x \notin created
      BY <1>10, <2>1, <3>2
    <3>3. CASE y \notin created
      BY <1>10, <2>1, <3>3
    <3> QED  BY <3>1, <3>2, <3>3
  <2> QED  BY <2>1 DEF CreatedOnce
<1>12. NewestInv'
  <2>1. ASSUME NEW x \in created', Shared(x.def), Ahead(x.node)'
        PROVE  cached_result'[x.def] = x
    <3>1. CASE x \in created
      <4>1. cached_result[x.def] = x
        BY <1>0, <1>6, <2>1, <3>1 DEF NewestInv
      <4> QED  BY <1>2, <1>7, <3>1, <4>1
    <3>2. CASE x \notin created
      BY <1>8, <3>2
    <3> QED  BY <3>1, <3>2
  <2> QED  BY <2>1 DEF NewestInv
<1>13. GoneInv'
  <2>1. ASSUME NEW x \in created', Shared(x.def), mpc' \in SavingPlaces, x.def \in SavedFins'
        PROVE  ~ Ahead(x.node)'
    <3>1. mpc \in SavingPlaces /\ x.def \in SavedFins
      BY <1>0, <2>1
    <3>2. CASE x \in created
      BY <1>0, <1>6, <2>1, <3>1, <3>2 DEF GoneInv
    <3>3. CASE x \notin created
      BY <1>0, <1>8, <2>1, <3>1, <3>3 DEF FinsInv
    <3> QED  BY <3>2, <3>3
  <2> QED  BY <1>0, <2>1 DEF GoneInv
<1>14. ASSUME NEW k \in DOMAIN st, NEW d \in Range(st[k].fins), Shared(d)
       PROVE  /\ d \in Defs /\ cached_result[d] # None
              /\ Set(cached_result[d]) => cached_result[d].node = st[k].node
              /\ OnStack(d)
              /\ \A n \in DOMAIN st : d \in Range(st[n].fins) => n = k
  <2>1. PICK m \in DOMAIN stack : st[k] = stack[m]
    BY <1>14 DEF FinsFrom
  <2>2. d \in Range(stack[m].fins) /\ d \in Defs
    BY <1>14, <2>1, StackDefs
  <2>3. /\ cached_result[d] # None
        /\ Set(cached_result[d]) => cached_result[d].node = stack[m].node
        /\ \A n \in DOMAIN stack : d \in Range(stack[n].fins) => n = m
    BY <1>0, <1>14, <2>2 DEF FinsInv
  <2>4. ASSUME NEW n \in DOMAIN st, d \in Range(st[n].fins) PROVE n = k
    <3>1. PICK j \in DOMAIN stack : st[n] = stack[j]
      BY <2>4 DEF FinsFrom
    <3>2. j = m
      BY <2>3, <2>4, <3>1
    <3> QED  BY <2>1, <3>1, <3>2 DEF Distinct
  <2> QED  BY <2>1, <2>2, <2>3, <2>4 DEF OnStack
<1>15. DOMAIN stack' = DOMAIN st /\ \A k \in DOMAIN st : stack'[k].node = st[k].node
  BY DEF SameNodes
<1>16. ASSUME NEW k \in DOMAIN st, NEW d \in Range(stack'[k].fins), Shared(d)
       PROVE  /\ d \in Defs /\ cached_result'[d] # None
              /\ Set(cached_result'[d]) => cached_result'[d].node = st[k].node
              /\ cached_result[d] # None => d \in Range(st[k].fins)
              /\ \A n \in DOMAIN st : d \in Range(stack'[n].fins) => n = k
  <2>1. CASE d \in Range(st[k].fins)
    <3>1. /\ d \in Defs /\ cached_result[d] # None
          /\ Set(cached_result[d]) => cached_result[d].node = st[k].node
          /\ \A n \in DOMAIN st : d \in Range(st[n].fins) => n = k
      BY <1>14, <1>16, <2>1
    <3>2. cached_result'[d] = cached_result[d]
      BY <1>2, <3>1
    <3>3. \A n \in DOMAIN st : d \in Range(stack'[n].fins) => d \in Range(st[n].fins)
      BY <1>2, <3>1
    <3> QED  BY <2>1, <3>1, <3>2, <3>3
  <2>2. CASE d \notin Range(st[k].fins)
    <3>1. /\ cached_result[d] = None /\ cached_result'[d] # None
          /\ \E f \in Range(names) : NodeFor(f, i) = st[k].node /\ d = Def(f, i)
      BY <1>2, <1>16, <2>2
    <3>2. PICK f \in Range(names) : NodeFor(f, i) = st[k].node /\ d = Def(f, i)
      BY <3>1
    <3>3. d \in Defs
      BY <1>3, <3>2
    <3>4. Set(cached_result'[d]) => cached_result'[d].node = st[k].node
      <4>1. ASSUME Set(cached_result'[d])
            PROVE  \E g \in Range(names) : d = Def(g, i) /\ cached_result'[d] = Value(g, i)
        BY <1>2, <3>1, <3>3, <4>1
      <4> QED  BY <1>3, <3>2, <4>1
    <3>5. ASSUME NEW n \in DOMAIN st, d \in Range(stack'[n].fins) PROVE n = k
      <4>1. d \notin Range(st[n].fins)
        BY <1>14, <1>16, <3>1
      <4>2. PICK g \in Range(names) : NodeFor(g, i) = st[n].node /\ d = Def(g, i)
        BY <1>2, <3>5, <4>1
      <4>3. g = f
        BY <1>3, <3>2, <4>2
      <4> QED  BY <3>2, <4>2, <4>3 DEF Distinct
    <3> QED  BY <3>1, <3>3, <3>4, <3>5
  <2> QED  BY <2>1, <2>2
<1>17. FinsInv'
  <2>1. ASSUME mpc' \in SavingPlaces, NEW d \in SavedFins', Shared(d)
        PROVE  cached_result'[d] # None /\ ~ OnStack(d)'
    <3>1. mpc \in SavingPlaces /\ d \in SavedFins /\ d \in Defs
      BY <1>0, <2>1, StackDefs
    <3>2. cached_result[d] # None /\ ~ OnStack(d)
      BY <1>0, <2>1, <3>1 DEF FinsInv
    <3>3. \A k \in DOMAIN st : d \notin Range(stack'[k].fins)
      BY <1>14, <1>16, <2>1, <3>2
    <3> QED  BY <1>2, <1>15, <3>1, <3>2, <3>3 DEF OnStack
  <2>2. \A k \in DOMAIN stack' : \A d \in Range(stack'[k].fins) : Shared(d) =>
          /\ cached_result'[d] # None
          /\ Set(cached_result'[d]) => cached_result'[d].node = stack'[k].node
          /\ \A n \in DOMAIN stack' : d \in Range(stack'[n].fins) => n = k
    BY <1>15, <1>16
  <2> QED  BY <1>0, <2>1, <2>2 DEF FinsInv
<1> QED  BY <1>9, <1>11, <1>12, <1>13, <1>17 DEF OnceInv

(* What teardown_exact pops for `next' is on no collector of it.           *)
LEMMA AbovePath ==
  ASSUME NEW st \in Seq(Entries), NEW next \in Items \cup {None}, NEW j \in Items,
         j # next, OnPath(st, listchain(j)), NEW k \in (Kept(st, next) + 1) .. Len(st)
  PROVE  st[k].node \notin Range(Needed(next))
<1>1. CASE next = None
  BY <1>1 DEF Needed, Range
<1>2. CASE next # None
  <2>1. next \in Items /\ Needed(next) = listchain(next)
    BY <1>2 DEF Needed
  <2>2. /\ Kept(st, next) \in 0 .. Len(st)
        /\ \A m \in 0 .. Len(st) :
             m <= Len(Needed(next)) /\ (\A n \in 1 .. m : st[n].node = Needed(next)[n])
               => m <= Kept(st, next)
    BY KeptFacts
  <2>3. k \in DOMAIN st /\ k \in 0 .. Len(st) /\ ~ (k <= Kept(st, next)) /\ k \in Nat \ {0}
    BY <2>2
  <2>4. k <= Len(listchain(j)) /\ st[k].node = listchain(j)[k]
    BY <2>3 DEF OnPath
  <2>5. SUFFICES ASSUME st[k].node \in Range(listchain(next)) PROVE FALSE
    BY <2>1
  <2>6. CASE k \in DOMAIN collectors[j]
    <3>1. st[k].node = collectors[j][k] /\ st[k].node \in Nodes
      BY <2>4, <2>6, ChainFacts
    <3>2. st[k].node \in Range(collectors[next])
      BY <2>1, <2>5, <3>1, ChainFacts, CollectorsAssumption
    <3>3. PICK n \in DOMAIN collectors[next] : collectors[next][n] = st[k].node
      BY <3>2 DEF Range
    <3>4. k = n /\ \A m \in 1 .. k : collectors[j][m] = collectors[next][m]
      BY <2>1, <2>6, <3>1, <3>3, TreePath
    <3>5. /\ DOMAIN collectors[next] = 1 .. Len(collectors[next]) /\ Len(collectors[next]) \in Nat
          /\ Len(listchain(next)) = Len(collectors[next]) + 1
          /\ \A m \in DOMAIN collectors[next] : listchain(next)[m] = collectors[next][m]
      BY <2>1, ChainFacts
    <3>6. /\ DOMAIN collectors[j] = 1 .. Len(collectors[j]) /\ Len(collectors[j]) \in Nat
          /\ \A m \in DOMAIN collectors[j] : listchain(j)[m] = collectors[j][m]
      BY ChainFacts
    <3>7. ASSUME NEW m \in 1 .. k PROVE st[m].node = listchain(next)[m]
      <4>1. m \in DOMAIN st /\ m \in DOMAIN collectors[j] /\ m \in DOMAIN collectors[next]
        BY <2>3, <2>6, <3>4, <3>5, <3>6
      <4>2. st[m].node = collectors[j][m]
        BY <3>6, <4>1 DEF OnPath
      <4> QED  BY <3>4, <3>5, <4>1, <4>2
    <3>8. k <= Len(listchain(next))
      BY <2>3, <3>4, <3>5
    <3> QED  BY <2>1, <2>2, <2>3, <3>7, <3>8
  <2>7. CASE k \notin DOMAIN collectors[j]
    <3>1. k = Len(collectors[j]) + 1 /\ st[k].node = j
      BY <2>3, <2>4, <2>7, ChainFacts
    <3>2. /\ Range(listchain(next)) = Range(collectors[next]) \cup {next}
          /\ \A m \in DOMAIN collectors[next] : collectors[next][m] \in Nodes
      BY <2>1, ChainFacts
    <3>3. Range(collectors[next]) \subseteq Nodes
      BY <3>2 DEF Range
    <3>4. j \notin Nodes
      BY CollectorsAssumption
    <3> QED  BY <2>5, <3>1, <3>2, <3>3, <3>4
  <2> QED  BY <2>6, <2>7
<1> QED  BY <1>1, <1>2

(* Main tears down what `next' does not need.                              *)
LEMMA TeardownOnce ==
  ASSUME SessionInv, SessionInv', ValuesInv, OnceInv, Goes, mpc # "finished",
         NEW next \in Items \cup {None}, TeardownExact(stack, next),
         \A k \in (Kept(stack, next) + 1) .. Len(stack) :
           stack[k].node \notin Range(Needed(next)),
         \A x \in created : Shared(x.def) /\ x.node \notin Range(Needed(next)) =>
           ~ Ahead(x.node)',
         ClosingInv', mpc' \notin SavingPlaces,
         Range(deferred') = {} \/ (mpc \in SavingPlaces /\ Range(deferred') \subseteq SavedFins)
  PROVE  OnceInv'
<1>0. /\ FinsInv /\ NewestInv /\ GoneInv /\ MadeInv /\ CreatedOnce /\ ClosingInv
      /\ created \subseteq Instances /\ stack \in Seq(Entries)
  BY DEF OnceInv, ValuesInv, CacheInv, SessionInv, StackInv
<1> PICK p : p = Kept(stack, next)
  OBVIOUS
<1>1. /\ UNCHANGED created
      /\ cached_result' = Forget(cached_result, DefsAbove(stack, p))
      /\ stack' = SubSeq(stack, 1, p)
  BY DEF TeardownExact
<1>2. /\ p \in 0 .. Len(stack)
      /\ \A k \in DOMAIN stack' : k \in DOMAIN stack /\ stack'[k] = stack[k] /\ k <= p
  <2>1. /\ \A k \in DOMAIN stack' : k \in DOMAIN stack /\ stack'[k] = stack[k]
        /\ p \in 0 .. Len(stack) /\ Len(stack') = p /\ stack' \in Seq(Entries)
    BY <1>0, <1>1, KeptPath
  <2> QED  BY <2>1
<1>3. ASSUME NEW d \in Defs, d \notin DefsAbove(stack, p) PROVE cached_result'[d] = cached_result[d]
  BY <1>1, <1>3 DEF Forget
<1>4. \A x \in created : x.def \in Defs /\ x # None /\ x # Error
  BY <1>0, ValuesAssumption DEF Instances
<1>5. \A n : Ahead(n)' => Ahead(n)
  BY AheadShrinks
<1>6. MadeInv'
  <2>1. \A x \in created' : Shared(x.def) =>
          /\ x.node \in Range(collectors[x.by])
          /\ \E h \in DOMAIN groups : \E m \in DOMAIN groups[h] :
               groups[h][m] = x.by /\ NotAfter(h, m, group_idx', idx')
    BY <1>0, <1>1, MadeGoes
  <2> QED  BY <1>0, <1>1, <2>1 DEF MadeInv
<1>7. CreatedOnce'
  BY <1>0, <1>1 DEF CreatedOnce
<1>8. NewestInv'
  <2>1. ASSUME NEW x \in created, Shared(x.def), Ahead(x.node)' PROVE cached_result'[x.def] = x
    <3>1. cached_result[x.def] = x
      BY <1>0, <1>5, <2>1 DEF NewestInv
    <3>2. ASSUME NEW k \in (p + 1) .. Len(stack), x.def \in Range(stack[k].fins) PROVE FALSE
      <4>1. k \in DOMAIN stack
        BY <1>0, <1>2
      <4>2. x.node = stack[k].node
        BY <1>0, <1>4, <2>1, <3>1, <3>2, <4>1 DEF FinsInv, Set
      <4> QED  BY <2>1, <3>2, <4>2
    <3>3. x.def \notin DefsAbove(stack, p)
      BY <3>2 DEF DefsAbove
    <3> QED  BY <1>3, <1>4, <3>1, <3>3
  <2> QED  BY <1>1, <2>1 DEF NewestInv
<1>9. GoneInv'
  <2>1. ASSUME NEW x \in created, Shared(x.def), x.def \in Range(deferred') PROVE ~ Ahead(x.node)'
    <3>1. mpc \in SavingPlaces /\ x.def \in SavedFins
      BY <2>1
    <3> QED  BY <1>0, <1>5, <2>1, <3>1 DEF GoneInv
  <2> QED  BY <1>1, <2>1 DEF GoneInv
<1>10. FinsInv'
  <2>1. ASSUME NEW k \in DOMAIN stack', NEW d \in Range(stack'[k].fins), Shared(d)
        PROVE  /\ cached_result'[d] # None
               /\ Set(cached_result'[d]) => cached_result'[d].node = stack'[k].node
               /\ \A n \in DOMAIN stack' : d \in Range(stack'[n].fins) => n = k
    <3>1. k \in DOMAIN stack /\ stack'[k] = stack[k] /\ k <= p /\ d \in Range(stack[k].fins)
          /\ d \in Defs
      BY <1>2, <2>1, StackDefs
    <3>2. /\ cached_result[d] # None
          /\ Set(cached_result[d]) => cached_result[d].node = stack[k].node
          /\ \A n \in DOMAIN stack : d \in Range(stack[n].fins) => n = k
      BY <1>0, <2>1, <3>1 DEF FinsInv
    <3>3. ASSUME NEW n \in (p + 1) .. Len(stack) PROVE d \notin Range(stack[n].fins)
      <4>1. n \in DOMAIN stack /\ n # k
        BY <1>0, <1>2, <3>1
      <4> QED  BY <3>2, <4>1
    <3>4. d \notin DefsAbove(stack, p)
      BY <3>3 DEF DefsAbove
    <3>5. cached_result'[d] = cached_result[d]
      BY <1>3, <3>1, <3>4
    <3>6. \A n \in DOMAIN stack' : d \in Range(stack'[n].fins) => n = k
      BY <1>2, <3>2
    <3> QED  BY <3>1, <3>2, <3>5, <3>6
  <2>2. ASSUME NEW d \in Range(deferred'), Shared(d) PROVE ~ OnStack(d)'
    <3>1. d \in SavedFins /\ mpc \in SavingPlaces
      BY <2>2
    <3>2. ~ OnStack(d)
      BY <1>0, <2>2, <3>1 DEF FinsInv
    <3> QED  BY <1>2, <3>2 DEF OnStack
  <2> QED  BY <2>1, <2>2 DEF FinsInv
<1> QED  BY <1>6, <1>7, <1>8, <1>9, <1>10 DEF OnceInv

(* What _teardown_all hands to run_finalizers is what was saved.           *)
LEMMA SavedRange ==
  ASSUME saved_collector_fins \in Seq(Entries)
  PROVE  AllCollectorFins \in Seq(Defs) /\ Range(AllCollectorFins) = SavedFins
<1> PICK saved : saved = saved_collector_fins
  OBVIOUS
<1> DEFINE ss == [k \in DOMAIN saved |-> Reverse(Reverse(saved)[k].fins)]
<1>1. Len(saved) \in Nat /\ DOMAIN saved = 1 .. Len(saved) /\ saved \in Seq(Entries)
  OBVIOUS
<1>2. ASSUME NEW k \in DOMAIN saved
      PROVE  Len(saved) - k + 1 \in DOMAIN saved /\ Len(saved) - (Len(saved) - k + 1) + 1 = k
  BY <1>1
<1>3. ASSUME NEW k \in DOMAIN saved PROVE Reverse(saved)[k] = saved[Len(saved) - k + 1]
  BY <1>1 DEF Reverse
<1>4. ASSUME NEW s \in Seq(Defs) PROVE Reverse(s) \in Seq(Defs) /\ Range(Reverse(s)) = Range(s)
  <2>1. Len(s) \in Nat /\ DOMAIN s = 1 .. Len(s)
    OBVIOUS
  <2>2. ASSUME NEW k \in 1 .. Len(s)
        PROVE  Len(s) - k + 1 \in 1 .. Len(s) /\ Len(s) - (Len(s) - k + 1) + 1 = k
    BY <2>1
  <2>3. DOMAIN Reverse(s) = 1 .. Len(s) /\ \A k \in 1 .. Len(s) : Reverse(s)[k] = s[Len(s) - k + 1]
    BY DEF Reverse
  <2>4. Reverse(s) \in [1 .. Len(s) -> Defs]
    <3>1. \A k \in 1 .. Len(s) : s[Len(s) - k + 1] \in Defs
      BY <2>1, <2>2
    <3>2. Reverse(s) = [k \in 1 .. Len(s) |-> Reverse(s)[k]]
      BY DEF Reverse
    <3> QED  BY <2>3, <3>1, <3>2
  <2>5. Reverse(s) \in Seq(Defs)
    BY <2>1, <2>4, FunctionIsSeq
  <2>6. Range(s) \subseteq Range(Reverse(s))
    BY <2>1, <2>2, <2>3 DEF Range
  <2>7. Range(Reverse(s)) \subseteq Range(s)
    BY <2>1, <2>2, <2>3 DEF Range
  <2> QED  BY <2>5, <2>6, <2>7
<1>5. \A k \in DOMAIN saved : saved[k].fins \in Seq(Defs)
  <2>1. \A k \in DOMAIN saved : saved[k] \in Entries
    BY <1>1
  <2> QED  BY <2>1 DEF Entries
<1>6. ASSUME NEW k \in DOMAIN saved
      PROVE  ss[k] \in Seq(Defs) /\ Range(ss[k]) = Range(saved[Len(saved) - k + 1].fins)
  <2>1. ss[k] = Reverse(saved[Len(saved) - k + 1].fins)
    BY <1>3
  <2> QED  BY <1>2, <1>4, <1>5, <2>1
<1>7. ss \in Seq(Seq(Defs)) /\ DOMAIN ss = DOMAIN saved
  <2>1. ss \in [1 .. Len(saved) -> Seq(Defs)] /\ DOMAIN ss = DOMAIN saved
    BY <1>1, <1>6
  <2> HIDE DEF ss
  <2> QED  BY <1>1, <2>1, FunctionIsSeq
<1>8. AllCollectorFins = FlattenSeq(ss)
  BY DEF AllCollectorFins
<1> HIDE DEF ss
<1>9. AllCollectorFins \in Seq(Defs)
      /\ Range(AllCollectorFins) = UNION {Range(ss[k]) : k \in DOMAIN ss}
  BY <1>7, <1>8, FlattenRange
<1>10. \A k \in DOMAIN ss : \E n \in DOMAIN saved : Range(ss[k]) = Range(saved[n].fins)
  BY <1>2, <1>6, <1>7
<1>11. \A n \in DOMAIN saved : \E k \in DOMAIN ss : Range(ss[k]) = Range(saved[n].fins)
  <2> SUFFICES ASSUME NEW k \in DOMAIN saved
               PROVE  \E n \in DOMAIN ss : Range(ss[n]) = Range(saved[k].fins)
    OBVIOUS
  <2>1. Range(ss[Len(saved) - k + 1]) = Range(saved[k].fins)
        /\ Len(saved) - k + 1 \in DOMAIN ss
    BY <1>2, <1>6, <1>7
  <2> QED  BY <2>1
<1>12. SavedFins = UNION {Range(saved[k].fins) : k \in DOMAIN saved}
  BY DEF SavedFins
<1>13. ASSUME NEW d
       PROVE  d \in UNION {Range(ss[k]) : k \in DOMAIN ss} <=> d \in SavedFins
  <2>1. (\E k \in DOMAIN ss : d \in Range(ss[k])) <=> (\E n \in DOMAIN saved : d \in Range(saved[n].fins))
    BY <1>10, <1>11
  <2> QED  BY <1>12, <2>1
<1>14. UNION {Range(ss[k]) : k \in DOMAIN ss} = SavedFins
  BY <1>13
<1> QED  BY <1>9, <1>14

(* The entries a transition saves.                                         *)
LEMMA TransitionSaves ==
  ASSUME SessionInv, saved_collector_fins \in Seq(Entries), Transition
  PROVE  /\ saved_collector_fins' \in Seq(Entries)
         /\ \A d \in SavedFins' :
              \/ d \in SavedFins
              \/ \E k \in DOMAIN stack : Stale(k) /\ d \in Range(stack[k].fins)
         /\ SavedFins \subseteq SavedFins'
         /\ \A k \in DOMAIN stack : Stale(k) => Range(stack[k].fins) \subseteq SavedFins'
<1> DEFINE stale == {stack[k] : k \in {n \in DOMAIN stack : Stale(n)}}
<1> PICK more, saved : more = Among(stack, stale) /\ saved = saved_collector_fins
  OBVIOUS
<1>1. saved_collector_fins' = saved \o more
  BY DEF Transition, SaveCollectorFinalizers
<1>2. stack \in Seq(Entries)
  BY DEF SessionInv, StackInv
<1>3. more \in Seq(Entries) /\ Range(more) = {x \in Range(stack) : x \in stale}
  <2> HIDE DEF stale
  <2> QED  BY <1>2, AmongFacts
<1>4. saved \o more \in Seq(Entries) /\ Range(saved \o more) = Range(saved) \cup Range(more)
  BY <1>3, ConcatFacts, RangeOfConcat
<1>5. ASSUME NEW d
      PROVE  /\ d \in SavedFins' <=> \E e \in Range(saved \o more) : d \in Range(e.fins)
             /\ d \in SavedFins <=> \E e \in Range(saved) : d \in Range(e.fins)
  <2>1. SavedFins' = UNION {Range((saved \o more)[k].fins) : k \in DOMAIN (saved \o more)}
    BY <1>1 DEF SavedFins
  <2>2. SavedFins = UNION {Range(saved[k].fins) : k \in DOMAIN saved}
    BY DEF SavedFins
  <2> PICK all : all = saved \o more
    OBVIOUS
  <2>3. ASSUME NEW s PROVE (\E e \in Range(s) : d \in Range(e.fins)) <=> (\E k \in DOMAIN s : d \in Range(s[k].fins))
    <3>1. \A e : e \in Range(s) <=> \E k \in DOMAIN s : e = s[k]
      BY DEF Range
    <3> QED  BY <3>1
  <2>4. d \in SavedFins' <=> \E k \in DOMAIN all : d \in Range(all[k].fins)
    BY <2>1
  <2>5. d \in SavedFins <=> \E k \in DOMAIN saved : d \in Range(saved[k].fins)
    BY <2>2
  <2> QED  BY <2>3, <2>4, <2>5
<1>6. ASSUME NEW e \in Range(more) PROVE \E k \in DOMAIN stack : Stale(k) /\ e = stack[k]
  BY <1>3
<1>7. ASSUME NEW k \in DOMAIN stack, Stale(k) PROVE stack[k] \in Range(more)
  BY <1>3, <1>7 DEF Range
<1> HIDE DEF stale
<1>8. \A d \in SavedFins' :
        \/ d \in SavedFins
        \/ \E k \in DOMAIN stack : Stale(k) /\ d \in Range(stack[k].fins)
  BY <1>4, <1>5, <1>6
<1>9. SavedFins \subseteq SavedFins'
  BY <1>4, <1>5
<1>10. \A k \in DOMAIN stack : Stale(k) => Range(stack[k].fins) \subseteq SavedFins'
  BY <1>4, <1>5, <1>7
<1> QED  BY <1>1, <1>4, <1>8, <1>9, <1>10

LEMMA ClosingStep ==
  ASSUME SessionInv, ClosingInv, [Next]_vars
  PROVE  ClosingInv'
<1>0. AllCollectorFins \in Seq(Defs)
  <2>1. saved_collector_fins \in Seq(Entries)
    BY DEF ClosingInv
  <2> QED  BY <2>1, SavedRange
<1>1. CASE UNCHANGED Rest
  BY <1>1 DEF ClosingInv, Rest, control, prepared
<1>2. CASE \E i \in Items : Worker(i)
  <2>1. UNCHANGED <<control, prepared, deferred>>
    BY <1>2 DEF Worker, Take, CacheHit, CacheMiss, Execute, ExecuteRaises, EnterCall, LeaveCall
  <2> QED  BY <2>1 DEF ClosingInv, control, prepared
<1>3. CASE Sequential \/ EnterGroup \/ RaiseFailed \/ ReturnTrue
  <2>1. /\ mpc \in {"loop"} \cup SeqPlaces /\ mpc' # "deferred"
        /\ UNCHANGED <<saved_collector_fins, deferred>>
    BY <1>3 DEF Sequential, SeqSetup, SeqSetupFails, SeqSkip, SeqCall, SeqTeardown, NextGroup,
                RaiseFailed, ReturnTrue, EnterGroup, prepared, SeqPlaces
  <2> QED  BY <2>1 DEF ClosingInv, SeqPlaces
<1>4. CASE HookPasses \/ HookFails \/ HookSkips \/ PushItems \/ PopItems \/ SessionFinish
  <2>1. /\ mpc # "deferred" /\ mpc' \notin {"loop", "deferred"} \cup SeqPlaces
        /\ UNCHANGED <<saved_collector_fins, deferred>>
    BY <1>4 DEF HookPasses, HookFails, HookSkips, HookEntered, PushItems, PopItems, SessionFinish,
                prepared, SeqPlaces
  <2> QED  BY <2>1 DEF ClosingInv
<1>5. CASE Transition
  <2>1. mpc' = "hook" /\ mpc = "hook" /\ UNCHANGED deferred
    BY <1>5 DEF Transition, control
  <2>2. saved_collector_fins' \in Seq(Entries)
    BY <1>5, TransitionSaves DEF ClosingInv
  <2> QED  BY <2>1, <2>2 DEF ClosingInv, SeqPlaces
<1>6. ASSUME NEW raises \in BOOLEAN, TeardownShared(raises) PROVE ClosingInv'
  <2>1. /\ mpc' \in {"deferred", "error"} /\ UNCHANGED saved_collector_fins
        /\ mpc' = "error" => deferred' = <<>>
        /\ deferred' = <<>> \/ deferred' = AllCollectorFins
    BY <1>6 DEF TeardownShared, prepared
  <2>2. AllCollectorFins \in Seq(Defs)
    BY <1>0
  <2>3. deferred' \in Seq(Defs)
    <3>1. <<>> \in Seq(Defs)
      OBVIOUS
    <3> QED  BY <2>1, <2>2, <3>1
  <2>4. saved_collector_fins' \in Seq(Entries)
    BY <2>1 DEF ClosingInv
  <2>5. mpc' \notin {"loop"} \cup SeqPlaces
    BY <2>1 DEF SeqPlaces
  <2> QED  BY <2>1, <2>3, <2>4, <2>5 DEF ClosingInv
<1>7. CASE RunFinalizer
  <2>1. mpc' = "deferred" /\ deferred' = Front(deferred) /\ UNCHANGED saved_collector_fins
        /\ deferred # <<>>
    BY <1>7 DEF RunFinalizer, control, prepared
  <2>2. Front(deferred) \in Seq(Defs)
    BY <2>1 DEF Front, ClosingInv
  <2> QED  BY <2>1, <2>2 DEF ClosingInv, SeqPlaces
<1>8. CASE CloseGroup
  <2>1. mpc' \in {"loop", "error"} /\ saved_collector_fins' = <<>> /\ deferred' = <<>>
    BY <1>8 DEF CloseGroup, NextGroup
  <2> QED  BY <2>1 DEF ClosingInv
<1> QED  BY <1>1, <1>2, <1>3, <1>4, <1>5, <1>6, <1>7, <1>8, Steps
        DEF Proceed, Prepare, Close

(* What is pushed for an item has no finalizers yet.                       *)
LEMMA PushedFins ==
  ASSUME SessionInv, NEW i \in Items, OnPath(stack, collectors[i])
  PROVE  /\ FinsFrom(Pushed(stack, i))
         /\ FinsFrom(Append(Pushed(stack, i), [node |-> i, fins |-> <<>>]))
<1>0. stack \in Seq(Entries) /\ Range(<<>>) = {}
  BY DEF SessionInv, StackInv, Range
<1> DEFINE more == [k \in 1 .. (Len(collectors[i]) - Len(stack)) |->
                      [node |-> collectors[i][Len(stack) + k], fins |-> <<>>]]
           own == [node |-> i, fins |-> <<>>]
<1>1. Len(stack) \in Nat /\ DOMAIN stack = 1 .. Len(stack) /\ Len(collectors[i]) \in Nat
  BY <1>0, ChainFacts
<1>2. Pushed(stack, i) = stack \o more /\ Pushed(stack, i) \in Seq(Entries)
  BY <1>0, PushedFacts DEF Pushed
<1>3. Len(more) \in Nat /\ DOMAIN more = 1 .. Len(more)
      /\ \A k \in DOMAIN more : more[k].fins = <<>>
  <2>1. Len(stack) = 0 \/ Len(stack) \in DOMAIN stack
    BY <1>1
  <2>2. Len(collectors[i]) - Len(stack) \in Nat
    BY <1>1, <2>1 DEF OnPath
  <2> QED  BY <1>1, <2>2
<1>4. ASSUME NEW k \in DOMAIN Pushed(stack, i)
      PROVE  \/ Range(Pushed(stack, i)[k].fins) = {}
             \/ \E n \in DOMAIN stack : Pushed(stack, i)[k] = stack[n]
  <2>1. CASE k \in DOMAIN stack
    BY <1>0, <1>1, <1>2, <1>3, <2>1
  <2>2. CASE k \notin DOMAIN stack
    <3>1. k - Len(stack) \in DOMAIN more /\ Pushed(stack, i)[k] = more[k - Len(stack)]
      <4> HIDE DEF more
      <4> QED  BY <1>0, <1>1, <1>2, <1>3, <2>2
    <3> QED  BY <1>0, <1>3, <3>1
  <2> QED  BY <2>1, <2>2
<1>5. FinsFrom(Pushed(stack, i))
  BY <1>4 DEF FinsFrom
<1>6. ASSUME NEW k \in DOMAIN Append(Pushed(stack, i), own)
      PROVE  \/ Range(Append(Pushed(stack, i), own)[k].fins) = {}
             \/ \E n \in DOMAIN stack : Append(Pushed(stack, i), own)[k] = stack[n]
  <2> PICK st : st = Pushed(stack, i)
    OBVIOUS
  <2>1. st \in Seq(Entries) /\ k \in DOMAIN Append(st, own)
    BY <1>2
  <2>2. CASE k \in DOMAIN st
    <3>1. Append(st, own)[k] = st[k]
      BY <2>1, <2>2
    <3> QED  BY <1>4, <2>2, <3>1
  <2>3. CASE k \notin DOMAIN st
    <3>1. Append(st, own)[k] = own
      BY <2>1, <2>3
    <3> QED  BY <1>0, <3>1
  <2> QED  BY <2>2, <2>3
<1> QED  BY <1>5, <1>6 DEF FinsFrom

(* The steps of main that set up and tear down nothing that is shared.     *)
LEMMA MainQuiet ==
  ASSUME SessionInv, ValuesInv, OnceInv, PathInv, Goes, SessionInv', ClosingInv',
         \/ EnterGroup \/ RaiseFailed \/ ReturnTrue \/ SeqSkip \/ HookSkips \/ PushItems
         \/ PopItems \/ CloseGroup \/ (\E outcome \in {"passed", "failed"} : SeqCall(outcome))
  PROVE  OnceInv'
<1>0. stack \in Seq(Entries) /\ Range(<<>>) = {}
  BY DEF SessionInv, StackInv, Range
<1>1. ASSUME UNCHANGED <<cached_result, created>> PROVE SharedKept
  BY <1>1 DEF SharedKept
<1>2. ASSUME UNCHANGED stack PROVE FinsFrom(stack')
  BY <1>2 DEF FinsFrom
<1>3. CASE EnterGroup \/ RaiseFailed \/ ReturnTrue
  <2>1. /\ mpc = "loop" /\ UNCHANGED <<stack, cached_result, created, saved_collector_fins, deferred>>
    BY <1>3 DEF EnterGroup, RaiseFailed, ReturnTrue, caches, prepared
  <2>2. SavedFins' = {}
    BY <2>1 DEF SavedFins, OnceInv, ClosingInv
  <2> QED  BY <1>1, <1>2, <2>1, <2>2, QuietOnce
<1>4. CASE SeqSkip \/ HookSkips \/ \E outcome \in {"passed", "failed"} : SeqCall(outcome)
  <2>1. /\ mpc \in {"seq", "seqcall", "hook"} /\ mpc' \in {"seqteardown", "hook"}
        /\ mpc' = "hook" => mpc = "hook"
        /\ UNCHANGED <<stack, cached_result, created, saved_collector_fins, deferred>>
    BY <1>4 DEF SeqSkip, HookSkips, HookEntered, SeqCall, caches, prepared
  <2>2. SavedFins' = SavedFins
    BY <2>1 DEF SavedFins
  <2>3. mpc # "finished" /\ mpc' \in SavingPlaces => mpc \in SavingPlaces
    BY <2>1 DEF SavingPlaces
  <2>4. mpc # "finished"
    BY <2>1
  <2>5. Range(deferred') \subseteq Range(deferred)
    BY <2>1
  <2>6. SharedKept /\ FinsFrom(stack')
    BY <1>1, <1>2, <2>1
  <2> QED  BY <2>2, <2>3, <2>4, <2>5, <2>6, QuietOnce
<1>5. CASE PushItems
  <2> PICK extra : extra = [k \in DOMAIN parallel_items |-> [node |-> parallel_items[k], fins |-> <<>>]]
    OBVIOUS
  <2>1. /\ mpc = "hook" /\ mpc' = "workers" /\ stack' = stack \o extra
        /\ UNCHANGED <<cached_result, created, saved_collector_fins, deferred>>
    BY <1>5 DEF PushItems, prepared
  <2>2. parallel_items \in Seq(Items)
    BY DEF SessionInv, ItemsInv, ControlInv
  <2>3. extra \in Seq(Entries) /\ \A k \in DOMAIN extra : extra[k].fins = <<>>
    <3>1. Len(parallel_items) \in Nat /\ DOMAIN parallel_items = 1 .. Len(parallel_items)
      BY <2>2
    <3>2. \A k \in DOMAIN parallel_items : [node |-> parallel_items[k], fins |-> <<>>] \in Entries
      BY <2>2 DEF Entries
    <3>3. extra \in [1 .. Len(parallel_items) -> Entries]
      BY <3>1, <3>2
    <3> QED  BY <3>1, <3>3, FunctionIsSeq
  <2>4. ASSUME NEW k \in DOMAIN stack'
        PROVE  Range(stack'[k].fins) = {} \/ \E n \in DOMAIN stack : stack'[k] = stack[n]
    <3>1. /\ k \in 1 .. (Len(stack) + Len(extra))
          /\ stack'[k] = IF k <= Len(stack) THEN stack[k] ELSE extra[k - Len(stack)]
      BY <1>0, <2>1, <2>3, ConcatFacts
    <3>2. Len(stack) \in Nat /\ Len(extra) \in Nat /\ DOMAIN stack = 1 .. Len(stack)
          /\ DOMAIN extra = 1 .. Len(extra)
      BY <1>0, <2>3
    <3>3. CASE k <= Len(stack)
      BY <3>1, <3>2, <3>3
    <3>4. CASE ~ (k <= Len(stack))
      <4>1. k - Len(stack) \in DOMAIN extra
        BY <3>1, <3>2, <3>4
      <4> QED  BY <1>0, <2>3, <3>1, <3>4, <4>1
    <3> QED  BY <3>3, <3>4
  <2>5. FinsFrom(stack') /\ SharedKept /\ SavedFins' = SavedFins
    BY <1>1, <2>1, <2>4 DEF FinsFrom, SavedFins
  <2>6. mpc # "finished" /\ mpc \in SavingPlaces /\ Range(deferred') \subseteq Range(deferred)
    BY <2>1 DEF SavingPlaces
  <2> QED  BY <2>5, <2>6, QuietOnce
<1>6. CASE PopItems
  <2>1. /\ mpc = "workers" /\ mpc' = "teardown_all"
        /\ UNCHANGED <<cached_result, created, saved_collector_fins, deferred>>
    BY <1>6 DEF PopItems, prepared
  <2>2. PICK p \in 0 .. Len(stack) : stack' = SubSeq(stack, 1, p)
    BY <1>6, PopPath
  <2>3. \A k \in DOMAIN stack' : k \in DOMAIN stack /\ stack'[k] = stack[k]
    BY <1>0, <2>2
  <2>4. FinsFrom(stack') /\ SharedKept /\ SavedFins' = SavedFins
    BY <1>1, <2>1, <2>3 DEF FinsFrom, SavedFins
  <2>5. mpc # "finished" /\ mpc \in SavingPlaces /\ Range(deferred') \subseteq Range(deferred)
    BY <2>1 DEF SavingPlaces
  <2> QED  BY <2>4, <2>5, QuietOnce
<1>7. CASE CloseGroup
  <2>1. /\ mpc = "deferred" /\ mpc' \in {"loop", "error"}
        /\ UNCHANGED <<stack, cached_result, created, deferred>>
    BY <1>7 DEF CloseGroup, NextGroup, caches
  <2>2. mpc # "finished" /\ mpc' \notin SavingPlaces /\ Range(deferred') \subseteq Range(deferred)
    BY <2>1 DEF SavingPlaces
  <2> QED  BY <1>1, <1>2, <2>1, <2>2, QuietOnce
<1> QED  BY <1>3, <1>4, <1>5, <1>6, <1>7

(* A step of a worker.                                                     *)
LEMMA WorkerOnce ==
  ASSUME SessionInv, ValuesInv, PopulatedInv, UniformModules, OnceInv, Goes, SessionInv',
         ClosingInv', NEW i \in Items, Worker(i)
  PROVE  OnceInv'
<1>1. mpc = "workers" /\ UNCHANGED <<control, stack, prepared, deferred>> /\ SharedKept
  BY WorkerShared
<1>2. UNCHANGED <<mpc, stack, saved_collector_fins, deferred>>
  BY <1>1 DEF control, prepared
<1>3. FinsFrom(stack') /\ SavedFins' = SavedFins
  BY <1>2 DEF FinsFrom, SavedFins
<1>4. mpc # "finished" /\ mpc \in SavingPlaces /\ Range(deferred') \subseteq Range(deferred)
  BY <1>1, <1>2 DEF SavingPlaces
<1> QED  BY <1>1, <1>3, <1>4, QuietOnce

(* The steps of main that set up fixtures.                                 *)
LEMMA SetupsOnce ==
  ASSUME SessionInv, ValuesInv, OnceInv, Goes, SessionInv', ClosingInv',
         SeqSetup \/ SeqSetupFails \/ HookPasses \/ HookFails
  PROVE  OnceInv'
<1>0. /\ stack \in Seq(Entries) /\ CacheInv /\ ItemsInv /\ StackInv
  BY DEF SessionInv, StackInv, ValuesInv
<1>1. CASE SeqSetup \/ SeqSetupFails
  <2> PICK st : st = Append(Pushed(stack, item), [node |-> item, fins |-> <<>>])
    OBVIOUS
  <2>1. /\ mpc = "seq" /\ mpc' \in {"seqcall", "seqteardown"}
        /\ Resolve(st, item, fixturenames[item]) \/ ResolveFails(st, item, fixturenames[item])
        /\ UNCHANGED <<saved_collector_fins, deferred>>
    BY <1>1 DEF SeqSetup, SeqSetupFails, prepared
  <2>2. /\ item \in Items /\ group_idx \in DOMAIN groups /\ idx \in DOMAIN groups[group_idx]
        /\ OnPath(stack, collectors[item])
    <3>1. mpc \in SeqPlaces
      BY <2>1 DEF SeqPlaces
    <3> QED  BY <1>0, <2>1, <3>1, ItemTyped DEF ItemsInv, StackInv
  <2>3. st \in Seq(Entries) /\ OnPath(st, listchain(item))
    BY <1>0, <2>2, WithItem
  <2>4. Distinct(st)
    <3>1. DOMAIN st \subseteq Nat \ {0}
      BY <2>3
    <3> QED  BY <2>2, <2>3, <3>1, PathDistinct
  <2>5. FinsFrom(st)
    BY <2>2, PushedFins
  <2>6. fixturenames[item] \in Seq(Fixtures)
    BY <2>2, NamesTyped
  <2>7. SameNodes(st, stack') /\ SetUp(st, item, fixturenames[item])
    BY <1>0, <2>1, <2>2, <2>3, <2>6, ResolvedNodes, SetUpFacts
  <2>8. mpc \notin {"finished", "deferred"} /\ mpc' \notin SavingPlaces
    BY <2>1 DEF SavingPlaces
  <2> QED  BY <2>1, <2>2, <2>3, <2>4, <2>5, <2>6, <2>7, <2>8, SetupOnce
<1>2. CASE HookPasses \/ HookFails
  <2> PICK st : st = Pushed(stack, item)
    OBVIOUS
  <2>1. /\ HookEntered
        /\ Resolve(st, item, ToPopulate(item)) \/ ResolveFails(st, item, ToPopulate(item))
        /\ UNCHANGED saved_collector_fins
    BY <1>2 DEF HookPasses, HookFails, prepared
  <2>2. mpc = "hook" /\ mpc' = "hook" /\ UNCHANGED deferred
    BY <2>1 DEF HookEntered
  <2>3. /\ item \in Items /\ group_idx \in DOMAIN groups /\ idx \in DOMAIN groups[group_idx]
        /\ OnPath(stack, collectors[item])
    BY <1>0, <2>1, HookPath
  <2>4. /\ st \in Seq(Entries) /\ OnPath(st, collectors[item])
    <3>1. /\ st \in Seq(Entries) /\ Len(st) = Len(collectors[item])
          /\ \A k \in DOMAIN collectors[item] : st[k].node = collectors[item][k]
      BY <1>0, <2>3, PushedFacts
    <3>2. DOMAIN st = 1 .. Len(collectors[item]) /\ DOMAIN collectors[item] = 1 .. Len(collectors[item])
          /\ Len(collectors[item]) \in Nat
      BY <2>3, <3>1, ChainFacts
    <3> QED  BY <3>1, <3>2 DEF OnPath
  <2>5. Distinct(st)
    <3>1. DOMAIN st \subseteq Nat \ {0}
      BY <2>4
    <3> QED  BY <2>3, <2>4, <3>1, PathDistinct
  <2>6. FinsFrom(st)
    BY <2>3, PushedFins
  <2>7. ToPopulate(item) \in Seq(Fixtures) /\ Range(ToPopulate(item)) \subseteq Range(fixturenames[item])
    BY <2>3, NamesTyped
  <2>8. SameNodes(st, stack') /\ SetUp(st, item, ToPopulate(item))
    BY <1>0, <2>1, <2>3, <2>4, <2>7, ResolvedNodes, SetUpFacts
  <2>9. mpc \notin {"finished", "deferred"} /\ mpc \in SavingPlaces
    BY <2>2 DEF SavingPlaces
  <2> QED  BY <2>1, <2>2, <2>3, <2>4, <2>5, <2>6, <2>7, <2>8, <2>9, SetupOnce
<1> QED  BY <1>1, <1>2

(* What a transition saves no later test can ask for: the session has left *)
(* its node.                                                               *)
LEMMA TransitionOnce ==
  ASSUME SessionInv, ValuesInv, OnceInv, KeptTogether, SessionInv', ClosingInv', Transition
  PROVE  OnceInv'
<1>0. /\ FinsInv /\ NewestInv /\ GoneInv /\ MadeInv /\ CreatedOnce /\ ClosingInv
      /\ ItemsInv /\ StackInv /\ CacheInv /\ created \subseteq Instances
      /\ stack \in Seq(Entries) /\ Range(<<>>) = {}
  <2>1. mpc # "finished"
    BY DEF Transition
  <2>2. Range(<<>>) = {}
    BY DEF Range
  <2> QED  BY <2>1, <2>2 DEF OnceInv, SessionInv, ValuesInv, CacheInv, StackInv
<1>1. /\ mpc = "hook" /\ UNCHANGED <<mpc, group_idx, idx, deferred, cached_result, created>>
      /\ idx <= Len(groups[group_idx])
  <2>1. mpc = "hook" /\ UNCHANGED <<mpc, group_idx, idx, deferred>> /\ idx <= Len(groups[group_idx])
    BY DEF Transition, control
  <2>2. UNCHANGED <<cached_result, created>>
    BY <1>0, TransitionKeeps
  <2> QED  BY <2>1, <2>2
<1>2. group_idx \in DOMAIN groups /\ idx \in DOMAIN groups[group_idx] /\ item \in Items
  BY <1>0, <1>1, ItemTyped DEF ItemsInv
<1>3. /\ \A d \in SavedFins' :
           \/ d \in SavedFins
           \/ \E k \in DOMAIN stack : Stale(k) /\ d \in Range(stack[k].fins)
  <2>1. saved_collector_fins \in Seq(Entries)
    BY <1>0 DEF ClosingInv
  <2> QED  BY <2>1, TransitionSaves
<1>4. ASSUME NEW n \in DOMAIN stack', Range(stack'[n].fins) # {}
      PROVE  n \in DOMAIN stack /\ stack'[n] = stack[n] /\ ~ Stale(n)
  <2>1. Cleared \in Seq(Entries) /\ DOMAIN Cleared = DOMAIN stack
        /\ stack' = SubSeq(Cleared, 1, Kept(Cleared, item))
    BY <1>0, TransitionFacts DEF SameNodes
  <2>2. n \in DOMAIN Cleared /\ stack'[n] = Cleared[n]
    BY <1>2, <2>1, KeptPath
  <2>3. Cleared[n] = IF Stale(n) THEN [stack[n] EXCEPT !.fins = <<>>] ELSE stack[n]
    BY <2>1, <2>2 DEF Cleared
  <2>4. CASE Stale(n)
    <3>1. stack[n] \in Entries
      BY <1>0, <2>1, <2>2
    <3>2. stack'[n].fins = <<>>
      BY <2>2, <2>3, <2>4, <3>1 DEF Entries
    <3> QED  BY <1>0, <1>4, <3>2
  <2> QED  BY <2>1, <2>2, <2>3, <2>4
<1>5. \A n : Ahead(n)' <=> Ahead(n)
  BY <1>1 DEF Ahead
<1>6. \A d : OnStack(d)' => OnStack(d)
  <2> SUFFICES ASSUME NEW d, NEW n \in DOMAIN stack', d \in Range(stack'[n].fins)
               PROVE  OnStack(d)
    BY DEF OnStack
  <2>1. n \in DOMAIN stack /\ stack'[n] = stack[n]
    BY <1>4
  <2> QED  BY <2>1 DEF OnStack
<1>7. MadeInv' /\ CreatedOnce' /\ NewestInv'
  <2>1. MadeInv'
    BY <1>0, <1>1 DEF MadeInv
  <2>2. CreatedOnce'
    BY <1>0, <1>1 DEF CreatedOnce
  <2>3. NewestInv'
    BY <1>0, <1>1, <1>5 DEF NewestInv
  <2> QED  BY <2>1, <2>2, <2>3
<1>8. ASSUME NEW k \in DOMAIN stack, Stale(k), NEW d \in Range(stack[k].fins), Shared(d)
      PROVE  cached_result[d] # None /\ ~ OnStack(d)'
  <2>1. cached_result[d] # None /\ \A n \in DOMAIN stack : d \in Range(stack[n].fins) => n = k
    BY <1>0, <1>8 DEF FinsInv
  <2>2. ASSUME NEW n \in DOMAIN stack', d \in Range(stack'[n].fins) PROVE FALSE
    <3>1. n \in DOMAIN stack /\ stack'[n] = stack[n] /\ ~ Stale(n)
      BY <1>4, <2>2
    <3> QED  BY <1>8, <2>1, <2>2, <3>1
  <2> QED  BY <2>1, <2>2 DEF OnStack
<1>9. FinsInv'
  <2>1. ASSUME NEW k \in DOMAIN stack', NEW d \in Range(stack'[k].fins), Shared(d)
        PROVE  /\ cached_result'[d] # None
               /\ Set(cached_result'[d]) => cached_result'[d].node = stack'[k].node
               /\ \A n \in DOMAIN stack' : d \in Range(stack'[n].fins) => n = k
    <3>1. k \in DOMAIN stack /\ stack'[k] = stack[k]
      BY <1>4, <2>1
    <3>2. \A n \in DOMAIN stack' : d \in Range(stack'[n].fins) =>
            n \in DOMAIN stack /\ d \in Range(stack[n].fins)
      BY <1>4
    <3> QED  BY <1>0, <1>1, <2>1, <3>1, <3>2 DEF FinsInv
  <2>2. ASSUME NEW d \in SavedFins', Shared(d)
        PROVE  cached_result'[d] # None /\ ~ OnStack(d)'
    <3>1. CASE d \in SavedFins
      <4>1. mpc \in SavingPlaces
        BY <1>1 DEF SavingPlaces
      <4> QED  BY <1>0, <1>1, <1>6, <2>2, <3>1, <4>1 DEF FinsInv
    <3>2. CASE d \notin SavedFins
      BY <1>1, <1>3, <1>8, <2>2, <3>2
    <3> QED  BY <3>1, <3>2
  <2>3. \A d \in Range(deferred') : Shared(d) => ~ OnStack(d)'
    BY <1>0, <1>1, <1>6 DEF FinsInv
  <2> QED  BY <2>1, <2>2, <2>3 DEF FinsInv
<1>10. ASSUME NEW x \in created, Shared(x.def), x.def \in SavedFins' PROVE ~ Ahead(x.node)
  <2>1. CASE x.def \in SavedFins
    <3>1. mpc \in SavingPlaces
      BY <1>1 DEF SavingPlaces
    <3> QED  BY <1>0, <1>10, <2>1, <3>1 DEF GoneInv
  <2>2. CASE x.def \notin SavedFins
    <3> SUFFICES ASSUME Ahead(x.node) PROVE FALSE
      OBVIOUS
    <3>1. PICK k \in DOMAIN stack : Stale(k) /\ x.def \in Range(stack[k].fins)
      BY <1>3, <1>10, <2>2
    <3>2. cached_result[x.def] = x /\ Set(x)
      BY <1>0, <1>10, ValuesAssumption DEF NewestInv, Set
    <3>3. x.node = stack[k].node
      BY <1>0, <1>10, <3>1, <3>2 DEF FinsInv
    <3>4. x.node \notin Range(collectors[item])
      <4>1. stack[k].node \notin Range(listchain(item))
        BY <3>1 DEF Stale
      <4> QED  BY <1>2, <3>3, <4>1, ChainFacts
    <3>5. group_idx \in Nat /\ idx \in Nat /\ NotAfter(group_idx, idx, group_idx, idx)
      BY Position DEF NotAfter
    <3>6. \A c \in DOMAIN groups : \A q \in DOMAIN groups[c] : NotAfter(group_idx, idx, c, q) =>
            x.node \notin Range(collectors[groups[c][q]])
      BY <1>0, <1>2, <1>10, <3>4, <3>5, LeftBehind DEF item
    <3> QED  BY <3>6 DEF Ahead
  <2> QED  BY <2>1, <2>2
<1>11. GoneInv'
  BY <1>0, <1>1, <1>5, <1>10 DEF GoneInv
<1> QED  BY <1>7, <1>9, <1>11 DEF OnceInv

(* A deferred finalizer runs: its value was not asked for any more.        *)
LEMMA FinalizerOnce ==
  ASSUME SessionInv, ValuesInv, OnceInv, SessionInv', ClosingInv', RunFinalizer
  PROVE  OnceInv'
<1> PICK last : last = Last(deferred)
  OBVIOUS
<1>1. /\ mpc = "deferred" /\ deferred # <<>> /\ deferred' = Front(deferred)
      /\ cached_result' = Forget(cached_result, {last})
      /\ UNCHANGED <<mpc, group_idx, idx, stack, created, saved_collector_fins>>
  BY DEF RunFinalizer, control, prepared
<1>0. /\ FinsInv /\ NewestInv /\ GoneInv /\ MadeInv /\ CreatedOnce /\ ClosingInv
      /\ created \subseteq Instances /\ deferred \in Seq(Defs)
  BY <1>1 DEF OnceInv, ClosingInv, ValuesInv, CacheInv
<1>2. last \in Range(deferred) /\ Range(deferred') \subseteq Range(deferred)
  <2>1. Len(deferred) \in DOMAIN deferred
    BY <1>0, <1>1
  <2>2. last = deferred[Len(deferred)]
    BY DEF Last
  <2>3. \A k \in DOMAIN deferred' : k \in DOMAIN deferred /\ deferred'[k] = deferred[k]
    BY <1>0, <1>1 DEF Front
  <2> QED  BY <2>1, <2>2, <2>3 DEF Range
<1>3. /\ \A n : Ahead(n)' <=> Ahead(n)
      /\ \A d : OnStack(d)' <=> OnStack(d)
      /\ mpc' \notin SavingPlaces
  BY <1>1 DEF Ahead, OnStack, SavingPlaces
<1>4. \A d \in Defs : d # last => cached_result'[d] = cached_result[d]
  BY <1>1 DEF Forget
<1>5. \A x \in created : x.def \in Defs
  BY <1>0 DEF Instances
<1>6. MadeInv' /\ CreatedOnce'
  BY <1>0, <1>1 DEF MadeInv, CreatedOnce
<1>7. NewestInv'
  <2> SUFFICES ASSUME NEW x \in created, Shared(x.def), Ahead(x.node)
               PROVE  cached_result'[x.def] = x
    BY <1>1, <1>3 DEF NewestInv
  <2>1. cached_result[x.def] = x
    BY <1>0 DEF NewestInv
  <2>2. x.def # last
    BY <1>0, <1>2 DEF GoneInv
  <2> QED  BY <1>4, <1>5, <2>1, <2>2
<1>8. GoneInv'
  BY <1>0, <1>1, <1>2, <1>3 DEF GoneInv
<1>9. FinsInv'
  <2>1. ASSUME NEW k \in DOMAIN stack, NEW d \in Range(stack[k].fins), Shared(d)
        PROVE  cached_result'[d] = cached_result[d]
    <3>1. d # last
      BY <1>0, <1>2, <2>1 DEF FinsInv, OnStack
    <3>2. d \in Defs
      BY StackDefs
    <3> QED  BY <1>4, <3>1, <3>2
  <2>2. \A k \in DOMAIN stack : \A d \in Range(stack[k].fins) : Shared(d) =>
          /\ cached_result'[d] # None
          /\ Set(cached_result'[d]) => cached_result'[d].node = stack[k].node
          /\ \A n \in DOMAIN stack : d \in Range(stack[n].fins) => n = k
    BY <1>0, <2>1 DEF FinsInv
  <2>3. ASSUME NEW d \in Range(deferred'), Shared(d) PROVE ~ OnStack(d)'
    <3>1. ~ OnStack(d)
      BY <1>0, <1>2, <2>3 DEF FinsInv
    <3> QED  BY <1>3, <3>1
  <2>4. \A k \in DOMAIN stack' : \A d \in Range(stack'[k].fins) : Shared(d) =>
          /\ cached_result'[d] # None
          /\ Set(cached_result'[d]) => cached_result'[d].node = stack'[k].node
          /\ \A n \in DOMAIN stack' : d \in Range(stack'[n].fins) => n = k
    <3>1. stack' = stack
      BY <1>1
    <3> QED  BY <2>2, <3>1
  <2> QED  BY <1>3, <2>3, <2>4 DEF FinsInv
<1> QED  BY <1>6, <1>7, <1>8, <1>9 DEF OnceInv

(* What the next test does not need, no later test needs.                  *)
LEMMA NeededNext ==
  ASSUME SessionInv, KeptTogether, MadeInv, NEW x \in created, Shared(x.def),
         NEW b \in DOMAIN groups, NEW p \in DOMAIN groups[b], NotAfter(group_idx, idx, b, p),
         x.node \notin Range(Needed(groups[b][p])),
         NEW c \in DOMAIN groups, NEW q \in DOMAIN groups[c], NotAfter(b, p, c, q)
  PROVE  x.node \notin Range(collectors[groups[c][q]])
<1>1. groups[b][p] \in Items /\ groups[b][p] # None
  BY GroupFacts, OptionsAssumption
<1>2. x.node \notin Range(collectors[groups[b][p]])
  BY <1>1, ChainFacts DEF Needed
<1> QED  BY <1>2, LeftBehind

LEMMA SeqTeardownOnce ==
  ASSUME SessionInv, ValuesInv, OnceInv, KeptTogether, Goes, SessionInv', ClosingInv', SeqTeardown
  PROVE  OnceInv'
<1> PICK next : next = nextitem
  OBVIOUS
<1>1. /\ mpc = "seqteardown" /\ TeardownExact(stack, next)
      /\ mpc' \in {"seq", "loop"} /\ UNCHANGED <<saved_collector_fins, deferred>>
  BY DEF SeqTeardown, NextGroup, prepared
<1>2. mpc \in SeqPlaces /\ mpc' \notin SavingPlaces /\ mpc # "finished" /\ mpc # "deferred"
  BY <1>1 DEF SeqPlaces, SavingPlaces
<1>0. /\ MadeInv /\ ItemsInv /\ stack \in Seq(Entries) /\ Range(deferred') = {}
      /\ OnPath(stack, listchain(item))
  <2>1. deferred = <<>> /\ Range(<<>>) = {}
    BY <1>2 DEF OnceInv, ClosingInv, Range
  <2> QED  BY <1>1, <2>1 DEF OnceInv, SessionInv, StackInv
<1>3. /\ next \in Items \cup {None} /\ next # item /\ item \in Items
      /\ group_idx \in DOMAIN groups /\ idx \in DOMAIN groups[group_idx]
  BY <1>0, <1>2, NextItemFacts, ItemTyped DEF ItemsInv
<1>4. \A k \in (Kept(stack, next) + 1) .. Len(stack) : stack[k].node \notin Range(Needed(next))
  BY <1>0, <1>3, AbovePath
<1>5. ASSUME NEW x \in created, Shared(x.def), x.node \notin Range(Needed(next))
      PROVE  ~ Ahead(x.node)'
  <2>0. group_idx \in Nat /\ idx \in Nat /\ Len(groups) \in Nat /\ DOMAIN groups = 1 .. Len(groups)
        /\ DOMAIN groups[group_idx] = 1 .. Len(groups[group_idx])
        /\ Len(groups[group_idx]) \in Nat
    BY <1>3, Position, GroupFacts
  <2>1. CASE idx < Len(groups[group_idx])
    <3>1. group_idx' = group_idx /\ idx' = idx + 1 /\ next = groups[group_idx][idx + 1]
      BY <1>0, <1>2, <2>1, NextItemFacts DEF SeqTeardown
    <3>2. idx + 1 \in DOMAIN groups[group_idx] /\ NotAfter(group_idx, idx, group_idx, idx + 1)
      BY <2>0, <2>1 DEF NotAfter
    <3>3. \A c \in DOMAIN groups : \A q \in DOMAIN groups[c] :
            NotAfter(group_idx, idx + 1, c, q) => x.node \notin Range(collectors[groups[c][q]])
      BY <1>0, <1>3, <1>5, <3>1, <3>2, NeededNext
    <3> QED  BY <3>1, <3>3 DEF Ahead
  <2>2. CASE ~ (idx < Len(groups[group_idx]))
    <3>1. group_idx' = group_idx + 1 /\ idx' = 1
      BY <2>2 DEF SeqTeardown, NextGroup
    <3>2. CASE group_idx + 1 \in DOMAIN groups
      <4>1. next = groups[group_idx + 1][1]
        BY <1>0, <1>2, <2>2, <3>2, NextItemFacts
      <4>2. 1 \in DOMAIN groups[group_idx + 1] /\ NotAfter(group_idx, idx, group_idx + 1, 1)
        BY <2>0, <3>2, GroupFacts DEF NotAfter
      <4>3. \A c \in DOMAIN groups : \A q \in DOMAIN groups[c] :
              NotAfter(group_idx + 1, 1, c, q) => x.node \notin Range(collectors[groups[c][q]])
        BY <1>0, <1>5, <3>2, <4>1, <4>2, NeededNext
      <4> QED  BY <3>1, <4>3 DEF Ahead
    <3>3. CASE group_idx + 1 \notin DOMAIN groups
      <4>1. \A h \in DOMAIN groups : \A m \in DOMAIN groups[h] : ~ NotAfter(group_idx + 1, 1, h, m)
        BY <2>0, <3>3 DEF NotAfter
      <4> QED  BY <3>1, <4>1 DEF Ahead
    <3> QED  BY <3>2, <3>3
  <2> QED  BY <2>1, <2>2
<1> QED  BY <1>0, <1>1, <1>2, <1>3, <1>4, <1>5, TeardownOnce

LEMMA TeardownSharedOnce ==
  ASSUME SessionInv, ValuesInv, PathInv, OnceInv, KeptTogether, Goes, SessionInv', ClosingInv',
         NEW raises \in BOOLEAN, TeardownShared(raises)
  PROVE  OnceInv'
<1> PICK next, last : next = next_group_first /\ last = Last(groups[group_idx])
  OBVIOUS
<1>1. /\ mpc = "teardown_all" /\ TeardownExact(stack, next)
      /\ mpc' \in {"deferred", "error"} /\ UNCHANGED <<group_idx, idx>>
      /\ deferred' = <<>> \/ deferred' = AllCollectorFins
  BY DEF TeardownShared
<1>2. mpc \in GroupPlaces /\ mpc \in SavingPlaces /\ mpc' \notin SavingPlaces /\ mpc # "finished"
  BY <1>1 DEF GroupPlaces, SavingPlaces
<1>3. /\ MadeInv /\ ItemsInv /\ stack \in Seq(Entries) /\ group_idx \in DOMAIN groups
      /\ OnPath(stack, collectors[last]) /\ idx > Len(groups[group_idx])
      /\ saved_collector_fins \in Seq(Entries)
  BY <1>1, <1>2 DEF OnceInv, ClosingInv, SessionInv, StackInv, ItemsInv, ControlInv, PathInv
<1>4. Range(deferred') = {} \/ Range(deferred') \subseteq SavedFins
  <2>1. Range(<<>>) = {}
    BY DEF Range
  <2> QED  BY <1>1, <1>3, <2>1, SavedRange
<1>5. /\ group_idx \in Nat /\ idx \in Nat /\ Len(groups) \in Nat /\ DOMAIN groups = 1 .. Len(groups)
      /\ DOMAIN groups[group_idx] = 1 .. Len(groups[group_idx])
      /\ Len(groups[group_idx]) \in Nat
      /\ last \in Items /\ last = groups[group_idx][Len(groups[group_idx])]
      /\ Len(groups[group_idx]) \in DOMAIN groups[group_idx]
  BY <1>3, Position, GroupFacts, LastFacts
<1>6. /\ group_idx + 1 \in DOMAIN groups => next = groups[group_idx + 1][1]
                                           /\ 1 \in DOMAIN groups[group_idx + 1]
                                           /\ groups[group_idx + 1][1] \in Items
      /\ group_idx + 1 \notin DOMAIN groups => next = None
  BY <1>5, GroupFacts DEF next_group_first
<1>7. next \in Items \cup {None} /\ last # next
  <2>1. CASE group_idx + 1 \in DOMAIN groups
    <3>1. group_idx + 1 # group_idx
      BY <1>5
    <3>2. last # groups[group_idx + 1][1]
      BY <1>3, <1>5, <1>6, <2>1, <3>1, ItemsDiffer
    <3> QED  BY <1>6, <2>1, <3>2
  <2>2. CASE group_idx + 1 \notin DOMAIN groups
    BY <1>5, <1>6, <2>2, OptionsAssumption
  <2> QED  BY <2>1, <2>2
<1>8. OnPath(stack, listchain(last))
  <2>1. DOMAIN stack \subseteq Nat \ {0}
    BY <1>3
  <2> QED  BY <1>3, <1>5, <2>1, PathDistinct
<1>9. \A k \in (Kept(stack, next) + 1) .. Len(stack) : stack[k].node \notin Range(Needed(next))
  BY <1>3, <1>5, <1>7, <1>8, AbovePath
<1>10. ASSUME NEW x \in created, Shared(x.def), x.node \notin Range(Needed(next))
       PROVE  ~ Ahead(x.node)'
  <2>1. ASSUME NEW h \in DOMAIN groups, NEW m \in DOMAIN groups[h], NotAfter(group_idx, idx, h, m)
        PROVE  h > group_idx /\ h \in Nat /\ m \in Nat /\ 1 <= m
    <3>1. h \in Nat /\ m \in 1 .. Len(groups[h]) /\ Len(groups[h]) \in Nat
      BY GroupFacts
    <3>2. h # group_idx
      BY <1>3, <1>5, <2>1, <3>1 DEF NotAfter
    <3> QED  BY <1>5, <2>1, <3>1, <3>2 DEF NotAfter
  <2>2. CASE group_idx + 1 \in DOMAIN groups
    <3>1. NotAfter(group_idx, idx, group_idx + 1, 1)
      BY <1>5 DEF NotAfter
    <3>2. \A c \in DOMAIN groups : \A q \in DOMAIN groups[c] :
            NotAfter(group_idx + 1, 1, c, q) => x.node \notin Range(collectors[groups[c][q]])
      BY <1>3, <1>6, <1>10, <2>2, <3>1, NeededNext
    <3>3. \A c \in DOMAIN groups : \A q \in DOMAIN groups[c] :
            NotAfter(group_idx, idx, c, q) => NotAfter(group_idx + 1, 1, c, q)
      BY <1>5, <2>1 DEF NotAfter
    <3> QED  BY <1>1, <3>2, <3>3 DEF Ahead
  <2>3. CASE group_idx + 1 \notin DOMAIN groups
    <3>1. \A h \in DOMAIN groups : \A m \in DOMAIN groups[h] : ~ NotAfter(group_idx, idx, h, m)
      BY <1>5, <2>1, <2>3
    <3> QED  BY <1>1, <3>1 DEF Ahead
  <2> QED  BY <2>2, <2>3
<1> QED  BY <1>1, <1>2, <1>4, <1>7, <1>9, <1>10, TeardownOnce

(* Once the session is over nothing is set up any more.                    *)
LEMMA FinishOnce ==
  ASSUME SessionInv, OnceInv, Goes, SessionInv', ClosingInv', mpc' = "finished",
         UNCHANGED created
  PROVE  OnceInv'
<1>1. MadeInv /\ CreatedOnce
  BY DEF OnceInv
<1>2. MadeInv'
  <2>1. \A x \in created' : Shared(x.def) =>
          /\ x.node \in Range(collectors[x.by])
          /\ \E h \in DOMAIN groups : \E m \in DOMAIN groups[h] :
               groups[h][m] = x.by /\ NotAfter(h, m, group_idx', idx')
    BY <1>1, MadeGoes
  <2> QED  BY <1>1, <2>1 DEF MadeInv
<1>3. CreatedOnce'
  BY <1>1 DEF CreatedOnce
<1> QED  BY <1>2, <1>3 DEF OnceInv

LEMMA OnceStep ==
  ASSUME SessionInv, ValuesInv, PopulatedInv, PathInv, OnceInv, UniformModules, KeptTogether,
         [Next]_vars
  PROVE  OnceInv'
<1>0. SessionInv' /\ Goes /\ ClosingInv'
  BY SessionStep, MainGoes, ClosingStep DEF OnceInv
<1>1. CASE UNCHANGED Rest
  <2>1. UNCHANGED <<mpc, stack, created, cached_result, saved_collector_fins, deferred>>
    BY <1>1 DEF Rest, control, caches, prepared
  <2>2. CASE mpc = "finished"
    BY <1>0, <2>1, <2>2, FinishOnce
  <2>3. CASE mpc # "finished"
    <3>1. SharedKept /\ FinsFrom(stack') /\ SavedFins' = SavedFins
      BY <2>1 DEF SharedKept, FinsFrom, SavedFins
    <3> QED  BY <1>0, <2>1, <2>3, <3>1, QuietOnce
  <2> QED  BY <2>2, <2>3
<1>2. CASE \E i \in Items : Worker(i)
  BY <1>0, <1>2, WorkerOnce
<1>3. CASE SessionFinish
  <2>1. mpc' = "finished" /\ UNCHANGED created
    BY <1>3 DEF SessionFinish, TeardownExact
  <2> QED  BY <1>0, <2>1, FinishOnce
<1>4. CASE Sequential
  BY <1>0, <1>4, MainQuiet, SetupsOnce, SeqTeardownOnce DEF Sequential
<1>5. CASE Prepare
  BY <1>0, <1>5, MainQuiet, SetupsOnce, TransitionOnce DEF Prepare
<1>6. CASE Close
  BY <1>0, <1>6, MainQuiet, FinalizerOnce, TeardownSharedOnce DEF Close
<1>7. CASE EnterGroup \/ RaiseFailed \/ ReturnTrue
  BY <1>0, <1>7, MainQuiet
<1> QED  BY <1>1, <1>2, <1>3, <1>4, <1>5, <1>6, <1>7, Steps DEF Proceed

(* The assertion of addfinalizer never fails in a worker, when the tests   *)
(* of a module use the same shared fixtures: phase 2 has set them all up.  *)
THEOREM UniformModulesNeverBreak ==
  ASSUME UniformModules
  PROVE  Spec => []AddFinalizerPasses
<1>1. Init => PopulatedInv
  BY PopulatedInit
<1>2. SessionInv /\ ValuesInv /\ PopulatedInv /\ [Next]_vars => PopulatedInv'
  BY PopulatedStep
<1>3. PopulatedInv => AddFinalizerPasses
  BY DEF PopulatedInv
<1> QED  BY <1>1, <1>2, <1>3, ValuesAlways, PTL DEF Spec

(* A shared fixture is set up once for its session, package, module or     *)
(* class, when the tests of a module use the same ones and the session     *)
(* does not come back to a collector it has left.                          *)
THEOREM SharedSetUpOnce ==
  ASSUME UniformModules, KeptTogether
  PROVE  Spec => []CreatedOnce
<1>1. Init => PopulatedInv /\ PathInv /\ OnceInv
  BY PopulatedInit, PathInit, OnceInit
<1>2. SessionInv /\ ValuesInv /\ PopulatedInv /\ PathInv /\ OnceInv /\ [Next]_vars
        => PopulatedInv' /\ PathInv' /\ OnceInv'
  BY PopulatedStep, PathStep, OnceStep
<1>3. OnceInv => CreatedOnce
  BY DEF OnceInv
<1> QED  BY <1>1, <1>2, <1>3, ValuesAlways, PTL DEF Spec

-----------------------------------------------------------------------------
(* Nothing is left behind.                                                 *)

(* A value of a clone that its item, in its thread, will tear down.        *)
Worked(x) ==
  /\ mpc = "workers"
  /\ \E i \in Items : \E f \in Range(fixturenames[i]) :
       /\ scope[f] = "function" /\ x.def = <<f, i>>
       /\ \/ wpc[i] = "call"
          \/ wpc[i] \in {"setup", "executing"} /\ funcargs[i][f] = x

(* Whatever is alive has somebody who will tear it down: its node on the   *)
(* stack, the finalizers saved or due, or its item in its thread.          *)
Held(x) ==
  \/ OnStack(x.def)
  \/ mpc \in SavingPlaces /\ x.def \in SavedFins
  \/ x.def \in Range(deferred)
  \/ Worked(x)

HeldInv == mpc # "finished" => \A x \in alive : Held(x)

(* A clone never caches an exception: clear_function_fixture_caches drops  *)
(* it with the setup that fails.                                           *)
NoCloneError ==
  \A f \in Fixtures, i \in Items : scope[f] = "function" => cached_result[<<f, i>>] # Error

(* A worker resolves the function fixtures of its item in their order.     *)
InTurn ==
  mpc \in {"hook", "workers"} => \A i \in ParallelSet :
    wpc[i] \in {"queued", "setup", "executing"} =>
      \A g \in Fixtures : scope[g] = "function" /\ funcargs[i][g] # None =>
        \E n \in DOMAIN fixturenames[i] :
          /\ fixturenames[i][n] = g
          /\ \A k \in 1 .. (n - 1) : scope[fixturenames[i][k]] = "function" =>
               funcargs[i][fixturenames[i][k]] # None

ReleaseInv == ClosingInv /\ HeldInv /\ NoCloneError /\ InTurn /\ AllReleased

LEMMA ReleaseInit == Init => ReleaseInv
<1> SUFFICES ASSUME Init PROVE ReleaseInv
  OBVIOUS
<1>1. ClosingInv
  BY OnceInit DEF OnceInv
<1>2. alive = {} /\ mpc = "loop"
  BY DEF Init
<1>3. NoCloneError
  BY DefShape, OptionsAssumption DEF Init, NoCloneError
<1> QED  BY <1>1, <1>2, <1>3 DEF ReleaseInv, HeldInv, InTurn, AllReleased

(* What teardown_exact leaves alive is still on the stack.                 *)
LEMMA TeardownHeld ==
  ASSUME NEW next \in Items \cup {None}, stack \in Seq(Entries), TeardownExact(stack, next),
         NEW x \in alive', OnStack(x.def)
  PROVE  x \in alive /\ OnStack(x.def)'
<1> PICK d, p : d = x.def /\ p = Kept(stack, next)
  OBVIOUS
<1>1. /\ alive' = alive \ FinishedBy(DefsAbove(stack, p)) /\ stack' = SubSeq(stack, 1, p)
      /\ p \in 0 .. Len(stack)
  BY KeptPath DEF TeardownExact
<1>2. x \in alive /\ d \notin DefsAbove(stack, p)
  BY <1>1 DEF FinishedBy
<1>3. PICK k \in DOMAIN stack : d \in Range(stack[k].fins)
  BY DEF OnStack
<1>4. k \in 1 .. Len(stack) /\ Len(stack) \in Nat
  OBVIOUS
<1>5. k <= p
  BY <1>1, <1>2, <1>3, <1>4 DEF DefsAbove
<1>6. k \in DOMAIN stack' /\ stack'[k] = stack[k]
  BY <1>1, <1>4, <1>5
<1>7. d \in Range(stack'[k].fins)
  BY <1>3, <1>6
<1>8. \E n \in DOMAIN stack' : d \in Range(stack'[n].fins)
  BY <1>6, <1>7
<1> QED  BY <1>2, <1>8 DEF OnStack

(* A resolution only adds finalizers.                                      *)
LEMMA ResolvedFins ==
  ASSUME NEW st \in Seq(Entries), NEW i \in Items, NEW names \in Seq(Fixtures),
         Resolve(st, i, names) \/ ResolveFails(st, i, names)
  PROVE  \A k \in DOMAIN st : Range(st[k].fins) \subseteq Range(stack'[k].fins)
<1>1. CASE Resolve(st, i, names)
  <2>1. Execution(st, i, names, <<>>) /\ <<>> \in Seq(Fixtures)
    BY <1>1 DEF Resolve
  <2> QED  BY <2>1, ExecutedFins
<1>2. CASE ResolveFails(st, i, names)
  <2>1. PICK n \in DOMAIN names : Execution(st, i, SubSeq(names, 1, n - 1), <<names[n]>>)
    BY <1>2 DEF ResolveFails
  <2>2. n \in 1 .. Len(names) /\ Len(names) \in Nat
    OBVIOUS
  <2>3. SubSeq(names, 1, n - 1) \in Seq(Fixtures) /\ <<names[n]>> \in Seq(Fixtures)
    BY <2>2
  <2> QED  BY <2>1, <2>3, ExecutedFins
<1> QED  BY <1>1, <1>2

(* The stack on which an item is set up has what was on it.                *)
LEMMA PushedKeeps ==
  ASSUME SessionInv, NEW i \in Items, OnPath(stack, collectors[i])
  PROVE  \A k \in DOMAIN stack :
           /\ k \in DOMAIN Pushed(stack, i) /\ Pushed(stack, i)[k] = stack[k]
           /\ LET full == Append(Pushed(stack, i), [node |-> i, fins |-> <<>>])
              IN  k \in DOMAIN full /\ full[k] = stack[k]
<1>0. stack \in Seq(Entries)
  BY DEF SessionInv, StackInv
<1> SUFFICES ASSUME NEW k \in DOMAIN stack
             PROVE  /\ k \in DOMAIN Pushed(stack, i) /\ Pushed(stack, i)[k] = stack[k]
                    /\ LET full == Append(Pushed(stack, i), [node |-> i, fins |-> <<>>])
                       IN  k \in DOMAIN full /\ full[k] = stack[k]
  OBVIOUS
<1> PICK st, own : st = Pushed(stack, i) /\ own = [node |-> i, fins |-> <<>>]
  OBVIOUS
<1>1. st \in Seq(Entries) /\ Len(st) = Len(collectors[i]) /\ Len(st) \in Nat
  BY <1>0, PushedFacts
<1>2. k \in 1 .. Len(stack) /\ Len(stack) \in Nat /\ k <= Len(st)
  BY <1>0, <1>1 DEF OnPath
<1>3. k \in DOMAIN st
  BY <1>1, <1>2
<1>4. st[k] = stack[k]
  <2> DEFINE more == [n \in 1 .. (Len(collectors[i]) - Len(stack)) |->
                        [node |-> collectors[i][Len(stack) + n], fins |-> <<>>]]
  <2>1. st = stack \o more
    BY DEF Pushed
  <2>2. Len(stack) \in DOMAIN stack /\ Len(collectors[i]) - Len(stack) \in Nat
    <3>1. Len(stack) \in DOMAIN stack
      BY <1>2
    <3> QED  BY <1>0, <1>1, <3>1 DEF OnPath
  <2>3. Len(more) \in Nat /\ DOMAIN more = 1 .. Len(more)
    BY <2>2
  <2> HIDE DEF more
  <2> QED  BY <1>0, <1>2, <2>1, <2>3
<1>5. k \in DOMAIN Append(st, own) /\ Append(st, own)[k] = st[k]
  BY <1>1, <1>3
<1> QED  BY <1>3, <1>4, <1>5

(* What main sets up for the item it is at is held by the item's stack.    *)
LEMMA SetupHeld ==
  ASSUME SessionInv, ValuesInv, HeldInv, NoCloneError, ClosingInv,
         mpc \notin {"finished", "deferred", "workers"}, NEW i \in Items,
         NEW st \in Seq(Entries), \A k \in DOMAIN stack : k \in DOMAIN st /\ st[k] = stack[k],
         NEW names \in Seq(Fixtures), Range(names) \subseteq Range(fixturenames[i]),
         Resolve(st, i, names) \/ ResolveFails(st, i, names),
         \A f \in Range(names) : Def(f, i) = <<f>> /\ \E k \in DOMAIN st : st[k].node = NodeFor(f, i),
         UNCHANGED saved_collector_fins, mpc \in SavingPlaces => mpc' \in SavingPlaces
  PROVE  /\ HeldInv' /\ NoCloneError'
         /\ \A j \in Items \ {i} : funcargs'[j] = funcargs[j]
         /\ \A g \in Fixtures \ Range(names) : funcargs'[i][g] = funcargs[i][g]
<1>1. SetUp(st, i, names)
  BY SetUpFacts DEF ValuesInv
<1>2. /\ Finalized(st, i, Range(names))
      /\ \E found \in SUBSET Range(names) : Filled(i, found)
  <2>1. CacheInv /\ ArgsTyped
    BY DEF ValuesInv, ArgsInv, ArgsTyped
  <2> QED  BY <2>1, ResolvedArgs
<1>3. DOMAIN stack' = DOMAIN st /\ \A k \in DOMAIN st : Range(st[k].fins) \subseteq Range(stack'[k].fins)
  BY ResolvedFins, ResolvedNodes DEF SameNodes
<1>4. ASSUME NEW d, OnStack(d) PROVE OnStack(d)'
  <2>1. PICK k \in DOMAIN stack : d \in Range(stack[k].fins)
    BY <1>4 DEF OnStack
  <2>2. k \in DOMAIN stack' /\ d \in Range(stack'[k].fins)
    BY <1>3, <2>1
  <2> QED  BY <2>2 DEF OnStack
<1>5. ASSUME NEW d \in Defs, cached_result[d] = None, cached_result'[d] # None PROVE OnStack(d)'
  <2>1. PICK f \in Range(names) : d = Def(f, i) /\
          \A k \in DOMAIN st : NodeFor(f, i) = st[k].node => d \in Range(stack'[k].fins)
    BY <1>2, <1>5 DEF Finalized
  <2>2. PICK k \in DOMAIN st : st[k].node = NodeFor(f, i)
    OBVIOUS
  <2> QED  BY <1>3, <2>1, <2>2 DEF OnStack
<1>6. HeldInv'
  <2> SUFFICES ASSUME NEW x \in alive' PROVE Held(x)'
    BY DEF HeldInv
  <2>1. CASE x \in alive
    <3>1. OnStack(x.def) \/ (mpc \in SavingPlaces /\ x.def \in SavedFins)
      <4>1. Held(x)
        BY <2>1 DEF HeldInv
      <4>2. deferred = <<>> /\ Range(<<>>) = {}
        BY DEF ClosingInv, Range
      <4> QED  BY <4>1, <4>2 DEF Held, Worked
    <3>2. CASE OnStack(x.def)
      BY <1>4, <3>2 DEF Held
    <3>3. CASE mpc \in SavingPlaces /\ x.def \in SavedFins
      BY <3>3 DEF Held, SavedFins
    <3> QED  BY <3>1, <3>2, <3>3
  <2>2. CASE x \notin alive
    <3>1. /\ cached_result[x.def] = None /\ cached_result'[x.def] = x
          /\ \E f \in Range(names) : x = Value(f, i)
      BY <1>1, <2>2 DEF SetUp
    <3>2. PICK f \in Range(names) : x = Value(f, i)
      BY <3>1
    <3>3. x # None /\ x.def \in Defs
      BY <3>2, ValueFacts, DefFacts
    <3> QED  BY <1>5, <3>1, <3>3 DEF Held
  <2> QED  BY <2>1, <2>2
<1>7. NoCloneError'
  <2> SUFFICES ASSUME NEW f \in Fixtures, NEW j \in Items, scope[f] = "function",
                      cached_result'[<<f, j>>] = Error
               PROVE  FALSE
    BY DEF NoCloneError
  <2>1. <<f, j>> \in Defs /\ cached_result[<<f, j>>] # Error
    BY DefShape DEF NoCloneError
  <2>2. cached_result[<<f, j>>] = None
    BY <1>1, <2>1 DEF SetUp
  <2>3. PICK g \in Range(names) : <<f, j>> = Def(g, i)
    BY <1>2, <2>1, <2>2, OptionsAssumption DEF Finalized
  <2>4. <<f, j>> = <<g>> /\ g \in Fixtures
    <3>1. Def(g, i) = <<g>>
      OBVIOUS
    <3>2. PICK k \in DOMAIN names : g = names[k]
      BY DEF Range
    <3> QED  BY <2>3, <3>1, <3>2
  <2> QED  BY <2>1, <2>4, DefShape
<1>8. PICK found \in SUBSET Range(names) : Filled(i, found)
  BY <1>2
<1>9. /\ \A j \in Items \ {i} : funcargs'[j] = funcargs[j]
      /\ \A g \in Fixtures \ Range(names) : funcargs'[i][g] = funcargs[i][g]
  BY <1>8 DEF Filled
<1> QED  BY <1>6, <1>7, <1>9

(* What a step of a worker does to the values its item holds: its function *)
(* fixtures are resolved in their order; a setup that fails has none yet;  *)
(* one that passes, and the teardown, take all of them along.              *)
WorkerMoves(i) ==
  \/ (* Nothing is resolved.                                               *)
     /\ UNCHANGED <<alive, funcargs>>
     /\ \/ wpc[i] = "queued" /\ wpc'[i] = "setup"
        \/ wpc[i] = "setup" /\ wpc'[i] \in {"executing", "call"}
  \/ (* A name is resolved.                                                *)
     /\ wpc[i] \in {"setup", "executing"} /\ wpc'[i] = "setup"
     /\ Unresolved(i) # {}
     /\ \E v : /\ v # None /\ alive' \subseteq alive \cup {v}
               /\ funcargs' = [funcargs EXCEPT ![i][NextName(i)] = v]
               /\ \/ v \in alive
                  \/ v.def = <<NextName(i), i>> /\ scope[NextName(i)] = "function"
  \/ (* The setup fails.                                                   *)
     /\ wpc[i] = "executing" /\ wpc'[i] = "errored" /\ UNCHANGED <<alive, funcargs>>
     /\ NextName(i) \in raising /\ scope[NextName(i)] = "function"
  \/ (* The item is torn down.                                             *)
     /\ wpc[i] = "call" /\ wpc'[i] \in {"passed", "failed"}
     /\ alive' = alive \ FinishedBy(FunctionDefs(i)) /\ UNCHANGED funcargs

LEMMA WorkerMove ==
  ASSUME SessionInv, ValuesInv, PopulatedInv, UniformModules, NoCloneError,
         NEW i \in Items, Worker(i)
  PROVE  /\ WorkerMoves(i) /\ NoCloneError'
         /\ \A j \in Items \ {i} : wpc'[j] = wpc[j] /\ funcargs'[j] = funcargs[j]
<1>1. /\ mpc = "workers" /\ i \in ParallelSet /\ i \in cloned
      /\ wpc[i] = "executing" => Def(NextName(i), i) = <<NextName(i), i>>
  BY WorkerShared
<1>2. /\ DOMAIN funcargs = Items /\ wpc \in [Items -> ItemPlaces]
      /\ cached_result \in [Defs -> created \cup {None, Error}]
      /\ funcargs \in [Items -> [Fixtures -> created \cup {None}]]
  BY DEF SessionInv, ItemsInv, ControlInv, ValuesInv, CacheInv, ArgsInv
<1>3. ASSUME wpc[i] = "executing"
      PROVE  /\ Unresolved(i) # {} /\ scope[NextName(i)] = "function"
             /\ NextName(i) \in Range(fixturenames[i]) /\ NextName(i) \in Fixtures
             /\ Def(NextName(i), i) = <<NextName(i), i>>
             /\ Def(NextName(i), i) \in FunctionDefs(i)
  <2>1. Unresolved(i) # {} /\ scope[NextName(i)] = "function"
    BY <1>3 DEF SessionInv, NextInv, PopulatedInv
  <2> QED  BY <1>1, <1>3, <2>1, NextNameFacts DEF FunctionDefs
<1>4. ASSUME Unresolved(i) # {}
      PROVE  /\ cached_result[Def(NextName(i), i)] # Error
             /\ Def(NextName(i), i) \in Defs
  <2>1. /\ NextName(i) \in Range(fixturenames[i]) /\ NextName(i) \in Fixtures
        /\ Def(NextName(i), i) \in Defs
    BY <1>4, NextNameFacts
  <2>2. CASE scope[NextName(i)] = "function"
    <3>1. Def(NextName(i), i) = <<NextName(i), i>>
      BY <1>1, <2>1, <2>2, DefFacts
    <3> QED  BY <2>1, <2>2, <3>1 DEF NoCloneError
  <2>3. CASE scope[NextName(i)] # "function"
    <3>1. NextName(i) \in SharedOf(i)
      BY <2>1, <2>3 DEF SharedOf
    <3>2. Def(NextName(i), i) = <<NextName(i)>>
      BY <3>1, SharedFacts
    <3>3. i \in Range(groups[group_idx]) /\ module[i] \in shared_populated_modules
      BY <1>1, ParallelItems DEF PopulatedInv, SessionInv, GroupPlaces
    <3>4. Set(cached_result[<<NextName(i)>>])
      BY <1>1, <3>1, <3>3 DEF PopulatedInv
    <3> QED  BY <2>1, <3>2, <3>4 DEF Set
  <2> QED  BY <2>2, <2>3
<1>6. ASSUME cached_result' \in {cached_result, Forget(cached_result, FunctionDefs(i))}
      PROVE  NoCloneError'
  <2> SUFFICES ASSUME NEW f \in Fixtures, NEW j \in Items, scope[f] = "function"
               PROVE  cached_result'[<<f, j>>] # Error
    BY DEF NoCloneError
  <2>1. <<f, j>> \in Defs /\ cached_result[<<f, j>>] # Error
    BY DefShape DEF NoCloneError
  <2>2. Forget(cached_result, FunctionDefs(i))[<<f, j>>] # Error
    BY <2>1, OptionsAssumption DEF Forget
  <2> QED  BY <1>6, <2>1, <2>2
<1>7. CASE Take(i) \/ CacheMiss(i) \/ EnterCall(i)
  <2>1. UNCHANGED <<alive, funcargs>>
    BY <1>7 DEF Take, CacheMiss, EnterCall, caches
  <2>2. cached_result' \in {cached_result, Forget(cached_result, FunctionDefs(i))}
    BY <1>7 DEF Take, CacheMiss, EnterCall, caches
  <2>3. \/ wpc[i] = "queued" /\ wpc' = [wpc EXCEPT ![i] = "setup"]
        \/ wpc[i] = "setup" /\ wpc' = [wpc EXCEPT ![i] = "executing"]
        \/ wpc[i] = "setup" /\ wpc' = [wpc EXCEPT ![i] = "call"]
    BY <1>7 DEF Take, CacheMiss, EnterCall
  <2>4. \/ wpc[i] = "queued" /\ wpc'[i] = "setup"
        \/ wpc[i] = "setup" /\ wpc'[i] \in {"executing", "call"}
    BY <1>2, <2>3
  <2>5. \A j \in Items \ {i} : wpc'[j] = wpc[j] /\ funcargs'[j] = funcargs[j]
    BY <1>2, <2>1, <2>3
  <2> QED  BY <1>6, <2>1, <2>2, <2>4, <2>5 DEF WorkerMoves
<1>8. CASE CacheHit(i)
  <2> PICK f, hit : f = NextName(i) /\ hit = cached_result[Def(f, i)]
    OBVIOUS
  <2>1. wpc[i] = "setup" /\ Unresolved(i) # {} /\ hit # None /\ UNCHANGED alive
    BY <1>8 DEF CacheHit
  <2>2. hit # Error /\ Def(f, i) \in Defs
    BY <1>4, <2>1
  <2>3. funcargs' = [funcargs EXCEPT ![i][f] = hit] /\ UNCHANGED <<cached_result, wpc>>
    BY <1>8, <2>2 DEF CacheHit
  <2>4. hit \in alive
    BY <2>1, <2>2 DEF ValuesInv, CacheInv, Set
  <2>5. \A j \in Items \ {i} : wpc'[j] = wpc[j] /\ funcargs'[j] = funcargs[j]
    BY <1>2, <2>3
  <2>6. NoCloneError'
    BY <1>6, <2>3
  <2>7. WorkerMoves(i)
    BY <2>1, <2>3, <2>4 DEF WorkerMoves
  <2> QED  BY <2>5, <2>6, <2>7
<1>9. CASE Execute(i)
  <2> PICK f, v : f = NextName(i) /\ v = Value(f, i)
    OBVIOUS
  <2>1. wpc[i] = "executing"
    BY <1>9 DEF Execute
  <2>2. /\ f \in Range(fixturenames[i]) /\ scope[f] = "function" /\ f \in Fixtures
        /\ v.def = <<f, i>> /\ Unresolved(i) # {} /\ v # None /\ v # Error /\ v.def = Def(f, i)
        /\ v.def \in Defs
    BY <1>3, <2>1, ValueFacts, DefFacts
  <2>3. /\ alive' = alive \cup {v} /\ funcargs' = [funcargs EXCEPT ![i][f] = v]
        /\ wpc' = [wpc EXCEPT ![i] = "setup"]
        /\ cached_result' = [cached_result EXCEPT ![v.def] = v]
    BY <1>9, <2>2 DEF Execute
  <2>4. wpc'[i] = "setup" /\ \A j \in Items \ {i} : wpc'[j] = wpc[j] /\ funcargs'[j] = funcargs[j]
    BY <1>2, <2>3
  <2>5. WorkerMoves(i)
    BY <2>1, <2>2, <2>3, <2>4 DEF WorkerMoves
  <2>6. NoCloneError'
    BY <1>2, <2>2, <2>3, DefShape DEF NoCloneError
  <2> QED  BY <2>4, <2>5, <2>6
<1>10. CASE ExecuteRaises(i)
  <2> PICK f : f = NextName(i)
    OBVIOUS
  <2>1. wpc[i] = "executing"
    BY <1>10 DEF ExecuteRaises
  <2>2. /\ scope[f] = "function" /\ Def(f, i) \in FunctionDefs(i) /\ Def(f, i) = <<f, i>>
        /\ f \in Fixtures
    BY <1>3, <2>1
  <2>3. /\ UNCHANGED <<alive, funcargs>> /\ wpc' = [wpc EXCEPT ![i] = "errored"] /\ f \in raising
        /\ cached_result' = Forget([cached_result EXCEPT ![Def(f, i)] = Error], FunctionDefs(i))
    BY <1>10, <2>2 DEF ExecuteRaises
  <2>4. wpc'[i] = "errored" /\ \A j \in Items \ {i} : wpc'[j] = wpc[j] /\ funcargs'[j] = funcargs[j]
    BY <1>2, <2>3
  <2>5. WorkerMoves(i)
    BY <2>1, <2>2, <2>3, <2>4 DEF WorkerMoves
  <2>6. ASSUME NEW g \in Fixtures, NEW j \in Items, scope[g] = "function"
        PROVE  cached_result'[<<g, j>>] # Error
    <3>1. <<g, j>> \in Defs /\ cached_result[<<g, j>>] # Error
      BY <2>6, DefShape DEF NoCloneError
    <3>2. CASE <<g, j>> \in FunctionDefs(i)
      BY <2>3, <3>1, <3>2, OptionsAssumption DEF Forget
    <3>3. CASE <<g, j>> \notin FunctionDefs(i)
      <4>1. <<g, j>> # Def(f, i)
        BY <2>2, <3>3
      <4> QED  BY <1>2, <2>3, <3>1, <3>3, <4>1 DEF Forget
    <3> QED  BY <3>2, <3>3
  <2>7. NoCloneError'
    BY <2>6 DEF NoCloneError
  <2> QED  BY <2>4, <2>5, <2>7
<1>11. CASE \E outcome \in {"passed", "failed"} : LeaveCall(i, outcome)
  <2>1. PICK outcome \in {"passed", "failed"} : LeaveCall(i, outcome)
    BY <1>11
  <2>2. /\ wpc[i] = "call" /\ wpc' = [wpc EXCEPT ![i] = outcome]
        /\ alive' = alive \ FinishedBy(FunctionDefs(i)) /\ UNCHANGED <<funcargs, cached_result>>
    BY <2>1 DEF LeaveCall
  <2>3. wpc'[i] = outcome /\ \A j \in Items \ {i} : wpc'[j] = wpc[j] /\ funcargs'[j] = funcargs[j]
    BY <1>2, <2>2
  <2>4. WorkerMoves(i)
    BY <2>2, <2>3 DEF WorkerMoves
  <2>5. NoCloneError'
    BY <1>6, <2>2
  <2> QED  BY <2>3, <2>4, <2>5
<1> QED  BY <1>7, <1>8, <1>9, <1>10, <1>11 DEF Worker

(* A worker resolves in turn, and what it holds when its setup raises is   *)
(* nothing.                                                                *)
LEMMA WorkerHeld ==
  ASSUME SessionInv, ValuesInv, PopulatedInv, ReleaseInv, UniformModules, RaisesFirst,
         NEW i \in Items, Worker(i)
  PROVE  HeldInv' /\ NoCloneError' /\ InTurn'
<1>1. /\ mpc = "workers" /\ i \in ParallelSet /\ i \in cloned
      /\ UNCHANGED <<mpc, stack, saved_collector_fins, deferred, parallel_items>>
  <2>1. /\ mpc = "workers" /\ i \in ParallelSet /\ i \in cloned
        /\ UNCHANGED <<control, stack, prepared, deferred>>
    BY WorkerShared
  <2> QED  BY <2>1 DEF control, prepared
<1>2. /\ DOMAIN funcargs = Items
      /\ funcargs \in [Items -> [Fixtures -> created \cup {None}]]
      /\ HeldInv /\ InTurn /\ ClosingInv /\ NoCloneError
  BY DEF SessionInv, NextInv, ValuesInv, ArgsInv, ReleaseInv
<1>3. /\ WorkerMoves(i) /\ NoCloneError'
      /\ \A j \in Items \ {i} : wpc'[j] = wpc[j] /\ funcargs'[j] = funcargs[j]
  BY <1>2, WorkerMove
<1> PICK names : names = fixturenames[i]
  OBVIOUS
<1>4. /\ names \in Seq(Fixtures) /\ Len(names) \in Nat /\ DOMAIN names = 1 .. Len(names)
  BY NamesTyped
<1>5. ASSUME Unresolved(i) # {}
      PROVE  \E m \in DOMAIN names :
               /\ NextName(i) = names[m] /\ funcargs[i][names[m]] = None
               /\ \A k \in 1 .. (m - 1) : funcargs[i][names[k]] # None
  <2>1. Unresolved(i) \in SUBSET Nat
    BY <1>4 DEF Unresolved
  <2>2. \E k \in Unresolved(i) : \A m \in Unresolved(i) : k <= m
    BY <1>5, <2>1, SmallestMember
  <2> PICK m : m = CHOOSE k \in Unresolved(i) : \A n \in Unresolved(i) : k <= n
    OBVIOUS
  <2>3. m \in Unresolved(i) /\ \A n \in Unresolved(i) : m <= n
    BY <2>2
  <2>4. NextName(i) = names[m]
    BY DEF NextName
  <2>5. m \in DOMAIN names /\ m \in Nat /\ funcargs[i][names[m]] = None
    BY <2>1, <2>3 DEF Unresolved
  <2>6. ASSUME NEW k \in 1 .. (m - 1) PROVE funcargs[i][names[k]] # None
    <3>1. k \in DOMAIN names /\ ~ (m <= k)
      BY <1>4, <2>5
    <3> QED  BY <2>3, <3>1 DEF Unresolved
  <2> QED  BY <2>4, <2>5, <2>6
<1>6. \A d : (OnStack(d)' <=> OnStack(d)) /\ (d \in SavedFins' <=> d \in SavedFins)
  BY <1>1 DEF OnStack, SavedFins
<1>7. ASSUME wpc[i] = "executing", wpc'[i] = "errored", NEW g \in Range(names),
             scope[g] = "function", funcargs[i][g] # None
      PROVE  FALSE
  <2>1. /\ Unresolved(i) # {} /\ NextName(i) \in raising /\ scope[NextName(i)] = "function"
    BY <1>3, <1>7 DEF WorkerMoves, SessionInv, NextInv
  <2>2. PICK m \in DOMAIN names :
          /\ NextName(i) = names[m] /\ funcargs[i][names[m]] = None
          /\ \A k \in 1 .. (m - 1) : funcargs[i][names[k]] # None
    BY <1>5, <2>1
  <2>3. g \in Fixtures
    BY <1>4 DEF Range
  <2>4. PICK n \in DOMAIN names :
          /\ names[n] = g
          /\ \A k \in 1 .. (n - 1) : scope[names[k]] = "function" => funcargs[i][names[k]] # None
    BY <1>1, <1>2, <1>7, <2>3 DEF InTurn
  <2>5. InParallel(group_idx) /\ i \in Range(groups[group_idx]) /\ group_idx \in DOMAIN groups
    BY <1>1, ParallelItems DEF PopulatedInv, SessionInv, GroupPlaces
  <2>6. CASE n < m
    BY <1>7, <2>1, <2>2, <2>4, <2>5, <2>6 DEF RaisesFirst
  <2>7. CASE m < n
    <3>1. m \in 1 .. (n - 1)
      BY <1>4, <2>7
    <3> QED  BY <2>1, <2>2, <2>4, <3>1
  <2>8. CASE m = n
    BY <1>7, <2>2, <2>4, <2>8
  <2> QED  BY <1>4, <2>6, <2>7, <2>8
<1>8. ASSUME NEW x \in alive', x \in alive, Worked(x) PROVE Worked(x)'
  <2>1. PICK j \in Items : \E f \in Range(fixturenames[j]) :
          /\ scope[f] = "function" /\ x.def = <<f, j>>
          /\ \/ wpc[j] = "call"
             \/ wpc[j] \in {"setup", "executing"} /\ funcargs[j][f] = x
    BY <1>8 DEF Worked
  <2>2. PICK f \in Range(fixturenames[j]) :
          /\ scope[f] = "function" /\ x.def = <<f, j>>
          /\ \/ wpc[j] = "call"
             \/ wpc[j] \in {"setup", "executing"} /\ funcargs[j][f] = x
    BY <2>1
  <2>3. SUFFICES \/ wpc'[j] = "call"
                 \/ wpc'[j] \in {"setup", "executing"} /\ funcargs'[j][f] = x
    BY <1>1, <2>2 DEF Worked
  <2>4. CASE j # i
    BY <1>3, <2>2, <2>4
  <2>5. CASE j = i
    <3>0. x # None /\ f \in Fixtures /\ f \in Range(names)
      <4>1. alive \subseteq Instances
        BY DEF ValuesInv, CacheInv
      <4>2. f \in Range(names)
        BY <2>5
      <4>3. f \in Fixtures
        BY <1>4, <4>2 DEF Range
      <4> QED  BY <1>8, <4>1, <4>2, <4>3, ValuesAssumption
    <3>1. CASE wpc[i] = "call"
      <4>1. alive' = alive \ FinishedBy(FunctionDefs(i))
        BY <1>3, <3>1 DEF WorkerMoves
      <4>2. x.def \in FunctionDefs(i)
        BY <1>1, <2>2, <2>5, <3>0, DefFacts DEF FunctionDefs
      <4> QED  BY <4>1, <4>2 DEF FinishedBy
    <3>2. CASE wpc[i] # "call"
      <4>1. wpc[i] \in {"setup", "executing"} /\ funcargs[i][f] = x
        BY <2>2, <2>5, <3>2
      <4>2. CASE wpc'[i] = "errored"
        BY <1>3, <1>7, <2>2, <3>0, <4>1, <4>2 DEF WorkerMoves
      <4>3. CASE UNCHANGED funcargs /\ wpc'[i] # "errored"
        BY <1>3, <2>5, <4>1, <4>3 DEF WorkerMoves
      <4>4. CASE ~ UNCHANGED funcargs
        <5>1. PICK v : /\ Unresolved(i) # {} /\ wpc'[i] = "setup"
                       /\ funcargs' = [funcargs EXCEPT ![i][NextName(i)] = v]
          BY <1>3, <4>4 DEF WorkerMoves
        <5>2. f # NextName(i)
          BY <3>0, <4>1, <5>1, NextNameFacts
        <5>3. funcargs'[i][f] = x
          BY <1>2, <3>0, <4>1, <5>1, <5>2
        <5> QED  BY <2>5, <5>1, <5>3
      <4> QED  BY <4>2, <4>3, <4>4
    <3> QED  BY <3>1, <3>2
  <2> QED  BY <2>4, <2>5
<1>9. ASSUME NEW x \in alive', x \notin alive PROVE Worked(x)'
  <2>1. ~ (alive' \subseteq alive)
    BY <1>9
  <2>2. ~ UNCHANGED alive /\ alive' # alive \ FinishedBy(FunctionDefs(i))
    BY <2>1
  <2>3. /\ wpc'[i] = "setup" /\ Unresolved(i) # {}
        /\ \E v : /\ v # None /\ alive' \subseteq alive \cup {v}
                  /\ funcargs' = [funcargs EXCEPT ![i][NextName(i)] = v]
                  /\ \/ v \in alive
                     \/ v.def = <<NextName(i), i>> /\ scope[NextName(i)] = "function"
    BY <1>3, <2>2 DEF WorkerMoves
  <2>4. PICK v : /\ v # None /\ alive' \subseteq alive \cup {v}
                 /\ funcargs' = [funcargs EXCEPT ![i][NextName(i)] = v]
                 /\ \/ v \in alive
                    \/ v.def = <<NextName(i), i>> /\ scope[NextName(i)] = "function"
    BY <2>3
  <2>5. v = x /\ x.def = <<NextName(i), i>> /\ scope[NextName(i)] = "function"
    BY <1>9, <2>4
  <2>6. NextName(i) \in Range(fixturenames[i]) /\ NextName(i) \in Fixtures
    BY <2>3, NextNameFacts
  <2>7. funcargs'[i][NextName(i)] = x
    BY <1>2, <2>4, <2>5, <2>6
  <2> QED  BY <1>1, <2>3, <2>5, <2>6, <2>7 DEF Worked
<1>10. HeldInv'
  <2> SUFFICES ASSUME NEW x \in alive' PROVE Held(x)'
    BY DEF HeldInv
  <2>1. CASE x \in alive
    <3>1. Held(x)
      BY <1>1, <1>2, <2>1 DEF HeldInv
    <3>2. x.def \in Range(deferred') <=> x.def \in Range(deferred)
      BY <1>1
    <3>3. mpc' \in SavingPlaces
      BY <1>1 DEF SavingPlaces
    <3> QED  BY <1>6, <1>8, <2>1, <3>1, <3>2, <3>3 DEF Held
  <2>2. CASE x \notin alive
    BY <1>9, <2>2 DEF Held
  <2> QED  BY <2>1, <2>2
<1>11. InTurn'
  <2>1. ParallelSet' = ParallelSet
    BY <1>1 DEF ParallelSet
  <2> SUFFICES ASSUME NEW j \in ParallelSet, wpc'[j] \in {"queued", "setup", "executing"},
                      NEW g \in Fixtures, scope[g] = "function", funcargs'[j][g] # None
               PROVE  \E n \in DOMAIN fixturenames[j] :
                        /\ fixturenames[j][n] = g
                        /\ \A k \in 1 .. (n - 1) : scope[fixturenames[j][k]] = "function" =>
                             funcargs'[j][fixturenames[j][k]] # None
    BY <1>1, <2>1 DEF InTurn
  <2>2. j \in Items
    BY <1>1, ParallelItems DEF SessionInv, GroupPlaces
  <2>3. CASE j # i
    BY <1>1, <1>2, <1>3, <2>2, <2>3 DEF InTurn
  <2>4. CASE j = i /\ UNCHANGED funcargs
    <3>1. wpc[i] \in {"queued", "setup", "executing"}
      BY <1>3, <2>4 DEF WorkerMoves
    <3> QED  BY <1>1, <1>2, <2>4, <3>1 DEF InTurn
  <2>5. CASE j = i /\ ~ UNCHANGED funcargs
    <3>1. /\ wpc[i] \in {"setup", "executing"} /\ Unresolved(i) # {}
          /\ \E v : v # None /\ funcargs' = [funcargs EXCEPT ![i][NextName(i)] = v]
      BY <1>3, <2>5 DEF WorkerMoves
    <3>2. PICK v : v # None /\ funcargs' = [funcargs EXCEPT ![i][NextName(i)] = v]
      BY <3>1
    <3>3. ASSUME NEW f \in Fixtures, funcargs[i][f] # None PROVE funcargs'[i][f] # None
      BY <1>2, <3>2, <3>3
    <3>4. \A k \in DOMAIN names : names[k] \in Fixtures
      BY <1>4
    <3>5. CASE funcargs[i][g] # None
      <4>1. PICK n \in DOMAIN names :
              /\ names[n] = g
              /\ \A k \in 1 .. (n - 1) : scope[names[k]] = "function" => funcargs[i][names[k]] # None
        BY <1>1, <1>2, <2>5, <3>1, <3>5 DEF InTurn
      <4>2. \A k \in 1 .. (n - 1) : names[k] \in Fixtures
        BY <1>4, <3>4
      <4> QED  BY <2>5, <3>3, <4>1, <4>2
    <3>6. CASE funcargs[i][g] = None
      <4>1. g = NextName(i)
        BY <1>2, <2>5, <3>2, <3>6
      <4>2. PICK m \in DOMAIN names :
              /\ NextName(i) = names[m] /\ funcargs[i][names[m]] = None
              /\ \A k \in 1 .. (m - 1) : funcargs[i][names[k]] # None
        BY <1>5, <3>1
      <4>3. \A k \in 1 .. (m - 1) : names[k] \in Fixtures
        BY <1>4, <3>4
      <4> QED  BY <2>5, <3>3, <4>1, <4>2, <4>3
    <3> QED  BY <3>5, <3>6
  <2> QED  BY <2>3, <2>4, <2>5
<1> QED  BY <1>3, <1>10, <1>11

(* The steps of main that set up and tear down nothing.                    *)
LEMMA MainHeld ==
  ASSUME ClosingInv, HeldInv, NoCloneError, mpc \notin {"finished", "workers"},
         UNCHANGED <<stack, cached_result, alive, saved_collector_fins, deferred>>,
         mpc \in SavingPlaces => mpc' \in SavingPlaces
  PROVE  HeldInv' /\ NoCloneError'
<1>1. \A d : (OnStack(d)' <=> OnStack(d)) /\ (d \in SavedFins' <=> d \in SavedFins)
  BY DEF OnStack, SavedFins
<1>2. ASSUME NEW x \in alive PROVE Held(x)'
  <2>1. Held(x) /\ ~ Worked(x)
    BY <1>2 DEF HeldInv, Worked
  <2>2. x.def \in Range(deferred') <=> x.def \in Range(deferred)
    OBVIOUS
  <2> QED  BY <1>1, <2>1, <2>2 DEF Held
<1>3. HeldInv'
  BY <1>2 DEF HeldInv
<1>4. NoCloneError'
  BY DEF NoCloneError
<1> QED  BY <1>3, <1>4

LEMMA SetupsHeld ==
  ASSUME SessionInv, ValuesInv, ReleaseInv,
         SeqSetup \/ SeqSetupFails \/ HookPasses \/ HookFails
  PROVE  /\ HeldInv' /\ NoCloneError' /\ item \in Items
         /\ \A j \in Items \ {item} : funcargs'[j] = funcargs[j]
         /\ mpc = "hook" => \A g \in Fixtures : scope[g] = "function" =>
              funcargs'[item][g] = funcargs[item][g]
<1>0. /\ stack \in Seq(Entries) /\ ItemsInv /\ StackInv /\ PlaceInv
      /\ ClosingInv /\ HeldInv /\ NoCloneError
  BY DEF SessionInv, StackInv, ReleaseInv
<1>1. CASE SeqSetup \/ SeqSetupFails
  <2> PICK st : st = Append(Pushed(stack, item), [node |-> item, fins |-> <<>>])
    OBVIOUS
  <2>1. /\ mpc = "seq" /\ mpc' \in {"seqcall", "seqteardown"}
        /\ Resolve(st, item, fixturenames[item]) \/ ResolveFails(st, item, fixturenames[item])
        /\ UNCHANGED saved_collector_fins
    BY <1>1 DEF SeqSetup, SeqSetupFails, prepared
  <2>2. /\ item \in Items /\ group_idx \in DOMAIN groups /\ idx \in DOMAIN groups[group_idx]
        /\ OnPath(stack, collectors[item]) /\ group_idx \in Nat
    <3>1. mpc \in SeqPlaces
      BY <2>1 DEF SeqPlaces
    <3> QED  BY <1>0, <2>1, <3>1, ItemTyped, Position DEF ItemsInv, StackInv
  <2>3. item \notin cloned
    BY <1>0, <2>1, <2>2 DEF PlaceInv, item, SeqPlaces
  <2>4. /\ st \in Seq(Entries) /\ OnPath(st, listchain(item))
        /\ Len(st) = Len(collectors[item]) + 1
    BY <1>0, <2>2, WithItem
  <2>5. \A k \in DOMAIN stack : k \in DOMAIN st /\ st[k] = stack[k]
    BY <2>2, PushedKeeps
  <2>6. fixturenames[item] \in Seq(Fixtures)
    BY <2>2, NamesTyped
  <2>7. ASSUME NEW f \in Range(fixturenames[item])
        PROVE  Def(f, item) = <<f>> /\ \E k \in DOMAIN st : st[k].node = NodeFor(f, item)
    <3>1. Def(f, item) = <<f>>
      BY <2>3 DEF Def
    <3>2. NodeFor(f, item) \in Range(listchain(item))
      <4>1. scope[f] = "function" => NodeFor(f, item) = item
        BY DEF NodeFor
      <4>2. scope[f] # "function" => NodeFor(f, item) \in Range(collectors[item])
        BY <2>2, NodeOfShared
      <4> QED  BY <2>2, <4>1, <4>2, ChainFacts
    <3>3. PICK k \in DOMAIN listchain(item) : listchain(item)[k] = NodeFor(f, item)
      BY <3>2 DEF Range
    <3>4. k \in DOMAIN st
      BY <2>2, <2>4, ChainFacts
    <3> QED  BY <2>4, <3>1, <3>3, <3>4 DEF OnPath
  <2>8. mpc \notin {"finished", "deferred", "workers"} /\ mpc \notin SavingPlaces
    BY <2>1 DEF SavingPlaces
  <2> QED  BY <1>0, <2>1, <2>2, <2>4, <2>5, <2>6, <2>7, <2>8, SetupHeld
<1>2. CASE HookPasses \/ HookFails
  <2> PICK st : st = Pushed(stack, item)
    OBVIOUS
  <2>1. /\ HookEntered
        /\ Resolve(st, item, ToPopulate(item)) \/ ResolveFails(st, item, ToPopulate(item))
        /\ UNCHANGED saved_collector_fins
    BY <1>2 DEF HookPasses, HookFails, prepared
  <2>2. mpc = "hook" /\ mpc' = "hook"
    BY <2>1 DEF HookEntered
  <2>3. item \in Items /\ OnPath(stack, collectors[item])
    BY <1>0, <2>1, HookPath
  <2>4. /\ st \in Seq(Entries) /\ Len(st) = Len(collectors[item])
        /\ \A k \in DOMAIN collectors[item] : st[k].node = collectors[item][k]
    BY <1>0, <2>3, PushedFacts
  <2>5. \A k \in DOMAIN stack : k \in DOMAIN st /\ st[k] = stack[k]
    BY <2>3, PushedKeeps
  <2>6. /\ ToPopulate(item) \in Seq(Fixtures)
        /\ Range(ToPopulate(item)) \subseteq {f \in Range(fixturenames[item]) : scope[f] # "function"}
    BY <2>3, NamesTyped
  <2>7. ASSUME NEW f \in Range(ToPopulate(item))
        PROVE  Def(f, item) = <<f>> /\ \E k \in DOMAIN st : st[k].node = NodeFor(f, item)
    <3>1. f \in Range(fixturenames[item]) /\ scope[f] # "function"
      BY <2>6
    <3>2. NodeFor(f, item) \in Range(collectors[item])
      BY <2>3, <3>1, NodeOfShared
    <3>3. PICK k \in DOMAIN collectors[item] : collectors[item][k] = NodeFor(f, item)
      BY <3>2 DEF Range
    <3>4. k \in DOMAIN st
      BY <2>3, <2>4, ChainFacts
    <3> QED  BY <2>4, <3>1, <3>3, <3>4 DEF Def
  <2>8. /\ mpc \notin {"finished", "deferred", "workers"}
        /\ mpc \in SavingPlaces /\ mpc' \in SavingPlaces
    BY <2>2 DEF SavingPlaces
  <2>9. Range(ToPopulate(item)) \subseteq Range(fixturenames[item])
        /\ \A g \in Fixtures : scope[g] = "function" => g \notin Range(ToPopulate(item))
    BY <2>6
  <2> QED  BY <1>0, <2>1, <2>3, <2>4, <2>5, <2>6, <2>7, <2>8, <2>9, SetupHeld
<1> QED  BY <1>1, <1>2

(* What a transition takes off the stack it saves.                         *)
LEMMA TransitionHeld ==
  ASSUME SessionInv, ValuesInv, ReleaseInv, Transition
  PROVE  HeldInv' /\ NoCloneError'
<1>0. /\ ItemsInv /\ StackInv /\ CacheInv /\ ClosingInv /\ HeldInv /\ NoCloneError
      /\ stack \in Seq(Entries) /\ saved_collector_fins \in Seq(Entries)
  BY DEF SessionInv, StackInv, ValuesInv, ReleaseInv, ClosingInv
<1>1. mpc = "hook" /\ UNCHANGED <<mpc, deferred, cached_result, alive>>
  <2>1. mpc = "hook" /\ UNCHANGED <<mpc, deferred>>
    BY DEF Transition, control
  <2> QED  BY <1>0, <2>1, TransitionKeeps
<1>2. /\ SavedFins \subseteq SavedFins'
      /\ \A k \in DOMAIN stack : Stale(k) => Range(stack[k].fins) \subseteq SavedFins'
  BY <1>0, TransitionSaves
<1>3. ASSUME NEW k \in DOMAIN stack, ~ Stale(k), Range(stack[k].fins) # {}
      PROVE  k \in DOMAIN stack' /\ stack'[k] = stack[k]
  <2>1. /\ Cleared \in Seq(Entries) /\ DOMAIN Cleared = DOMAIN stack /\ item \in Items
        /\ stack' = SubSeq(Cleared, 1, Kept(Cleared, item))
        /\ \A n \in (Kept(Cleared, item) + 1) .. Len(Cleared) : Cleared[n].fins = <<>>
    BY <1>0, TransitionFacts DEF SameNodes
  <2> PICK p, cl : p = Kept(Cleared, item) /\ cl = Cleared
    OBVIOUS
  <2>2. p \in 0 .. Len(cl) /\ Len(cl) \in Nat /\ k \in 1 .. Len(cl)
    <3>1. Kept(Cleared, item) \in 0 .. Len(Cleared)
      BY <2>1, KeptFacts
    <3> QED  BY <2>1, <3>1
  <2>3. cl[k] = stack[k]
    BY <1>3 DEF Cleared
  <2>4. k <= p
    <3> SUFFICES ASSUME ~ (k <= p) PROVE FALSE
      OBVIOUS
    <3>1. k \in (p + 1) .. Len(cl)
      BY <2>2
    <3>2. cl[k].fins = <<>> /\ Range(<<>>) = {}
      BY <2>1, <3>1 DEF Range
    <3> QED  BY <1>3, <2>3, <3>2
  <2>5. k \in DOMAIN SubSeq(cl, 1, p) /\ SubSeq(cl, 1, p)[k] = cl[k]
    BY <2>1, <2>2, <2>4
  <2> QED  BY <2>1, <2>3, <2>5
<1>4. ASSUME NEW d, OnStack(d) PROVE OnStack(d)' \/ d \in SavedFins'
  <2>1. PICK k \in DOMAIN stack : d \in Range(stack[k].fins)
    BY <1>4 DEF OnStack
  <2>2. CASE Stale(k)
    BY <1>2, <2>1, <2>2
  <2>3. CASE ~ Stale(k)
    <3>1. k \in DOMAIN stack' /\ d \in Range(stack'[k].fins)
      BY <1>3, <2>1, <2>3
    <3> QED  BY <3>1 DEF OnStack
  <2> QED  BY <2>2, <2>3
<1>5. ASSUME NEW x \in alive PROVE Held(x)'
  <2>1. Held(x) /\ ~ Worked(x) /\ mpc' \in SavingPlaces
    BY <1>0, <1>1 DEF HeldInv, Worked, SavingPlaces
  <2>2. x.def \in Range(deferred') <=> x.def \in Range(deferred)
    BY <1>1
  <2> QED  BY <1>2, <1>4, <2>1, <2>2 DEF Held
<1>6. HeldInv'
  BY <1>1, <1>5 DEF HeldInv
<1>7. NoCloneError'
  BY <1>0, <1>1 DEF NoCloneError
<1> QED  BY <1>6, <1>7

(* Dropping definitions from the cache caches no exception.                *)
LEMMA ForgetClones ==
  ASSUME NoCloneError, NEW D, cached_result' = Forget(cached_result, D)
  PROVE  NoCloneError'
<1> SUFFICES ASSUME NEW f \in Fixtures, NEW i \in Items, scope[f] = "function"
             PROVE  cached_result'[<<f, i>>] # Error
  BY DEF NoCloneError
<1>1. <<f, i>> \in Defs /\ cached_result[<<f, i>>] # Error
  BY DefShape DEF NoCloneError
<1> QED  BY <1>1, OptionsAssumption DEF Forget

(* The workers are done: no item holds a value of its own any more, and    *)
(* the entries popped are empty.                                           *)
LEMMA PopHeld ==
  ASSUME SessionInv, PathInv, ReleaseInv, PopItems
  PROVE  HeldInv' /\ NoCloneError'
<1>0. HeldInv /\ NoCloneError /\ PlaceInv /\ stack \in Seq(Entries)
  BY DEF SessionInv, StackInv, ReleaseInv
<1>1. /\ mpc = "workers" /\ mpc' = "teardown_all"
      /\ \A i \in ParallelSet : wpc[i] \in {"passed", "failed", "broken", "errored"}
      /\ UNCHANGED <<cached_result, alive, saved_collector_fins, deferred>>
  BY DEF PopItems, Ended, prepared
<1>2. mpc \in SavingPlaces /\ mpc' \in SavingPlaces
  BY <1>1 DEF SavingPlaces
<1>3. PICK p \in 0 .. Len(stack) : stack' = SubSeq(stack, 1, p) /\
        \A k \in (p + 1) .. Len(stack) : Range(stack[k].fins) = {}
  BY PopPath
<1>4. ASSUME NEW d, OnStack(d) PROVE OnStack(d)'
  <2>1. PICK k \in DOMAIN stack : d \in Range(stack[k].fins)
    BY <1>4 DEF OnStack
  <2>2. k \in 1 .. Len(stack) /\ Len(stack) \in Nat
    BY <1>0
  <2>3. k <= p
    <3> SUFFICES ASSUME ~ (k <= p) PROVE FALSE
      OBVIOUS
    <3>1. k \in (p + 1) .. Len(stack)
      BY <2>2
    <3>2. Range(stack[k].fins) = {}
      BY <1>3, <3>1
    <3> QED  BY <2>1, <3>2
  <2>4. k \in DOMAIN stack' /\ stack'[k] = stack[k]
    BY <1>0, <1>3, <2>2, <2>3
  <2>5. k \in DOMAIN stack' /\ d \in Range(stack'[k].fins)
    BY <2>1, <2>4
  <2> QED  BY <2>5 DEF OnStack
<1>5. ASSUME NEW x PROVE ~ Worked(x)
  <2> SUFFICES ASSUME NEW i \in Items, wpc[i] \in {"setup", "executing", "call"} PROVE FALSE
    BY DEF Worked
  <2>1. i \in ParallelSet
    BY <1>0, <1>1 DEF PlaceInv
  <2> QED  BY <1>1, <2>1
<1>6. SavedFins' = SavedFins
  BY <1>1 DEF SavedFins
<1>7. ASSUME NEW x \in alive PROVE Held(x)'
  <2>1. Held(x) /\ ~ Worked(x)
    BY <1>0, <1>1, <1>5 DEF HeldInv
  <2>2. x.def \in Range(deferred') <=> x.def \in Range(deferred)
    BY <1>1
  <2> QED  BY <1>2, <1>4, <1>6, <2>1, <2>2 DEF Held
<1>8. HeldInv'
  BY <1>1, <1>7 DEF HeldInv
<1>9. NoCloneError'
  BY <1>0, <1>1 DEF NoCloneError
<1> QED  BY <1>8, <1>9

LEMMA SeqTeardownHeld ==
  ASSUME SessionInv, ReleaseInv, SeqTeardown
  PROVE  HeldInv' /\ NoCloneError'
<1>0. HeldInv /\ NoCloneError /\ ClosingInv /\ ItemsInv /\ stack \in Seq(Entries)
  BY DEF SessionInv, StackInv, ReleaseInv
<1> PICK next : next = nextitem
  OBVIOUS
<1>1. /\ mpc = "seqteardown" /\ TeardownExact(stack, next)
  BY DEF SeqTeardown
<1>2. next \in Items \cup {None} /\ deferred = <<>> /\ Range(<<>>) = {}
  <2>1. mpc \in SeqPlaces /\ mpc # "deferred"
    BY <1>1 DEF SeqPlaces
  <2> QED  BY <1>0, <2>1, NextItemFacts DEF ClosingInv, Range
<1>3. ASSUME NEW x \in alive' PROVE Held(x)'
  <2>1. x \in alive
    BY <1>1 DEF TeardownExact
  <2>2. OnStack(x.def)
    BY <1>0, <1>1, <1>2, <2>1 DEF HeldInv, Held, Worked, SavingPlaces
  <2> QED  BY <1>0, <1>1, <1>2, <2>2, TeardownHeld DEF Held
<1>4. HeldInv'
  BY <1>3 DEF HeldInv
<1>5. cached_result' = Forget(cached_result, DefsAbove(stack, Kept(stack, next)))
  BY <1>1 DEF TeardownExact
<1> QED  BY <1>0, <1>4, <1>5, ForgetClones

(* _teardown_all: what is saved becomes due; it is not skipped, because    *)
(* teardown_exact has nothing to tear down that could raise.               *)
LEMMA TeardownSharedHeld ==
  ASSUME SessionInv, PopulatedInv, PathInv, ReleaseInv, QuietTeardown,
         NEW raises \in BOOLEAN, TeardownShared(raises)
  PROVE  HeldInv' /\ NoCloneError'
<1> PICK next, last : next = next_group_first /\ last = Last(groups[group_idx])
  OBVIOUS
<1>1. /\ mpc = "teardown_all" /\ TeardownExact(stack, next)
      /\ raises => "teardown" \in Faults /\ alive' # alive
      /\ deferred' = IF raises THEN <<>> ELSE AllCollectorFins
  BY DEF TeardownShared
<1>2. mpc \in GroupPlaces /\ mpc # "finished" /\ mpc # "workers" /\ mpc # "deferred"
  BY <1>1 DEF GroupPlaces
<1>0. /\ HeldInv /\ NoCloneError /\ ClosingInv /\ ItemsInv /\ stack \in Seq(Entries)
      /\ saved_collector_fins \in Seq(Entries) /\ group_idx \in DOMAIN groups
      /\ OnPath(stack, collectors[last]) /\ InParallel(group_idx)
      /\ deferred = <<>> /\ Range(<<>>) = {}
  <2>1. Range(<<>>) = {}
    BY DEF Range
  <2> QED  BY <1>1, <1>2, <2>1 DEF SessionInv, StackInv, ReleaseInv, ClosingInv, PathInv,
                                   PopulatedInv, ItemsInv, ControlInv
<1>3. /\ group_idx \in Nat /\ Len(groups) \in Nat /\ DOMAIN groups = 1 .. Len(groups)
      /\ last \in Items
      /\ group_idx + 1 \in DOMAIN groups =>
           next = groups[group_idx + 1][1] /\ next \in Items
           /\ 1 \in DOMAIN groups[group_idx + 1]
      /\ group_idx + 1 \notin DOMAIN groups => next = None
  BY <1>0, Position, GroupFacts, LastFacts DEF next_group_first
<1>4. next \in Items \cup {None}
  BY <1>3
<1>5. ~ raises
  <2> SUFFICES ASSUME raises PROVE FALSE
    OBVIOUS
  <2>1. "teardown" \in Faults /\ alive' # alive
    BY <1>1
  <2>2. /\ group_idx < Len(groups)
        /\ Range(collectors[last]) \subseteq Range(collectors[groups[group_idx + 1][1]])
    BY <1>0, <2>1 DEF QuietTeardown
  <2>3. group_idx + 1 \in DOMAIN groups
    BY <1>3, <2>2
  <2>4. next \in Items /\ Range(collectors[last]) \subseteq Range(collectors[next])
    BY <1>3, <2>2, <2>3
  <2>5. last # next
    <3>1. group_idx + 1 # group_idx /\ Len(groups[group_idx]) \in DOMAIN groups[group_idx]
          /\ last = groups[group_idx][Len(groups[group_idx])]
      BY <1>0, <1>3, LastFacts
    <3> QED  BY <1>0, <1>3, <2>3, <3>1, ItemsDiffer
  <2>6. OnPath(stack, listchain(last))
    <3>1. DOMAIN stack \subseteq Nat \ {0}
      BY <1>0
    <3> QED  BY <1>0, <1>3, <3>1, PathDistinct
  <2>7. ASSUME NEW k \in (Kept(stack, next) + 1) .. Len(stack) PROVE FALSE
    <3>1. stack[k].node \notin Range(Needed(next))
      BY <1>0, <1>3, <1>4, <2>5, <2>6, AbovePath
    <3>2. Kept(stack, next) \in 0 .. Len(stack)
      BY <1>0, <1>4, KeptFacts
    <3>3. k \in DOMAIN stack
      BY <1>0, <3>2
    <3>4. stack[k].node = collectors[last][k] /\ k \in DOMAIN collectors[last]
      BY <1>0, <1>3, <3>3, ChainFacts DEF OnPath
    <3>5. stack[k].node \in Range(collectors[last])
      BY <3>4 DEF Range
    <3>6. next # None
      BY <2>4, OptionsAssumption
    <3>7. Range(collectors[next]) \subseteq Range(Needed(next))
      BY <2>4, <3>6, ChainFacts DEF Needed
    <3> QED  BY <2>4, <3>1, <3>5, <3>7
  <2>8. DefsAbove(stack, Kept(stack, next)) = {}
    BY <2>7 DEF DefsAbove
  <2>9. alive' = alive \ FinishedBy({})
    BY <1>1, <2>8 DEF TeardownExact
  <2> QED  BY <2>1, <2>9 DEF FinishedBy
<1>6. Range(deferred') = SavedFins
  BY <1>0, <1>1, <1>5, SavedRange
<1>7. ASSUME NEW x \in alive' PROVE Held(x)'
  <2>1. x \in alive
    BY <1>1 DEF TeardownExact
  <2>2. OnStack(x.def) \/ x.def \in SavedFins
    BY <1>0, <1>2, <2>1 DEF HeldInv, Held, Worked
  <2>3. CASE OnStack(x.def)
    BY <1>0, <1>1, <1>4, <2>3, TeardownHeld DEF Held
  <2>4. CASE x.def \in SavedFins
    BY <1>6, <2>4 DEF Held
  <2> QED  BY <2>2, <2>3, <2>4
<1>8. HeldInv'
  BY <1>7 DEF HeldInv
<1>9. cached_result' = Forget(cached_result, DefsAbove(stack, Kept(stack, next)))
  BY <1>1 DEF TeardownExact
<1> QED  BY <1>0, <1>8, <1>9, ForgetClones

LEMMA FinalizerHeld ==
  ASSUME ReleaseInv, RunFinalizer
  PROVE  HeldInv' /\ NoCloneError'
<1> PICK last : last = Last(deferred)
  OBVIOUS
<1>0. HeldInv /\ NoCloneError /\ deferred \in Seq(Defs)
  BY DEF ReleaseInv, ClosingInv
<1>1. /\ mpc = "deferred" /\ deferred # <<>> /\ deferred' = Front(deferred)
      /\ cached_result' = Forget(cached_result, {last})
      /\ alive' = alive \ FinishedBy({last}) /\ UNCHANGED <<mpc, stack>>
  BY DEF RunFinalizer, control
<1>2. ASSUME NEW d \in Range(deferred), d # last PROVE d \in Range(deferred')
  <2>1. PICK k \in DOMAIN deferred : d = deferred[k]
    BY DEF Range
  <2>2. k # Len(deferred) /\ k \in 1 .. Len(deferred) /\ Len(deferred) \in Nat
    BY <1>0, <1>2, <2>1 DEF Last
  <2>3. k \in DOMAIN deferred' /\ deferred'[k] = deferred[k]
    BY <1>0, <1>1, <2>2 DEF Front
  <2> QED  BY <2>1, <2>3 DEF Range
<1>3. ASSUME NEW x \in alive' PROVE Held(x)'
  <2>1. x \in alive /\ x.def # last
    BY <1>1 DEF FinishedBy
  <2>2. OnStack(x.def) \/ x.def \in Range(deferred)
    BY <1>0, <1>1, <2>1 DEF HeldInv, Held, Worked, SavingPlaces
  <2>3. OnStack(x.def)' <=> OnStack(x.def)
    BY <1>1 DEF OnStack
  <2> QED  BY <1>2, <2>1, <2>2, <2>3 DEF Held
<1>4. HeldInv'
  BY <1>3 DEF HeldInv
<1> QED  BY <1>0, <1>1, <1>4, ForgetClones

(* The end of the session tears down what is on the stack, which is all.   *)
LEMMA FinishReleases ==
  ASSUME SessionInv, ReleaseInv, SessionFinish
  PROVE  alive' = {} /\ NoCloneError'
<1>0. HeldInv /\ ClosingInv /\ NoCloneError /\ stack \in Seq(Entries)
  BY DEF SessionInv, StackInv, ReleaseInv
<1>1. mpc \in {"raised", "returned", "error"} /\ TeardownExact(stack, None)
  BY DEF SessionFinish
<1>2. deferred = <<>> /\ Range(<<>>) = {}
  BY <1>0, <1>1 DEF ClosingInv, Range
<1>3. Kept(stack, None) = 0
  <2>1. Kept(stack, None) \in 0 .. Len(stack) /\ Kept(stack, None) <= Len(Needed(None))
    BY <1>0, KeptFacts
  <2>2. Len(Needed(None)) = 0
    BY DEF Needed
  <2> QED  BY <1>0, <2>1, <2>2
<1>4. ASSUME NEW x \in alive' PROVE FALSE
  <2>1. x \in alive /\ x.def \notin DefsAbove(stack, 0)
    BY <1>1, <1>3, <1>4 DEF TeardownExact, FinishedBy
  <2>2. OnStack(x.def)
    BY <1>0, <1>1, <1>2, <2>1 DEF HeldInv, Held, Worked, SavingPlaces
  <2>3. PICK k \in DOMAIN stack : x.def \in Range(stack[k].fins)
    BY <2>2 DEF OnStack
  <2>4. k \in (0 + 1) .. Len(stack)
    BY <1>0
  <2> QED  BY <2>1, <2>3, <2>4 DEF DefsAbove
<1>5. cached_result' = Forget(cached_result, DefsAbove(stack, Kept(stack, None)))
  BY <1>1 DEF TeardownExact
<1> QED  BY <1>0, <1>4, <1>5, ForgetClones

(* Main resolves no function fixture of an item that waits for a worker.   *)
LEMMA MainInTurn ==
  ASSUME SessionInv, SessionInv', ValuesInv, ReleaseInv, Proceed
  PROVE  InTurn'
<1>0. /\ InTurn /\ ItemsInv /\ PlaceInv /\ StackInv /\ ArgsInv /\ AheadInv
  BY DEF SessionInv, ValuesInv, ReleaseInv
<1>1. CASE mpc' \notin {"hook", "workers"}
  BY <1>1 DEF InTurn
<1>2. CASE EnterGroup
  <2>1. mpc = "loop" /\ UNCHANGED parallel_items
    BY <1>2 DEF EnterGroup, prepared
  <2>2. ParallelSet' = {}
    BY <1>0, <2>1 DEF PlaceInv, ParallelSet, Range
  <2> QED  BY <2>2 DEF InTurn
<1>3. CASE Transition \/ PushItems
  <2>1. mpc = "hook" /\ UNCHANGED <<wpc, funcargs, parallel_items>>
    BY <1>3 DEF Transition, PushItems, tests, prepared
  <2>2. ParallelSet' = ParallelSet
    BY <2>1 DEF ParallelSet
  <2> QED  BY <1>0, <2>1, <2>2 DEF InTurn
<1>4. CASE HookPasses \/ HookFails \/ HookSkips
  <2>1. HookEntered /\ mpc = "hook"
    BY <1>4 DEF HookPasses, HookFails, HookSkips, HookEntered
  <2>2. item \in Items /\ group_idx \in DOMAIN groups /\ idx \in DOMAIN groups[group_idx]
    BY <1>0, <2>1, HookPath
  <2>3. wpc[item] = "out" /\ \A g \in Fixtures : funcargs[item][g] = None
    BY <1>0, <2>1, <2>2, Position DEF AheadInv, ArgsInv, item
  <2>4. /\ \A j \in Items \ {item} : funcargs'[j] = funcargs[j]
        /\ \A g \in Fixtures : scope[g] = "function" => funcargs'[item][g] = None
    <3>1. CASE HookSkips
      BY <2>3, <3>1 DEF HookSkips
    <3>2. CASE HookPasses \/ HookFails
      BY <2>1, <2>3, <3>2, SetupsHeld
    <3> QED  BY <1>4, <3>1, <3>2
  <2>5. wpc \in [Items -> ItemPlaces] /\ parallel_items \in Seq(Items)
    BY <1>0 DEF ItemsInv, ControlInv
  <2>6. \A j \in Items \ {item} : wpc'[j] = wpc[j]
    BY <1>4, <2>5 DEF HookPasses, HookFails, HookSkips
  <2>7. ParallelSet' \subseteq ParallelSet \cup {item} /\ ParallelSet \subseteq Items
    <3>1. parallel_items' = parallel_items \/ parallel_items' = Append(parallel_items, item)
      BY <1>4 DEF HookPasses, HookFails, HookSkips, prepared
    <3> QED  BY <2>2, <2>5, <3>1 DEF ParallelSet, Range
  <2>8. ASSUME NEW j \in ParallelSet', wpc'[j] \in {"queued", "setup", "executing"},
               NEW g \in Fixtures, scope[g] = "function", funcargs'[j][g] # None
        PROVE  \E n \in DOMAIN fixturenames[j] :
                 /\ fixturenames[j][n] = g
                 /\ \A k \in 1 .. (n - 1) : scope[fixturenames[j][k]] = "function" =>
                      funcargs'[j][fixturenames[j][k]] # None
    <3>1. j # item /\ j \in ParallelSet /\ j \in Items
      BY <2>4, <2>7, <2>8
    <3>2. wpc'[j] = wpc[j] /\ funcargs'[j] = funcargs[j]
      BY <2>4, <2>6, <3>1
    <3> QED  BY <1>0, <2>1, <2>8, <3>1, <3>2 DEF InTurn
  <2> QED  BY <2>8 DEF InTurn
<1>5. \/ mpc' \notin {"hook", "workers"} \/ EnterGroup \/ Transition \/ PushItems
      \/ HookPasses \/ HookFails \/ HookSkips
  BY DEF Proceed, RaiseFailed, ReturnTrue, SessionFinish, Sequential, SeqSetup, SeqSetupFails,
         SeqSkip, SeqCall, SeqTeardown, NextGroup, Prepare, Close, PopItems, RunFinalizer,
         CloseGroup, TeardownShared, control
<1> QED  BY <1>1, <1>2, <1>3, <1>4, <1>5

LEMMA ReleaseStep ==
  ASSUME SessionInv, ValuesInv, PopulatedInv, PathInv, ReleaseInv,
         UniformModules, RaisesFirst, QuietTeardown, [Next]_vars
  PROVE  ReleaseInv'
<1>0. /\ SessionInv' /\ ClosingInv' /\ HeldInv /\ NoCloneError /\ ClosingInv /\ InTurn
      /\ AllReleased
  BY SessionStep, ClosingStep DEF ReleaseInv
<1>1. CASE UNCHANGED Rest
  <2>1. UNCHANGED <<mpc, stack, alive, cached_result, saved_collector_fins, deferred, wpc, funcargs,
                    parallel_items>>
    BY <1>1 DEF Rest, control, caches, prepared
  <2>2. \A x : Held(x)' <=> Held(x)
    BY <2>1 DEF Held, OnStack, SavedFins, Worked
  <2>3. HeldInv' /\ NoCloneError' /\ AllReleased'
    BY <1>0, <2>1, <2>2 DEF HeldInv, NoCloneError, AllReleased
  <2>4. InTurn'
    BY <1>0, <2>1 DEF InTurn, ParallelSet
  <2> QED  BY <1>0, <2>3, <2>4 DEF ReleaseInv
<1>2. CASE \E i \in Items : Worker(i)
  <2>1. PICK i \in Items : Worker(i)
    BY <1>2
  <2>2. HeldInv' /\ NoCloneError' /\ InTurn'
    BY <2>1, WorkerHeld
  <2>3. mpc' = "workers"
    <3>1. mpc = "workers" /\ UNCHANGED control
      BY <2>1, WorkerShared
    <3> QED  BY <3>1 DEF control
  <2> QED  BY <1>0, <2>2, <2>3 DEF ReleaseInv, AllReleased
<1>3. CASE SessionFinish
  <2>1. mpc' = "finished" /\ alive' = {} /\ NoCloneError'
    BY <1>3, FinishReleases DEF SessionFinish
  <2> QED  BY <1>0, <2>1 DEF ReleaseInv, HeldInv, InTurn, AllReleased
<1>4. ASSUME Proceed, ~ SessionFinish PROVE ReleaseInv'
  <2>1. InTurn'
    BY <1>0, <1>4, MainInTurn
  <2>2. mpc' # "finished"
    BY <1>4 DEF Proceed, EnterGroup, RaiseFailed, ReturnTrue, Sequential, SeqSetup, SeqSetupFails,
             SeqSkip, SeqCall, SeqTeardown, NextGroup, Prepare, Transition, HookPasses, HookFails,
             HookSkips, HookEntered, PushItems, Close, PopItems, RunFinalizer, CloseGroup,
             TeardownShared, control
  <2>3. CASE EnterGroup \/ RaiseFailed \/ ReturnTrue \/ CloseGroup
    <3>1. /\ mpc \in {"loop", "deferred"}
          /\ (mpc = "deferred" => deferred = <<>>)
          /\ UNCHANGED <<stack, cached_result, alive, deferred>>
      BY <2>3 DEF EnterGroup, RaiseFailed, ReturnTrue, CloseGroup, caches
    <3>2. mpc \notin {"finished", "workers"} /\ mpc \notin SavingPlaces
      BY <3>1 DEF SavingPlaces
    <3>3. \A d : OnStack(d)' <=> OnStack(d)
      BY <3>1 DEF OnStack
    <3>4. ASSUME NEW x \in alive PROVE Held(x)'
      <4>1. Held(x) /\ ~ Worked(x)
        BY <1>0, <3>2 DEF HeldInv, Worked
      <4>2. x.def \in Range(deferred') <=> x.def \in Range(deferred)
        BY <3>1
      <4> QED  BY <3>2, <3>3, <4>1, <4>2 DEF Held
    <3>5. HeldInv' /\ NoCloneError'
      BY <1>0, <3>1, <3>4 DEF HeldInv, NoCloneError
    <3> QED  BY <1>0, <2>1, <2>2, <3>5 DEF ReleaseInv, AllReleased
  <2>4. CASE SeqSkip \/ HookSkips \/ \E outcome \in {"passed", "failed"} : SeqCall(outcome)
    <3>1. /\ mpc \in {"seq", "seqcall", "hook"}
          /\ (mpc = "hook" => mpc' = "hook")
          /\ UNCHANGED <<stack, cached_result, alive, saved_collector_fins, deferred>>
      BY <2>4 DEF SeqSkip, HookSkips, HookEntered, SeqCall, caches, prepared
    <3>2. HeldInv' /\ NoCloneError'
      BY <1>0, <3>1, MainHeld DEF SavingPlaces
    <3> QED  BY <1>0, <2>1, <2>2, <3>2 DEF ReleaseInv, AllReleased
  <2>5. CASE PushItems
    <3> PICK extra : extra = [k \in DOMAIN parallel_items |-> [node |-> parallel_items[k], fins |-> <<>>]]
      OBVIOUS
    <3>1. /\ mpc = "hook" /\ mpc' = "workers" /\ stack' = stack \o extra
          /\ UNCHANGED <<cached_result, alive, saved_collector_fins, deferred>>
      BY <2>5 DEF PushItems, prepared
    <3>2. stack \in Seq(Entries) /\ parallel_items \in Seq(Items)
      BY DEF SessionInv, StackInv, ItemsInv, ControlInv
    <3>3. extra \in Seq(Entries)
      <4>1. Len(parallel_items) \in Nat /\ DOMAIN parallel_items = 1 .. Len(parallel_items)
        BY <3>2
      <4>2. \A k \in DOMAIN parallel_items : [node |-> parallel_items[k], fins |-> <<>>] \in Entries
        BY <3>2 DEF Entries
      <4>3. extra \in [1 .. Len(parallel_items) -> Entries]
        BY <4>1, <4>2
      <4> QED  BY <4>1, <4>3, FunctionIsSeq
    <3>4. ASSUME NEW d, OnStack(d) PROVE OnStack(d)'
      <4>1. PICK k \in DOMAIN stack : d \in Range(stack[k].fins)
        BY <3>4 DEF OnStack
      <4>2. k \in 1 .. Len(stack) /\ Len(stack) \in Nat /\ Len(extra) \in Nat
        BY <3>2, <3>3
      <4>3. k \in DOMAIN stack' /\ stack'[k] = stack[k]
        <5>1. k \in 1 .. (Len(stack) + Len(extra)) /\ k <= Len(stack)
          BY <4>2
        <5> QED  BY <3>1, <3>2, <3>3, <5>1, ConcatFacts
      <4>4. k \in DOMAIN stack' /\ d \in Range(stack'[k].fins)
        BY <4>1, <4>3
      <4> QED  BY <4>4 DEF OnStack
    <3>5. SavedFins' = SavedFins /\ mpc' \in SavingPlaces
      BY <3>1 DEF SavedFins, SavingPlaces
    <3>6. ASSUME NEW x \in alive PROVE Held(x)'
      <4>1. Held(x) /\ ~ Worked(x)
        BY <1>0, <3>1 DEF HeldInv, Worked
      <4>2. x.def \in Range(deferred') <=> x.def \in Range(deferred)
        BY <3>1
      <4> QED  BY <3>4, <3>5, <4>1, <4>2 DEF Held
    <3>7. HeldInv' /\ NoCloneError'
      BY <1>0, <3>1, <3>6 DEF HeldInv, NoCloneError
    <3> QED  BY <1>0, <2>1, <2>2, <3>7 DEF ReleaseInv, AllReleased
  <2>6. CASE SeqSetup \/ SeqSetupFails \/ HookPasses \/ HookFails
    BY <1>0, <2>1, <2>2, <2>6, SetupsHeld DEF ReleaseInv, AllReleased
  <2>7. CASE SeqTeardown \/ Transition \/ PopItems \/ RunFinalizer
             \/ \E raises \in BOOLEAN : TeardownShared(raises)
    <3>1. HeldInv' /\ NoCloneError'
      BY <2>7, SeqTeardownHeld, TransitionHeld, PopHeld, FinalizerHeld, TeardownSharedHeld
    <3> QED  BY <1>0, <2>1, <2>2, <3>1 DEF ReleaseInv, AllReleased
  <2> QED  BY <1>4, <2>3, <2>4, <2>5, <2>6, <2>7 DEF Proceed, Sequential, Prepare, Close
<1> QED  BY <1>1, <1>2, <1>3, <1>4, Steps

(* When the session is over nothing that was set up is left behind, if the *)
(* tests of a module use the same shared fixtures, a test has no function  *)
(* fixture set up when another one raises, and finalizers that may raise   *)
(* have nothing to do in _teardown_all.                                    *)
THEOREM NothingLeftBehind ==
  ASSUME UniformModules, RaisesFirst, QuietTeardown
  PROVE  Spec => []AllReleased
<1>1. Init => PopulatedInv /\ PathInv /\ ReleaseInv
  BY PopulatedInit, PathInit, ReleaseInit
<1>2. SessionInv /\ ValuesInv /\ PopulatedInv /\ PathInv /\ ReleaseInv /\ [Next]_vars
        => PopulatedInv' /\ PathInv' /\ ReleaseInv'
  BY PopulatedStep, PathStep, ReleaseStep
<1>3. ReleaseInv => AllReleased
  BY DEF ReleaseInv
<1> QED  BY <1>1, <1>2, <1>3, ValuesAlways, PTL DEF Spec
=============================================================================

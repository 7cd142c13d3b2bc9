------------------------------- MODULE RunAll -------------------------------
(***************************************************************************)
(* The life of fixtures over a whole session: ParallelRunner.run_all goes  *)
(* through the groups; a group without a key runs item by item with        *)
(* pytest's own protocol; a parallel group goes through the setup hooks    *)
(* one item after the other (phase 1 and 2, which resolves the shared      *)
(* fixtures), is set up, called and torn down by workers (phase 3), and is *)
(* closed by _teardown_all.                                                *)
(*                                                                         *)
(* SetupState.stack, FixtureDef.cached_result and their finalizers are     *)
(* pytest's; they are modelled as the code in src/ drives them.  How the   *)
(* items travel between the threads is WorkerPool's subject: here at most  *)
(* `nthreads' items are between their setup and their teardown.            *)
(***************************************************************************)
EXTENDS Naturals, Sequences, FiniteSets, SequencesExt

CONSTANTS Items,
          Nodes,         \* the collectors: session, packages, modules, classes
          Fixtures,      \* the fixture definitions
          groups,        \* what build_groups returned: sequences of items
          with_key,      \* the indices of the groups whose key is not None
          collectors,    \* [Items -> Seq(Nodes)]: listchain without the item
          module,        \* [Items -> Nodes]
          kind,          \* [Nodes -> scope of a fixture that lives on it]
          scope,         \* [Fixtures -> scope]
          fixturenames,  \* [Items -> Seq(Fixtures)], in resolution order
          nthreads,
          maxfail,       \* --maxfail, 0 when it is not given
          Faults,        \* what may go wrong, a subset of FaultKinds
          raising,       \* the fixtures whose setup may raise
          None, Error

FaultKinds == {"skip",      \* a setup hook of pytest skips the item
               "fail",      \* the body of a test fails
               "teardown"}  \* a finalizer raises

(* The members of s that are in `chosen', in the order of s.               *)
Among(s, chosen) ==
  LET places == {k \in DOMAIN s : s[k] \in chosen}
      rank(k) == Cardinality({n \in places : n <= k})
  IN  [j \in 1 .. Cardinality(places) |-> s[CHOOSE k \in places : rank(k) = j]]

listchain(i) == Append(collectors[i], i)

(* The node a fixture of item i lives on: get_scope_node(item, scope).     *)
NodeFor(f, i) ==
  IF scope[f] = "function" THEN i
  ELSE CHOOSE n \in Range(collectors[i]) : kind[n] = scope[f]

(* build_groups puts every item of the session into one group, once.       *)
ASSUME GroupsAssumption ==
  /\ groups \in Seq(Seq(Items) \ {<<>>}) /\ with_key \subseteq DOMAIN groups
  /\ \A i \in Items : \E g \in DOMAIN groups : i \in Range(groups[g])
  /\ \A g, h \in DOMAIN groups :
       \A k \in DOMAIN groups[g], n \in DOMAIN groups[h] :
         groups[g][k] = groups[h][n] => g = h /\ k = n

(* The collectors are a tree.                                              *)
ASSUME CollectorsAssumption ==
  /\ collectors \in [Items -> Seq(Nodes)] /\ Items \cap Nodes = {}
  /\ \A i \in Items : module[i] \in Range(collectors[i])
  /\ \A i, j \in Items :
       \A k \in DOMAIN collectors[i], n \in DOMAIN collectors[j] :
         collectors[i][k] = collectors[j][n]
           => k = n /\ \A m \in 1 .. k : collectors[i][m] = collectors[j][m]

ASSUME FixturesAssumption ==
  /\ fixturenames \in [Items -> Seq(Fixtures)] /\ raising \subseteq Fixtures
  /\ \A i \in Items : \A f \in Range(fixturenames[i]) : scope[f] # "function"
       => \E n \in Range(collectors[i]) : kind[n] = scope[f]

ASSUME OptionsAssumption ==
  /\ nthreads \in Nat \ {0} /\ maxfail \in Nat /\ Faults \subseteq FaultKinds
  /\ None # Error /\ {None, Error} \cap (Items \cup Nodes \cup Fixtures) = {}

VARIABLES
  mpc, group_idx, idx,       \* the main thread: its place, group and item
  stack,                     \* SetupState.stack: <<[node, fins], ...>>
  cached_result,             \* [Defs -> Instances \cup {None, Error}]
  alive,                     \* the instances set up and not yet torn down
  created,                   \* the instances ever set up
  cloned,                    \* items whose function FixtureDefs are cloned
  shared_populated_modules, parallel_items, saved_collector_fins,
  deferred,                  \* what is left of all_collector_fins
  wpc, funcargs,             \* an item in its thread: its place, its values
  ran,                       \* items whose body was entered
  reported,                  \* items whose failure pytest has counted
  testsfailed

control == <<mpc, group_idx, idx>>
caches == <<stack, cached_result, alive, created>>
prepared == <<cloned, shared_populated_modules, parallel_items,
              saved_collector_fins>>
tests == <<wpc, funcargs, ran, reported, testsfailed>>
vars == <<control, caches, prepared, deferred, tests>>

(* A FixtureDef is shared by all items, or the clone of one item.          *)
Def(f, i) == IF scope[f] = "function" /\ i \in cloned THEN <<f, i>> ELSE <<f>>

Defs == {<<f>> : f \in Fixtures} \cup
        {<<f, i>> : f \in {g \in Fixtures : scope[g] = "function"}, i \in Items}

(* A value a FixtureDef has produced: which, on which node, for which item.*)
Instances == [def : Defs, node : Nodes \cup Items, by : Items]

ASSUME ValuesAssumption == None \notin Instances /\ Error \notin Instances

StackNodes == {stack[k].node : k \in DOMAIN stack}

shouldfail == maxfail > 0 /\ testsfailed >= maxfail

InParallel(g) == /\ g \in with_key
                 /\ Len(groups[g]) > 1
                 /\ nthreads > 1

item == groups[group_idx][idx]

next_group_first == IF group_idx < Len(groups)
                    THEN groups[group_idx + 1][1] ELSE None

(* Mutant: the teardown of an item is told that the item comes again.      *)
NextIsItself == item

nextitem == IF idx < Len(groups[group_idx])
            THEN groups[group_idx][idx + 1] ELSE next_group_first

-----------------------------------------------------------------------------
(* Init: the plugin enters pytest_runtestloop with an empty stack.         *)

Init ==
  /\ mpc = "loop" /\ group_idx = 1 /\ idx = 1
  /\ stack = <<>>
  /\ cached_result = [d \in Defs |-> None]
  /\ alive = {} /\ created = {}
  /\ cloned = {}
  /\ shared_populated_modules = {}
  /\ parallel_items = <<>>
  /\ saved_collector_fins = <<>>
  /\ deferred = <<>>
  /\ wpc = [i \in Items |-> "out"]
  /\ funcargs = [i \in Items |-> [f \in Fixtures |-> None]]
  /\ ran = {}
  /\ reported = {}
  /\ testsfailed = 0

-----------------------------------------------------------------------------
(* What pytest does with its stack and its FixtureDefs.                    *)

(* FixtureDef.finish of each definition of a set: the teardowns of all it  *)
(* has produced are run and its cache is dropped.                          *)
FinishedBy(defs) == {x \in alive : x.def \in defs}
Forget(cache, defs) == [d \in Defs |-> IF d \in defs THEN None ELSE cache[d]]

(* SetupState.teardown_exact(next): entries are popped until the stack is  *)
(* a prefix of next's chain.                                               *)
Needed(next) == IF next = None THEN <<>> ELSE listchain(next)

Kept(st, next) ==
  CHOOSE k \in 0 .. Len(st) :
    LET agrees(n) == /\ n <= Len(Needed(next))
                     /\ \A j \in 1 .. n : st[j].node = Needed(next)[j]
    IN  agrees(k) /\ \A m \in (k + 1) .. Len(st) : ~agrees(m)

DefsAbove(st, k) == UNION {Range(st[j].fins) : j \in (k + 1) .. Len(st)}

TeardownExact(st, next) ==
  LET k == Kept(st, next)
  IN  /\ stack' = SubSeq(st, 1, k)
      /\ alive' = alive \ FinishedBy(DefsAbove(st, k))
      /\ cached_result' = Forget(cached_result, DefsAbove(st, k))
      /\ UNCHANGED created

(* SetupState.setup(item) pushes the collectors that are missing.          *)
Pushed(st, i) ==
  st \o [k \in 1 .. (Len(collectors[i]) - Len(st)) |->
           [node |-> collectors[i][Len(st) + k], fins |-> <<>>]]

(* FixtureDef.execute of the definitions in `wanted', one after the other  *)
(* and with nobody else running: those without a cached value are set up,  *)
(* and their finalizer is added to the node they live on.  One may raise,  *)
(* anew or because its cached result is an exception; `bad' is empty or    *)
(* holds that one, whose exception is cached and finalizer added too.      *)
Missing(i, names) == {f \in Range(names) : cached_result[Def(f, i)] = None}

Value(f, i) == [def |-> Def(f, i), node |-> NodeFor(f, i), by |-> i]

FinsOf(i, names, n) ==
  LET onNode == Among(names, {f \in Missing(i, names) : NodeFor(f, i) = n})
  IN  [k \in DOMAIN onNode |-> Def(onNode[k], i)]

Execution(st, i, wanted, bad) ==
  LET new == Missing(i, wanted)
  IN  /\ stack' = [k \in DOMAIN st |->
                     [st[k] EXCEPT !.fins = @ \o
                        FinsOf(i, wanted \o bad, st[k].node)]]
      /\ cached_result' = [d \in Defs |->
                             LET f == d[1]
                             IN  CASE d = Def(f, i) /\ f \in new -> Value(f, i)
                                   [] d = Def(f, i) /\ f \in Range(bad) \ new -> Error
                                   [] OTHER -> cached_result[d]]
      /\ alive' = alive \cup {Value(f, i) : f \in new}
      /\ created' = created \cup {Value(f, i) : f \in new}
      /\ funcargs' = [funcargs EXCEPT ![i] =
                        [f \in Fixtures |-> IF f \in Range(wanted)
                                            THEN cached_result'[Def(f, i)]
                                            ELSE @[f]]]

Sound(i, wanted) == \A f \in Range(wanted) : cached_result[Def(f, i)] # Error

Raises(f, i) == \/ cached_result[Def(f, i)] = Error
                \/ cached_result[Def(f, i)] = None /\ f \in raising

Resolve(st, i, wanted) == Sound(i, wanted) /\ Execution(st, i, wanted, <<>>)

ResolveFails(st, i, wanted) ==
  \E n \in DOMAIN wanted :
    /\ Sound(i, SubSeq(wanted, 1, n - 1)) /\ Raises(wanted[n], i)
    /\ Execution(st, i, SubSeq(wanted, 1, n - 1), <<wanted[n]>>)

-----------------------------------------------------------------------------
(* run_all: the loop over the groups.                                      *)

(* Mutant: shouldfail is looked at before groups that run item by item.    *)
EnterAnyway ==
  /\ mpc = "loop" /\ group_idx <= Len(groups)
  /\ InParallel(group_idx) \/ ~shouldfail
  /\ mpc' = IF InParallel(group_idx) THEN "hook" ELSE "seq"
  /\ UNCHANGED <<group_idx, idx, caches, prepared, deferred, tests>>

EnterGroup ==
  /\ mpc = "loop" /\ group_idx <= Len(groups) /\ ~shouldfail
  /\ mpc' = IF InParallel(group_idx) THEN "hook" ELSE "seq"
  /\ UNCHANGED <<group_idx, idx, caches, prepared, deferred, tests>>

(* raise session.Failed(session.shouldfail)                                *)
RaiseFailed ==
  /\ mpc = "loop" /\ group_idx <= Len(groups) /\ shouldfail
  /\ mpc' = "raised"
  /\ UNCHANGED <<group_idx, idx, caches, prepared, deferred, tests>>

ReturnTrue ==
  /\ mpc = "loop" /\ group_idx > Len(groups)
  /\ mpc' = "returned"
  /\ UNCHANGED <<group_idx, idx, caches, prepared, deferred, tests>>

(* pytest_sessionfinish of pytest's runner.                                *)
SessionFinish ==
  /\ mpc \in {"raised", "returned", "error"}
  /\ TeardownExact(stack, None)
  /\ mpc' = "finished"
  /\ UNCHANGED <<group_idx, idx, prepared, deferred, tests>>

NextGroup == /\ mpc' = "loop"
             /\ group_idx' = group_idx + 1
             /\ idx' = 1

-----------------------------------------------------------------------------
(* _run_sequential and _run_sequential_nodeid: setup, call, teardown.      *)

SeqSetup ==
  /\ mpc = "seq"
  /\ Resolve(Append(Pushed(stack, item), [node |-> item, fins |-> <<>>]),
             item, fixturenames[item])
  /\ wpc' = [wpc EXCEPT ![item] = "call"]
  /\ ran' = ran \cup {item}
  /\ mpc' = "seqcall"
  /\ UNCHANGED <<group_idx, idx, prepared, deferred, reported, testsfailed>>

(* The item stays on the stack for its teardown.                           *)
SeqSetupFails ==
  /\ mpc = "seq"
  /\ ResolveFails(Append(Pushed(stack, item), [node |-> item, fins |-> <<>>]),
                  item, fixturenames[item])
  /\ wpc' = [wpc EXCEPT ![item] = "errored"]
  /\ reported' = reported \cup {item}
  /\ testsfailed' = testsfailed + 1
  /\ mpc' = "seqteardown"
  /\ UNCHANGED <<group_idx, idx, prepared, deferred, ran>>

SeqSkip ==
  /\ mpc = "seq" /\ "skip" \in Faults
  /\ wpc' = [wpc EXCEPT ![item] = "skipped"]
  /\ mpc' = "seqteardown"
  /\ UNCHANGED <<group_idx, idx, caches, prepared, deferred, funcargs, ran,
                 reported, testsfailed>>

SeqCall(outcome) ==
  /\ mpc = "seqcall"
  /\ outcome = "failed" => "fail" \in Faults
  /\ wpc' = [wpc EXCEPT ![item] = outcome]
  /\ IF outcome = "failed"
     THEN reported' = reported \cup {item} /\ testsfailed' = testsfailed + 1
     ELSE UNCHANGED <<reported, testsfailed>>
  /\ mpc' = "seqteardown"
  /\ UNCHANGED <<group_idx, idx, caches, prepared, deferred, funcargs, ran>>

(* Mutant: the loop over the items does not advance.                       *)
SeqRepeats ==
  /\ mpc = "seqteardown"
  /\ TeardownExact(stack, nextitem)
  /\ funcargs' = [funcargs EXCEPT ![item] = [f \in Fixtures |-> None]]
  /\ IF idx < Len(groups[group_idx])
     THEN mpc' = "seq" /\ UNCHANGED <<group_idx, idx>>
     ELSE NextGroup
  /\ UNCHANGED <<prepared, deferred, wpc, ran, reported, testsfailed>>

(* A finalizer that raises makes the report of the teardown a failed one.  *)
SeqTeardown ==
  /\ mpc = "seqteardown"
  /\ TeardownExact(stack, nextitem)
  /\ funcargs' = [funcargs EXCEPT ![item] = [f \in Fixtures |-> None]]
  /\ IF idx < Len(groups[group_idx])
     THEN mpc' = "seq" /\ idx' = idx + 1 /\ UNCHANGED group_idx
     ELSE NextGroup
  /\ \/ UNCHANGED testsfailed
     \/ "teardown" \in Faults /\ alive' # alive /\ testsfailed' = testsfailed + 1
  /\ UNCHANGED <<prepared, deferred, wpc, ran, reported>>

-----------------------------------------------------------------------------
(* Phases 1 and 2 of _run_parallel.                                        *)

Stale(k) == stack[k].node \notin Range(listchain(item))

(* A group of a package crosses modules: FixtureManager                    *)
(* .save_collector_finalizers takes the finalizers of the collectors that  *)
(* teardown_exact is about to pop, so that their fixtures stay alive.      *)
SaveCollectorFinalizers ==
  saved_collector_fins' = saved_collector_fins \o
    Among(stack, {stack[k] : k \in {n \in DOMAIN stack : Stale(n)}})

(* Mutant: the finalizers are not saved, teardown_exact runs them.         *)
TransitionTearsDown ==
  /\ mpc = "hook" /\ idx <= Len(groups[group_idx])
  /\ \E k \in DOMAIN stack : Stale(k)
  /\ TeardownExact(stack, item)
  /\ UNCHANGED <<control, prepared, deferred, tests>>

Transition ==
  /\ mpc = "hook" /\ idx <= Len(groups[group_idx])
  /\ \E k \in DOMAIN stack : Stale(k)
  /\ SaveCollectorFinalizers
  /\ TeardownExact([k \in DOMAIN stack |->
                      IF Stale(k) THEN [stack[k] EXCEPT !.fins = <<>>]
                      ELSE stack[k]], item)
  /\ UNCHANGED <<control, cloned, shared_populated_modules, parallel_items,
                 deferred, tests>>

HookEntered == /\ mpc = "hook" /\ idx <= Len(groups[group_idx])
               /\ \A k \in DOMAIN stack : ~Stale(k)
               /\ idx' = idx + 1
               /\ UNCHANGED <<mpc, group_idx, deferred, ran, reported,
                 testsfailed>>

(* FixtureManager.populate_shared_fixtures for the first item of a module  *)
(* that passes its hook, nothing for the others; the item is popped from   *)
(* the stack, its function FixtureDefs are cloned.                         *)
SharedNames(i) == Among(fixturenames[i], {f \in Fixtures : scope[f] # "function"})

(* Mutant: shared fixtures are left to the workers.                        *)
PopulateNothing(i) == <<>>

ToPopulate(i) == IF module[i] \in shared_populated_modules THEN <<>>
                 ELSE SharedNames(i)

(* Mutant: all items use the function FixtureDefs of the collection.       *)
NoClone(i) == cloned' = cloned

Clone(i) == cloned' = cloned \cup {i}

(* Mutant: the item stays on the stack after its hook.                     *)
HookKeepsItem ==
  /\ HookEntered
  /\ Resolve(Append(Pushed(stack, item), [node |-> item, fins |-> <<>>]), item,
             ToPopulate(item))
  /\ shared_populated_modules' = shared_populated_modules \cup {module[item]}
  /\ Clone(item)
  /\ parallel_items' = Append(parallel_items, item)
  /\ wpc' = [wpc EXCEPT ![item] = "queued"]
  /\ UNCHANGED saved_collector_fins

HookPasses ==
  /\ HookEntered
  /\ Resolve(Pushed(stack, item), item, ToPopulate(item))
  /\ shared_populated_modules' = shared_populated_modules \cup {module[item]}
  /\ Clone(item)
  /\ parallel_items' = Append(parallel_items, item)
  /\ wpc' = [wpc EXCEPT ![item] = "queued"]
  /\ UNCHANGED saved_collector_fins

(* populate_shared_fixtures raises half way: the item gets its report when *)
(* the group is over, the next one of its module tries again.              *)
HookFails ==
  /\ HookEntered
  /\ ResolveFails(Pushed(stack, item), item, ToPopulate(item))
  /\ wpc' = [wpc EXCEPT ![item] = "errored"]
  /\ UNCHANGED prepared

HookSkips ==
  /\ HookEntered /\ "skip" \in Faults
  /\ wpc' = [wpc EXCEPT ![item] = "skipped"]
  /\ UNCHANGED <<caches, prepared, funcargs>>

(* Mutant: the last item of the group gets no hook.                        *)
PushEarly ==
  /\ mpc = "hook" /\ idx >= Len(groups[group_idx])
  /\ stack' = stack \o [k \in DOMAIN parallel_items |->
                          [node |-> parallel_items[k], fins |-> <<>>]]
  /\ mpc' = "workers"
  /\ UNCHANGED <<group_idx, idx, cached_result, alive, created, prepared,
                 deferred, tests>>

(* The parallel items are pushed so that addfinalizer finds them.          *)
PushItems ==
  /\ mpc = "hook" /\ idx > Len(groups[group_idx])
  /\ stack' = stack \o [k \in DOMAIN parallel_items |->
                          [node |-> parallel_items[k], fins |-> <<>>]]
  /\ mpc' = "workers"
  /\ UNCHANGED <<group_idx, idx, cached_result, alive, created, prepared,
                 deferred, tests>>

-----------------------------------------------------------------------------
(* Phase 3: _do_worker_body, in the order in which the queue hands out the *)
(* items and with at most nthreads of them at a time.                      *)

InThread == {i \in Items : wpc[i] \in {"setup", "executing", "call"}}
ParallelSet == Range(parallel_items)

Take(i) ==
  /\ mpc = "workers" /\ i \in ParallelSet /\ wpc[i] = "queued"
  /\ \A k, n \in DOMAIN parallel_items :
       k < n /\ parallel_items[n] = i => wpc[parallel_items[k]] # "queued"
  /\ Cardinality(InThread) < nthreads
  /\ wpc' = [wpc EXCEPT ![i] = "setup"]
  /\ UNCHANGED <<control, caches, prepared, deferred, funcargs, ran,
                 reported, testsfailed>>

(* item.setup() -> _fillfixtures: the next name without a value is looked  *)
(* up.  The test of cached_result and the execution of the fixture         *)
(* function are two steps: FixtureDef.execute takes no lock.               *)
Unresolved(i) ==
  {k \in DOMAIN fixturenames[i] : funcargs[i][fixturenames[i][k]] = None}

NextName(i) == fixturenames[i][CHOOSE k \in Unresolved(i) :
                                 \A n \in Unresolved(i) : k <= n]

FunctionDefs(i) == {Def(f, i) : f \in {g \in Range(fixturenames[i]) :
                                         scope[g] = "function"}}

(* A cached exception is raised again; clear_function_fixture_caches       *)
(* follows every setup that fails.                                         *)
CacheHit(i) ==
  /\ mpc = "workers" /\ wpc[i] = "setup" /\ Unresolved(i) # {}
  /\ LET f == NextName(i)
         hit == cached_result[Def(f, i)]
     IN  /\ hit # None
         /\ IF hit = Error
            THEN /\ cached_result' = Forget(cached_result, FunctionDefs(i))
                 /\ wpc' = [wpc EXCEPT ![i] = "errored"] /\ UNCHANGED funcargs
            ELSE /\ funcargs' = [funcargs EXCEPT ![i][f] = hit]
                 /\ UNCHANGED <<cached_result, wpc>>
  /\ UNCHANGED <<control, stack, alive, created, prepared, deferred, ran, reported,
                 testsfailed>>

CacheMiss(i) ==
  /\ mpc = "workers" /\ wpc[i] = "setup" /\ Unresolved(i) # {}
  /\ cached_result[Def(NextName(i), i)] = None
  /\ wpc' = [wpc EXCEPT ![i] = "executing"]
  /\ UNCHANGED <<control, caches, prepared, deferred, funcargs, ran,
                 reported, testsfailed>>

(* The fixture function returns: its value is cached and its finalizer is  *)
(* added to its node, which must be on the stack; the item's own list      *)
(* replaces the node of a function fixture.  An AssertionError there fails *)
(* the setup.                                                              *)
Execute(i) ==
  /\ mpc = "workers" /\ wpc[i] = "executing"
  /\ LET f == NextName(i)
         v == Value(f, i)
         done == scope[f] = "function" \/ v.node \in StackNodes
         filled == [cached_result EXCEPT ![v.def] = v]
     IN  /\ alive' = alive \cup {v}
         /\ created' = created \cup {v}
         /\ stack' = [k \in DOMAIN stack |->
                        IF scope[f] # "function" /\ stack[k].node = v.node
                        THEN [stack[k] EXCEPT !.fins = Append(@, v.def)]
                        ELSE stack[k]]
         /\ cached_result' = IF done THEN filled
                             ELSE Forget(filled, FunctionDefs(i))
         /\ funcargs' = IF done THEN [funcargs EXCEPT ![i][f] = v] ELSE funcargs
         /\ wpc' = [wpc EXCEPT ![i] = IF done THEN "setup" ELSE "broken"]
  /\ UNCHANGED <<control, prepared, deferred, ran, reported,
                 testsfailed>>

(* The fixture function raises: the exception is cached, and the finalizer *)
(* added all the same.                                                     *)
ExecuteRaises(i) ==
  /\ mpc = "workers" /\ wpc[i] = "executing"
  /\ LET f == NextName(i)
         on == scope[f] = "function" \/ NodeFor(f, i) \in StackNodes
     IN  /\ f \in raising
         /\ stack' = [k \in DOMAIN stack |->
                        IF scope[f] # "function" /\ stack[k].node = NodeFor(f, i)
                        THEN [stack[k] EXCEPT !.fins = Append(@, Def(f, i))]
                        ELSE stack[k]]
         /\ cached_result' = Forget([cached_result EXCEPT ![Def(f, i)] = Error],
                                    FunctionDefs(i))
         /\ wpc' = [wpc EXCEPT ![i] = IF on THEN "errored" ELSE "broken"]
  /\ UNCHANGED <<control, alive, created, prepared, deferred, funcargs, ran,
                 reported, testsfailed>>

(* save_and_clear_function_fixtures, then the body is entered.             *)
EnterCall(i) ==
  /\ mpc = "workers" /\ wpc[i] = "setup" /\ Unresolved(i) = {}
  /\ cached_result' = Forget(cached_result, FunctionDefs(i))
  /\ wpc' = [wpc EXCEPT ![i] = "call"]
  /\ ran' = ran \cup {i}
  /\ UNCHANGED <<control, stack, alive, created, prepared, deferred, funcargs,
                 reported, testsfailed>>

(* The body is over and the item's own finalizers run.                     *)
LeaveCall(i, outcome) ==
  /\ mpc = "workers" /\ wpc[i] = "call"
  /\ outcome = "failed" => "fail" \in Faults
  /\ wpc' = [wpc EXCEPT ![i] = outcome]
  /\ alive' = alive \ FinishedBy(FunctionDefs(i))
  /\ UNCHANGED <<control, stack, cached_result, created, prepared, deferred,
                 funcargs, ran, reported, testsfailed>>

Worker(i) == \/ Take(i) \/ CacheHit(i) \/ CacheMiss(i) \/ Execute(i)
             \/ ExecuteRaises(i) \/ EnterCall(i)
             \/ \E outcome \in {"passed", "failed"} : LeaveCall(i, outcome)

-----------------------------------------------------------------------------
(* The end of _run_parallel.                                               *)

Ended == {i \in Items : wpc[i] \in {"passed", "failed", "broken", "errored"}}
Failures == Ended \ {i \in Items : wpc[i] = "passed"}

(* Main reports the items of the group whose result it has, while workers  *)
(* go on with others, and last those that the hook loop kept from the      *)
(* workers; pytest counts a failed report when it is logged.               *)
ReportFailure(i) ==
  /\ mpc = "workers"
  /\ i \in (Failures \cap Range(groups[group_idx])) \ reported
  /\ i \in ParallelSet \/ ParallelSet \subseteq Ended \ (Failures \ reported)
  /\ reported' = reported \cup {i}
  /\ testsfailed' = testsfailed + 1
  /\ UNCHANGED <<control, caches, prepared, deferred, wpc, funcargs, ran>>

(* All results are reported and the items popped from the stack.           *)
PopItems ==
  /\ mpc = "workers"
  /\ ParallelSet \subseteq Ended
  /\ Failures \cap Range(groups[group_idx]) \subseteq reported
  /\ stack' = Among(stack, {e \in Range(stack) : e.node \notin ParallelSet})
  /\ mpc' = "teardown_all"
  /\ UNCHANGED <<group_idx, idx, cached_result, alive, created, prepared,
                 deferred, tests>>

(* Mutant: saved finalizers are run at the end of the last group only.     *)
FinsOfLastGroup ==
  IF group_idx < Len(groups) THEN <<>>
  ELSE FlattenSeq([k \in DOMAIN saved_collector_fins |->
                     Reverse(Reverse(saved_collector_fins)[k].fins)])

AllCollectorFins ==
  FlattenSeq([k \in DOMAIN saved_collector_fins |->
                Reverse(Reverse(saved_collector_fins)[k].fins)])

(* The items whose own finalizers the workers ran.                         *)
TornDown == {i \in Range(groups[group_idx]) :
               wpc[i] \in {"passed", "failed"} /\ FunctionDefs(i) # {}}

(* _teardown_all: the teardowns of the items are reported, those that      *)
(* raised as failures, and their requests dropped; teardown_exact keeps    *)
(* what the next group needs, then the saved finalizers are due.  An       *)
(* exception of teardown_exact leaves _teardown_all before them.           *)
TeardownShared(raises) ==
  /\ mpc = "teardown_all"
  /\ TeardownExact(stack, next_group_first)
  /\ raises => "teardown" \in Faults /\ alive' # alive
  /\ funcargs' = [i \in Items |-> IF i \in Range(groups[group_idx])
                                  THEN [f \in Fixtures |-> None]
                                  ELSE funcargs[i]]
  /\ deferred' = IF raises THEN <<>> ELSE AllCollectorFins
  /\ mpc' = IF raises THEN "error" ELSE "deferred"
  /\ \E n \in 0 .. Cardinality(TornDown) :
       testsfailed' = testsfailed + n /\ (n > 0 => "teardown" \in Faults)
  /\ UNCHANGED <<group_idx, idx, prepared, wpc, ran, reported>>

(* FixtureManager.run_finalizers(all_collector_fins): from the end of the  *)
(* list; exceptions are collected and raised when all have run.            *)
RunFinalizer ==
  /\ mpc = "deferred" /\ deferred # <<>>
  /\ alive' = alive \ FinishedBy({Last(deferred)})
  /\ cached_result' = Forget(cached_result, {Last(deferred)})
  /\ deferred' = Front(deferred)
  /\ UNCHANGED <<control, stack, created, prepared, tests>>

CloseGroup ==
  /\ mpc = "deferred" /\ deferred = <<>>
  /\ \/ NextGroup
     \/ /\ "teardown" \in Faults /\ AllCollectorFins # <<>>
        /\ mpc' = "error" /\ UNCHANGED <<group_idx, idx>>
  /\ shared_populated_modules' = {}
  /\ parallel_items' = <<>>
  /\ saved_collector_fins' = <<>>
  /\ UNCHANGED <<caches, cloned, deferred, tests>>

-----------------------------------------------------------------------------

Sequential == \/ SeqSetup \/ SeqSetupFails \/ SeqSkip \/ SeqTeardown
              \/ \E outcome \in {"passed", "failed"} : SeqCall(outcome)

Prepare == Transition \/ HookPasses \/ HookFails \/ HookSkips \/ PushItems

Close == \/ PopItems \/ RunFinalizer \/ CloseGroup
         \/ \E raises \in BOOLEAN : TeardownShared(raises)

Report == \E i \in Items : ReportFailure(i)

Proceed == \/ EnterGroup \/ RaiseFailed \/ ReturnTrue \/ SessionFinish
           \/ Sequential \/ Prepare \/ Close

Main == Proceed \/ Report

(* The session is over.                                                    *)
Terminated == mpc = "finished" /\ UNCHANGED vars

Next == Main \/ (\E i \in Items : Worker(i)) \/ Terminated

Spec == Init /\ [][Next]_vars

(* The main thread is never idle; a body, fixture or finalizer returns.    *)
FairSpec == Spec /\ WF_vars(Main) /\ \A i \in Items : WF_vars(Worker(i))

-----------------------------------------------------------------------------
(* Type invariant.                                                         *)

MainPlaces == {"loop", "seq", "seqcall", "seqteardown", "hook", "workers",
               "teardown_all", "deferred", "raised", "returned", "error",
               "finished"}

ItemPlaces == {"out", "skipped", "queued", "setup", "executing",
               "broken", "errored", "call", "passed", "failed"}

(* Every variable holds a value of the kind the code gives it; the stack   *)
(* holds no node twice, and what is alive or cached was created.           *)
TypeInv ==
  /\ mpc \in MainPlaces
  /\ group_idx \in 1 .. (Len(groups) + 1)
  /\ idx \in Nat \ {0}
  /\ \A k \in DOMAIN stack :
       /\ stack[k].node \in Nodes \cup Items
       /\ Range(stack[k].fins) \subseteq Defs
       /\ \A n \in DOMAIN stack : stack[n].node = stack[k].node => n = k
  /\ created \subseteq Instances
  /\ alive \subseteq created
  /\ cached_result \in [Defs -> created \cup {None, Error}]
  /\ funcargs \in [Items -> [Fixtures -> created \cup {None}]]
  /\ wpc \in [Items -> ItemPlaces]
  /\ ran \subseteq Items /\ cloned \subseteq Items
  /\ Range(parallel_items) \subseteq Items
  /\ reported \subseteq Items /\ testsfailed \in Nat

-----------------------------------------------------------------------------
(* Properties.                                                             *)

(* A test body only ever runs with fixture values that are set up and not  *)
(* torn down, whatever the other threads tear down at that moment, and     *)
(* although the main thread left the collectors of earlier modules before  *)
(* the workers started.                                                    *)
InUseIsAlive ==
  \A i \in Items : wpc[i] = "call" =>
    \A f \in Range(fixturenames[i]) : funcargs[i][f] \in alive

(* A shared fixture is set up once for its session, module or class: not   *)
(* again by a later group, not by two threads, not for each module twice.  *)
CreatedOnce ==
  \A x, y \in created : x.node \notin Items /\ x.def = y.def /\ x.node = y.node
                          => x = y

(* A test in a worker holds function-scoped values that were made for it.  *)
OwnFunctionFixtures ==
  \A i \in Items, f \in Fixtures :
    scope[f] = "function" /\ funcargs[i][f] # None => funcargs[i][f].by = i

(* A test without a key and the first item of a parallel group find on the *)
(* stack nothing but nodes of their own chain: pytest never answers        *)
(* "previous item was not torn down properly", and what a group leaves is  *)
(* what the next one needs.                                                *)
NeverRefused ==
  mpc = "seq" \/ (mpc = "hook" /\ idx = 1)
  => \A k \in DOMAIN stack : stack[k].node \in Range(listchain(item))

(* When the session is over nothing that was set up is left behind.        *)
AllReleased == mpc = "finished" => alive = {}

(* Unless --maxfail stopped the session every item ran, was skipped or     *)
(* failed in its setup.                                                    *)
EveryItemDealtWith ==
  mpc = "returned" =>
    \A i \in Items : i \in ran \/ wpc[i] \in {"skipped", "errored", "broken"}

(* As many tests have failed as --maxfail allows, or reports of teardowns  *)
(* bring the count there.                                                  *)
LimitReached == shouldfail \/ (maxfail > 0 /\ Cardinality(Failures) >= maxfail)

(* The first test that is taken up of a group, parallel or not, is taken   *)
(* up before --maxfail is reached, whichever thread the failures came from *)
(* and whether main has counted them or not: the limit stops the session   *)
(* before the next group.                                                  *)
StopsAtGroupBoundary ==
  [][\A i \in Items : wpc[i] = "out" /\ wpc'[i] # "out" /\ LimitReached =>
       \E j \in Range(groups[group_idx]) : wpc[j] # "out"]_vars

(* The session comes to an end.                                            *)
SessionEnds == <>(mpc = "finished")

-----------------------------------------------------------------------------
(* Which sessions CreatedOnce and AllReleased hold for: conditions on what *)
(* the session has collected.                                              *)

SharedOf(i) == {f \in Range(fixturenames[i]) : scope[f] # "function"}

(* In a parallel group the tests of a module use the same shared fixtures. *)
UniformModules ==
  \A g \in DOMAIN groups : InParallel(g) =>
    \A i, j \in Range(groups[g]) : module[i] = module[j] => SharedOf(i) = SharedOf(j)

(* Item k of group g is item n of group h or comes before it.              *)
NotAfter(g, k, h, n) == g < h \/ (g = h /\ k <= n)

(* Once the session has left a package, module or class it does not come   *)
(* back to it.                                                             *)
KeptTogether ==
  \A a, b, c \in DOMAIN groups :
    \A k \in DOMAIN groups[a], m \in DOMAIN groups[b], n \in DOMAIN groups[c] :
      NotAfter(a, k, b, m) /\ NotAfter(b, m, c, n) =>
        Range(collectors[groups[a][k]]) \cap Range(collectors[groups[c][n]])
          \subseteq Range(collectors[groups[b][m]])

(* In a parallel group a test has no function fixture set up when another  *)
(* of its function fixtures raises.                                        *)
RaisesFirst ==
  \A g \in DOMAIN groups : InParallel(g) => \A i \in Range(groups[g]) :
    \A k, n \in DOMAIN fixturenames[i] :
      /\ k < n
      /\ scope[fixturenames[i][k]] = "function"
      /\ scope[fixturenames[i][n]] = "function"
      => fixturenames[i][n] \notin raising

(* If finalizers may raise, the group behind a parallel one goes on in the *)
(* packages, module and class of its last test.                            *)
QuietTeardown ==
  "teardown" \in Faults => \A g \in DOMAIN groups : InParallel(g) =>
    /\ g < Len(groups)
    /\ Range(collectors[Last(groups[g])]) \subseteq Range(collectors[groups[g + 1][1]])

-----------------------------------------------------------------------------
(* What comments, docs and tests of the repository say of it, and what the *)
(* code does not do: TLC finds each violated on an instance of MCRunAll.   *)

(* --maxfail stops the tests after that many failures: no body is entered  *)
(* once the limit is reached.                                              *)
MaxfailStops == [][shouldfail => ran' = ran]_vars

(* The assertion of addfinalizer passes for every fixture that a worker    *)
(* sets up: no setup fails for want of a node on the stack.                *)
AddFinalizerPasses == \A i \in Items : wpc[i] # "broken"

(* A test holds a class- or module-scoped value that was made for its own  *)
(* class or module.                                                        *)
ValueOfOwnNode ==
  \A i \in Items : \A f \in Range(fixturenames[i]) :
    funcargs[i][f] # None => funcargs[i][f].node = NodeFor(f, i)

(* Teardown runs in the reverse order of setup: what lives on a node is    *)
(* torn down only when nothing that lives below the node is left.          *)
Below(n, m) ==
  \E i \in Items : \E j, k \in DOMAIN listchain(i) :
    j < k /\ listchain(i)[j] = m /\ listchain(i)[k] = n

InsideOut ==
  [][\A x \in alive \ alive', y \in alive' : ~Below(y.node, x.node)]_vars
=============================================================================

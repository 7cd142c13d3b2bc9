# A TLA+ model of pytest-threadpool

pytest-threadpool runs tests in threads of one process. Tests that are marked
parallelizable are put into groups; the setup hooks of a group run one after
the other in the main thread, the tests themselves in a pool of workers, and
the main thread reports the results and tears the shared fixtures down. All
paths below are relative to `src/src/pytest_threadpool/` unless they start with
`src/`; `_runner.py:1348` means line 1348.

pytest itself is not part of the repository. Where the code drives pytest
(`SetupState`, `FixtureDef`, `Session.shouldfail`, `listchain`) the model has
what pytest 9.0 does, the version the repository pins; those definitions are
marked external in the map of `PROJECT.json`.

## 1. Inventory

| Component | State | Operations | Hard behaviour |
|---|---|---|---|
| Worker pool and collection loop, `_runner.py:1002-1523` | two `SimpleQueue`s, dictionaries the workers fill without a lock (`setup_reports`, `setup_passed`, `call_results`, `teardown_infos`, `captured_output`), `reported`, `cancelled`, `interrupted`, stream proxies, `SetupState.stack` | `_pool_worker`, `_do_setup_call_teardown`, `_do_worker_body`, the collection loops, `_report_item`, straggler loop, restore, `_teardown_all` | interleaving of the workers with main; SIGINT at any line; user hooks that raise, even in the rescue branch; threads that die; re-ordering in TeamCity mode |
| Session loop, `_runner.py:675-1000` | the group index, saved collector finalizers, what is left on `SetupState.stack` between groups | `run_all`, `_run_sequential`, phases 1 and 2, collector transitions | fixtures of several modules in one group, hooks that skip items, `--maxfail` |
| Fixture manager, `_fixtures.py` | per-item clones of function `FixtureDef`s, `cached_result`, `_finalizers` | `clone_function_fixturedefs`, `save_and_clear_function_fixtures`, `clear_function_fixture_caches`, `populate_shared_fixtures`, `run_finalizers`, `save_collector_finalizers` | caches shared by threads without a lock; deferred finalizers that outlive their collector |
| Grouping and markers, `_grouping.py`, `_markers.py` | the list of groups, `consumed` | `MarkerResolver`, `group_key`, `build_groups`, `_merge_package_groups` | priority of four levels of markers; overlapping packages |
| Live reporter, `_runner.py:215-660` | `_item_state`, `_reported`, the row of the cursor | `pre_print`, `mark_running`, `mark_call_done`, `mark_done`, `finish` | workers and main draw at once; an item is marked done twice; a cursor that moves by counted lines |
| Output capture, `_runner.py:38-143, 1205-1303` | thread-local buffers, the patched `sys.stdout`, `StreamHandler`s and `Logger` methods | `activate`, `deactivate`, patch, restore | a process-wide patch against per-thread state; `Logger`'s cache of enabled levels |
| Single-worker fallback, `_runner.py:1451-1481` | as the pool, without queues | the inline loop | `KeyboardInterrupt` inside a test |
| View manager, `_live_view/_view_manager.py` | buffers, outcomes, active node, dirty set, wake event, overlay | `add_test_items`, `set_test_output`, `redraw`, `_process_input`, the refresh loop, `wait_and_leave` | runner threads, refresh thread and input reader share all of it |
| Display, `_live_view/_display.py` | row cache, alternate screen, terminal mode | `enter`, `leave`, `redraw_buffer`, `redraw_pane`, `ensure_cbreak` | check of `_in_alt` before the lock; stale row cache |
| Input reader, `_live_view/_input.py` | reader thread, event queue | `start`, `stop`, `drain` | two readers on one tty |
| Tree overlay, `_live_view/_tree_overlay.py` | item tree, folded nodes, filter, cursor, scroll offset | `handle_key`, `scroll`, `_rebuild`, `_ensure_visible` | cursor and scroll bounds while rows appear and vanish |
| Layout, fields, status line, `_live_view/_layout.py` ... | heights, offsets | `compute`, `scroll` | boundary arithmetic |
| Plugin hooks, `plugin.py`, `hooks.py` | none of its own | options, markers, wiring | - |

How they interact: `plugin.py` builds a `ParallelRunner` in
`pytest_runtestloop`; `run_all` asks `GroupKeyBuilder` for the groups and runs
them in order. A parallel group uses `FixtureManager` in phases 1 to 3, a
`_LiveReporter` for the display and, at its end, `_teardown_all`. Workers call
`_LiveReporter.mark_running` and `mark_call_done`, main calls `mark_done`; the
reporter holds one lock per call. With a terminal, output goes to the
`ViewManager`, whose refresh thread redraws what runner threads marked dirty.

What makes each component correct:

- *Pool*: each item runs once, is reported once, after its execution and with
  all its data; it is torn down after that; shared fixtures outlive the tests;
  main never hangs; the terminal writer that a report silences is never lost.
- *Session*: a fixture is alive while it is used, is created once for its node
  and is released in the end; the stack that a group leaves is one the next
  item accepts; every item is dealt with, or `--maxfail` stopped it.
- *Grouping*: no test is lost or repeated, the most specific marker decides,
  tests of one group can share their fixtures.
- *Live reporter*: the counter and the lines are right whatever the order of
  the calls; the screen is current after each.
- *Output capture*: what a test writes and logs is in its own report, nothing
  is lost, and where the end of a group is reached nothing is left patched.
- *Live view*: what the screen shows once the threads are quiet is the latest
  state, whatever their race before; stored output stays stored; keys leave
  both panes consistent; nothing is written after the alternate screen was left.

The hazards of this code, each with its line and the properties that cover it,
are listed in `PROJECT.json`; a hazard without a property says why.

## 2. Plan

Written, in this order:

1. `GroupRun` - what the runner promises of one group, as an abstract
   specification.
2. `WorkerPool` (+ `MCWorkerPool`, proofs in `WorkerPoolProofs` and
   `WorkerPoolItems`) - phase 3, shown to implement `GroupRun`.
3. `RunAll` (+ `MCRunAll`, `RunAllProofs`) - the session: groups, fixtures,
   finalizers.
4. `Grouping` (+ `MCGrouping`, `GroupingProofs`) - markers, keys, groups, merge.
5. `LiveReporter` (+ `MCLiveReporter`, `LiveReporterProofs`) - item states and the screen.
6. `OutputCapture` (+ `MCOutputCapture`, `OutputCaptureProofs`) - thread-local
   streams, proxied handlers, the patched log levels.
7. `LiveView` (+ `MCLiveView`, `LiveViewProofs`) - the threads around the view
   manager and the display: buffers, active view, dirty set, overlay, drawings.
8. `Terminal`, `TreeOverlay`, `ContentPane` and their composition `SplitView`
   (+ `MCSplitView`, `SplitViewProofs`) - what keys do to the two panes, and
   what is drawn.

Proved: every safety property of the pool that a run checks, the safety part of
its refinement of `GroupRun`, every safety property of `OutputCapture`,
`Grouping`, `LiveReporter`, `LiveView`, `SplitView` and `RunAll`, two of the
last under conditions on the collection (section 5). What `RunAll` assumes of
its groups is a theorem about `Grouping`.
No module declares a RECURSIVE operator.

## 3. Modules and code

### GroupRun and WorkerPool

`GroupRun` is the promise: a test of a group waits, executes, is reported, is
closed; it is closed only when every test was reported, unless the run was
aborted, and without an abort all of it happens.

`WorkerPool` has one action per step of `_pool_worker` and of the main thread
in `_run_parallel`. A place of `wpc` is a point where another thread can see a
difference: taking an item, the check of `cancelled` (before the item enters
the setup), the end of the setup, `mark_running`, the body, `mark_call_done`,
the finalizers, `makereport`, the rescue branch, the capture of the output and
the put of the result. The put is in a `finally` (line 1397), so a worker whose
rescue branch raises still puts a result and then dies: places "dying" and
"lastput". `mpc` does the same for main: it spawns, submits, collects (in
TeamCity mode into `ready`, which `Drain` empties in collection order),
reports, puts a pill per worker, joins unless interrupted, reports the
stragglers, restores the streams, pops the stack entries and tears down.
`_report_item` is three actions because the worker threads and SIGINT can come
between: silence the terminal writer, log the reports and restore, mark the item
done. `ReportKeyError` is the read of `setup_passed[item]` that fails when no
setup report was stored.

`Interrupt` is SIGINT at any point of the main thread. Inside the `try` around
the collection loop (line 1414) it sets `interrupted` and `cancelled`; anywhere
else it leaves `_run_parallel`, place "escaped". `suppress()` is called before
the `try` whose `finally` calls `restore()` (line 1104), and each of the two
assigns first one method of the writer and then the other, so the writer is two
sets: the methods that are `silenced`, and those whose `saved` original is itself
a no-op. `CutWriter` is what a SIGINT makes of them: it may stop `suppress()`
(`CutSuppress`) or `restore()` (`CutRestore`) after either assignment.

`Faults` selects what user code may do: fail a setup, raise in `makereport`
once or in the rescue branch as well, raise in a display update, raise in a hook
that takes a report (`pytest_runtest_logreport`, `pytest_threadpool_report`:
`ReportRaises`, after which main has left `_run_parallel` with the writer
restored only where a `finally` does it), interrupt. The refinement calls a
group aborted when it was interrupted or main escaped.

### RunAll

State: SetupState's `stack` (a sequence of nodes with their finalizers),
`cached_result`, the instances that were `created` and those that are `alive`,
the items' `funcargs`, and the deferred collector finalizers. A fixture value
is a record of its FixtureDef, its node and the item that created it, so that
sharing can be told from mixing. Main's actions are the iterations of
`run_all`, `_run_sequential` (setup, call and teardown of an item), the hook
loop (`Transition` when an item leaves collectors of the stack, then
`HookPasses` or `HookSkips`), `PushItems`, `PopItems`, `TeardownShared`
(`teardown_exact`), one `RunFinalizer` per deferred finalizer and `CloseGroup`.
A failure is counted in `testsfailed` when its report is made, as
`pytest_runtest_logreport` does: in the sequential protocol with the setup, the
call or the teardown that fails; of a parallel group one item at a time while
main collects (`ReportFailure`: items that ran in any order, those left to the
straggler loop after all of them); and in `TornDown` for finalizers that raise
in the thread of the item and in the teardown of the group. After
each of them the limit may be reached, but `EnterGroup` alone looks at it. A
fixture of `raising` may raise in its setup: the exception is cached like a
value (`Error`), later users raise it again (`Sound`, `Raises`), and the item
fails where it asked: in the sequential setup (`SeqSetupFails`), in the hook
loop, where `populate_shared_fixtures` stops half way (`HookFails`), or in the
worker (`CacheHit`, `ExecuteRaises`). A worker has two steps per fixture, the cache test and the execution, because
`FixtureDef.execute` holds no lock between them.

What the module assumes of the collection is what pytest and `build_groups`
give: each item is in one group, once, and no group is empty
(`GroupsAssumption`, which `GroupsFitTheRun` proves of `Grouping` for packages
that do not cross); two chains of collectors that meet are one chain up to
there, a tree (`CollectorsAssumption`); a fixture an item asks for has a node of
its scope among the item's collectors (`FixturesAssumption`); and the
exception and the empty cache are no values of fixtures (`OptionsAssumption`,
`ValuesAssumption`).

The collection of items into threads is abstracted to "at most `nthreads` items
at once", which is what `WorkerPool` shows in detail.

### Grouping

Marks are abstracted to the six values `scope_from_marks` can tell apart.
`group_key` and its helpers keep the names of the methods. `Deciding` is the
order in which `group_key` asks the levels. `build_groups` is an action per item
(`NewGroup`, `SameGroup`). `_merge_package_groups` is an action per iteration of
its loops: `SkipConsumed`, `KeepGroup` or `StartJoin` for a group of the outer
one, `TakeFragment` or `Defer` for a group from the first to the last fragment
of a package, and `EndJoin` for the two statements behind the inner loop.

### LiveReporter

One action per method call, since each holds the reporter's lock. A line is a
file and the state of its items; the terminal is `Height` rows and a cursor
that stops at the edges, as terminals do. `mark_call_done` (worker) sets a
provisional letter, which `mark_done` (main) may correct.

### OutputCapture

The process-wide state (`stdout`, the `stream` of a `StreamHandler`, the `root`
logger's level, handler and patched methods, `Logger._cache`), the thread-local
state (`buf`, `records`, `tl_level`) and where each worker is in the script of
its test: a list of operations per phase, which print, log or set a level.
Main's actions are `PatchStreams`, `AddHandler` and `PatchMethods`, then `Join`
or `Interrupt` (SIGINT inside the `try` of the collection loop), and
`RestoreStreams`, `RestoreMethods` and `RestoreLevel`; `InterruptEscapes` is a
SIGINT anywhere else and `ReportEscapes` a report hook that raises, both of which
leave `_run_parallel` at once. A worker's actions are `Activate`, one per
operation, `NextPhase` and `Deactivate`. stdout and stderr behave alike and are one stream.
Who logs through `Logger` is pytest's or the test's code: `Enabled` and
`SetLevel` are what the standard library and caplog do.

### LiveView

Three threads share the view: main (`add_test_items`, the reporter's `set_line`
and `redraw`, `set_test_output`, `wait_and_leave`), a worker that reports, and
the refresh thread (`_process_input`, then what is dirty is drawn). Each read or
write of a shared attribute is a step: `_active_buffer` is three (is it the
summary, get, store an empty buffer), `_rebuild_group` one per copied test and
one to store, `Display.redraw_buffer` a test of `_in_alt` outside its lock and a
drawing inside. The buffers are keyed by sets of tests, because `_show_group`
joins node ids: a branch with one leaf has the key of the leaf.

### Terminal, TreeOverlay, ContentPane and SplitView

What keys do, and what is drawn. `TreeOverlay` has the rows of the tree as
`_build_visible` computes them, with folding, the query and the outcome
toggles, and the cursor and the window of `_ensure_visible`. `render`, a cursor
move of a key or of the wheel, and a key that acts on the row of the cursor read
the number of rows first and use it after; a key that folds, filters or types
computes the rows, stores them and clamps the cursor after. Each is two steps,
with the first of them in `pending`, and main may rebuild the rows in between:
`shrunk` notes that this took rows away, and `raised` the exception that ended
the refresh thread. `ContentPane` has the scroll offset,
the search (typing, matches, jumps), the status line and `redraw_buffer` with
its row cache, drawn by the refresh thread with the search bar and highlighting
and by the runner's `redraw` without. `SplitView` composes them: the focus, the
batch of `_process_input` with its two "changed" flags and early returns, the
order of the drawings in `_refresh_loop` (a rendering of the tree that has begun
is finished before the content is drawn), Ctrl+W with a directory that cannot be
made (`SaveRaises`: `os.makedirs` is outside the `try` of the save), and main's
groups, outputs and summary lines. `Ascending` lists the numbers of a finite set in order: the rows
of the tree that are visible, the lines that match. A drawing of the content is one step there; `LiveView` has its
interleavings.

## 4. Runs

| Run | What it shows | States |
|---|---|---|
| `pool_terminal` | three items on two workers, one more skipped in phase 1, failing setups, `makereport` that raises: main reports every item once, sees all the worker's data, a body runs once, and the pool implements `GroupRun` with its progress | 283 000 |
| `pool_faults` | TeamCity mode, two items on two workers, one skipped, `makereport` that raises once or twice, a display update or a report hook that raises, one SIGINT between any two assignments: order, writer, shared fixtures; a cancelled pool drains; main leaves | 481 000 |
| `session` | three groups, the second a parallel one over two modules, with hooks that skip, fixture setups that raise, failing bodies, finalizers that raise and `--maxfail 2`: fixtures alive while used, created once, private to their test, accepted by the next group, all released; no test of a new group is taken up after the limit; the session ends | 136 000 |
| `grouping` | every marking of four levels, and every order of six tests of nested packages: no test lost or repeated, the most specific mark decides, a group has one key and one fixture world | 54 000 |
| `live_reporter` | two files, three tests, nine outcomes, all three modes, the block starting on any of four rows | 674 000 |
| `capture` | two workers, three tests that print, log and set levels, one SIGINT or a report hook that raises, in the collection loop or elsewhere: text and records belong to their test, no other test's level hides a child logger's record, streams and logging are put back where the end is reached | 504 000 |
| `live_view` | two tests in two groups, a worker that reports, two keys, SIGINT at any time, a wide or a narrow terminal: the screen catches up, nothing is drawn after the alternate screen was left, unopened output is kept | 1 039 000 |
| `split_view` | keys and wheel in both panes while two groups arrive: the cursor stays on a row, a match jumped to is in sight, both panes show what they should when nothing is left to draw | 652 000 |

Four runs state a claim of a comment, a doc or a test that the code does not
keep, each with a finding in `PROJECT.json`: `v_fixtures`, `v_shared_twice`,
`v_items_twice`, `v_log_level`. More such statements, which need no run of
their own to be seen, are in section 6.

### Bounds, and why they are enough

- Two workers and three items (two in `pool_faults`): one item in each worker
  and one queued, so that a worker takes a second item while another is still
  in its first, and a skipped item whose place in the order is in the middle.
  One interrupt, because a second one can only cut the ending short.
- `session`: seven items, the parallel group over two modules of two tests
  each, three threads for its four tests, and a module that main left before
  the workers start. `maxfail` = 2, so that the limit is reached by failures of
  two threads, of a group and the one before it, or of a test and its own
  teardown, and a single failure leads on. Before and after it a group without a key in the first and in the second module: one
  module's fixtures come from an earlier group, the other's go to a later one.
  `raising` is one shared and one function fixture, so that the exception is met
  in the hook loop, in a worker and by a second user of a cached one.
- `grouping`: seven lists of marks on the test and the inner package, five on
  the other levels; six tests give three fragments of a package with two
  fragments of a nested one between them.
- `live_reporter`: two files, so that one line is not the last; four rows hold
  the block and its progress line with one row to spare, and a block that
  starts low makes the terminal scroll.
- `capture`: `MaxLength` = 3 operations per phase, three scripts over two
  levels, one at and one below the root's; three tests, so that a worker has a
  second one while the other is in its first. One exception leaves the group, a
  SIGINT or one of a hook, at any place. Workers and tests are symmetric (safety
  only).
- `live_view`: `Keys` = 2 keys, enough to open the tree and jump, or to jump
  and come back; `Reports` = 1 report of a worker; two groups, so that rows are
  added to an open tree; branches with one and with two leaves.
- `split_view`: `Height` = 4 rows, the least with a window of two rows in both
  panes, against a summary of `HeaderLines` = 3 to `MaxLines` = 4 lines and
  outputs of 0, 2 and 3: buffers shorter, as long and longer than the viewport.
  Queries of one and two characters. The product of everything both panes can
  do is out of reach, so `MCSplitView` adds a variable `explored`, chosen at
  the start, and the constraint `ExploredPane`: a behaviour explores one pane
  in full while the other stays near its first states; the steps that concern
  both (opening, closing and focusing the tree, jumping, main's) are in both.

Only `capture` uses symmetry: elsewhere the items are ordered, or the run
checks liveness. Two runs switch the deadlock check off: in `capture` main
leaves and the workers end, and in `split_view` the refresh thread may die.

### Fairness

`FairSpec` of `WorkerPool` and of `RunAll` is weak fairness of the main thread
and of each worker: Python threads are preemptive, the queues are FIFO and
unbounded, and tests and hooks are taken to return. `FairSpec` of `LiveView` is
weak fairness of main while it reports (`MainRuns`), of the worker and of the
refresh thread, whose wait has a timeout; nothing is assumed of the user, who
ends the session or not. Nothing is assumed of SIGINT or of faults, and nobody
is fair to a choice inside a step. Liveness: `PoolDrains`, `MainLeaves`,
`SessionEnds`, `ScreenCatchesUp` and the progress part of `GroupRun`.

## 5. Proofs

The inductive invariants below were checked by TLC on the instances of the
runs before they were proved for all values of the constants: `Init` implies it, each
action preserves it, it implies the property. The assumptions are the named ones
of the modules, which TLC evaluates in the runs: `PoolAssumption` (at least two
workers and two items that run, the condition under which the code uses the pool
at all, line 1344), and those of the other modules, which say of what kind the
constants are. Where a group or a list of files is a sequence, its elements are
different, as collected items and a list built under `if path not in` are.

### The pool

`WorkerPoolProofs`, for both modes and every set of faults:

- `PoolTypeCorrect`: `Spec => []TypeInv`. The types alone are not inductive:
  `work_item[w]` may be `None`, and a worker that stored results under `None`
  would leave them. `TypeInv` therefore adds `BusyHasItem` (a worker outside
  "get" has an item), `ReportHasItem` (a report has an item, and returns to a
  collection loop whose counter is still below its bound).
- `SharedFixturesOutliveTests`: `Spec => []SharedOutliveTests`. The argument is
  `JoinInv`: main is past the join only when every thread has ended, unless it
  was interrupted; the stack, the torn items and the shared fixtures are
  untouched before that. Ended threads stay ended (`EndedIsStable`).
- `WriterIsRestored`: `Spec => []WriterRestored`, with a SIGINT between any two
  assignments of `suppress()` and `restore()`. Such a SIGINT may leave the writer
  silenced (`WriterBackWhenLeft`, section 6); what is proved is that nothing is
  built on that: it either escapes or cancels the run, and a cancelled run
  reports nothing more, so no later `suppress()` saves a no-op as the original
  (`SilentAfterSignal`). And while no SIGINT has come the writer is silenced in
  the `try` of a report only, whatever raises there.

`WorkerPoolItems` follows an item through the pool:

- `EveryResultReportedOnce`: `Spec => []ReportedOnce`, from `ItemsInv`. An item
  is in one place - not submitted yet, in the work queue, with one worker, in
  the result queue, with main, reported - and what is in a queue is there once.
- `ReportsInCollectionOrder`: `Spec => []RanInCollectionOrder`. Main logs
  `parallel_items[next_report_idx + 1]` and nothing else before all are logged.
- `NoBodyRunsTwice`: `Spec => BodiesRunOnce`, an action property: only an item
  that was never displayed as running can start (`DisplayInv`).
- `ReportHasWorkerData`: `Spec => []ReportSeesWorkerData`. It needs what each
  place of a worker has stored so far, that the put into the result queue is
  the last of its steps, and that a worker leaves a stored item alone.

`WorkerPoolItems` also proves `PoolRefinesGroup`: under the mapping of `WorkerPool`
the initial states are initial states of `GroupRun`, and each action is a step
of the group or a stutter. The run `pool_terminal` checks the same mapping with
the liveness part.

### The session

`RunAllProofs`, for any collection that is a tree, any groups and fixtures, any
number of threads, `--maxfail` or none, and any of the faults. The invariant has
these parts, each of which needs some of those before it.

- `ItemsInv`: where main is, and that every item before that place was dealt
  with or is in the hands of the workers of this group. `NothingLeftOut`
  (`EveryItemDealtWith`) follows from it at the end of the loop.
- `CountInv`: every failure whose report was made is counted, and outside a
  parallel group under way there is no other. `LimitEndsAtGroup`
  (`StopsAtGroupBoundary`) follows: where main is between groups the count says
  whether the limit is reached, so it takes up the first item of a group only
  below it, and every other item is taken up behind one that has left "out"
  (`BegunInv`). The property speaks of the failures themselves, not of the
  count, so one that main forgets to count would refute it.
- `PlaceInv`: `parallel_items` holds items of this group that main has passed,
  once each; an item is in a thread only while main waits for the workers; only
  items main has passed are cloned. Without it a worker could meet an item whose
  `FixtureDef`s are still shared.
- `StackInv`: no node is on the stack twice, and where main is about to set up
  an item the stack is a path down the collectors of that item. `NeverRefused`
  alone, that its nodes are on the item's chain, is not inductive: a stack with
  a gap would pass it and keep nothing of what the next item needs. That
  `teardown_exact` leaves a path is `KeptFacts` (it keeps the longest common
  start); that a transition without stale nodes leaves one uses the tree
  (`NoStalePath`). After phase 1 the stack is collectors and pushed items, and
  `PopItems` takes the items away. From it `NeverRefusesASetup`.
- `NextInv`: a worker that executes a fixture has one whose value is missing.
- `ValuesInv`, about the values. `CacheInv`: what is cached is alive and was
  made by the definition that caches it, and a clone caches what was made for
  its item. `FunctionInv`: a shared function `FixtureDef` caches something only
  while a test without a key is set up or running, and then its finalizer is on
  the node of that test, so that the teardown empties it. `ArgsInv`: what a
  waiting or running test holds is alive. The steps that could break it are a
  transition, which finishes nothing because `save_collector_finalizers` has
  taken the finalizers of every node it pops (`TransitionFacts`), and a test that
  ends in another thread, which clears the caches of its own clones and nobody
  else's (`OthersValues`). From it `FunctionValuesAreOwn`, `NeverTornDownInUse`
  (`InUseIsAlive`) and, with the stack, `SessionTypeCorrect`.

What an execution of fixtures does to stack, cache and arguments is proved once,
for the sequential setup, the hook loop and the workers alike (`ExecutedFins`,
`ExecutedCache`, `ExecutedArgs`), also where it raises half way.

Two properties are true of some collections only. `RunAll` names the conditions,
and each of them is needed: without it TLC finds a counterexample (on `Late` for
the first, `Cross` for the second property; on a module split by another; on two
function fixtures of which the second raises; on `Last` with "teardown").

| condition | about | for |
|---|---|---|
| `UniformModules` | in a parallel group the tests of a module use the same shared fixtures | both |
| `KeptTogether` | a package, module or class that was left is not come back to, which pytest's order gives and a merge across other modules may not | `CreatedOnce` |
| `RaisesFirst` | a test of a parallel group has no function fixture set up when another one raises | `AllReleased` |
| `QuietTeardown` | if finalizers may raise, a group follows each parallel one, in the collectors of its last test | `AllReleased` |

`ConditionsMet` in `MCRunAll` has TLC evaluate that the run `session` meets all
of them, with raising fixtures and finalizers, and that `Late` and `Cross` fail
the first.

- `PopulatedInv`: with uniform modules, once the first test of a module passed
  its hook every shared fixture of every test that waits for a worker is cached.
  So a worker executes function fixtures only (`WorkerShared`), and its
  finalizers have a node on the stack (`UniformModulesNeverBreak`).
- `PathInv`: inside the hook loop, too, the stack is a path down the collectors
  of the last test the loop came to.
- `OnceInv`: a shared value that a test still to come could use is the cached
  one (`NewestInv`). Caches are emptied by finalizers, so each place a finalizer
  can be in has its part: on the stack it is on the node of its value
  (`FinsInv`); among the saved and the deferred ones it belongs to a node that
  no coming test is in (`GoneInv`), by `KeptTogether`. From it `SharedSetUpOnce`.
- `ReleaseInv`: what is alive has a finalizer on the stack, among the saved or
  the deferred ones, or is held by a test in a worker (`HeldInv`). A worker
  resolves in the order of the closure (`InTurn`), so where a clone raises it
  holds nothing if it raises first; the deferred list survives `teardown_exact`
  if that has nothing to finish (`QuietTeardown`). From it `NothingLeftBehind`.

### Grouping

`GroupingProofs`, for any items, classes, modules and packages of any depth, any
marks on them, any params and any order of the collection.

What holds of the keys needs no run: `MostSpecificMarkerWins`
(`MostSpecificWins`) is a lemma about `group_key`, in which the walk up the
packages (`WalkFacts`) finds the nearest level that speaks because `Min` of the
places that tell something is that level. It needs of a reachable state only
that the marks stay as they were given.

The groups need the inductive invariant `Inv`, whose parts rest on each other:

- `BuildInv`: what is cut so far is the items before `idx`, in their order, each
  in a group of its own key. It stays true of `groups` during the merge.
- `JoinInv`: in the inner loop, the groups from the first fragment up to `j` are
  consumed, the items collected have the package's key and what is deferred has
  another one.
- `CoverInv`: what the merge has gone over is in `merged`, collected or deferred.
  `NothingLost` is its last case. It holds for crossing packages too.
- `KeyInv`: what was moved is in a group of its key. `InGroupOfItsKey` and, since
  the key of a class or of variants ends with the wide params,
  `OneFixtureWorldAlways` (`OneFixtureWorld`) follow.
- `MergeInv`, unless packages cross. `OnceUnlessCrossing` alone is not inductive:
  whether a group will be taken again depends on what is ahead. `ForwardInv` says
  that what is consumed are whole spans of packages begun before, so that a
  package is met at its first fragment with nothing of its span moved yet;
  `MergedInv` and `InnerInv` that what is merged, collected and deferred comes
  from the groups gone over, in their order.
- `OrderInv` and `PackageInv`: tests of one key are in the result in the order of
  `items`, each once, and, if no package lies in the span of another, a package
  has one group. They are about `merged` alone, and each append keeps them
  because what it adds comes, by `MergeInv`, from behind all that is there.

From it `GroupingTypeCorrect`, `ItemsPreservedAlways` (`ItemsPreserved`),
`GroupedByKeyAlways` (`GroupedByKey`) and `GroupsFitTheRun`: what is returned
satisfies `GroupsAssumption` of `RunAll`. The assumptions are
`GroupingAssumption` (items are collected once each, tests of a class share a
module) and `KeysAssumption` (`None` is not a key).

### Output capture

`OutputCaptureProofs`, for any workers, tests, scripts and levels, with a SIGINT
and a raising report hook at any place where they leave the group. `CaptureInv` is the types, `TakenOnce` (a taken item is with one
worker, and every result is put before main goes on, unless interrupted),
`Patched` (which of stream, handler and methods are patched at which place of
main, and what the loggers may remember there; where an exception has left items
to the workers, everything is still patched), `OwnTokens` (what is in a thread's buffer
or record list, or in an item's sections, is that item's) and `NothingLost`
(each text before the current operation is in the buffer, each record of a
child logger at the handler's level or above in the record list). From it `CaptureTypeCorrect`,
`EachTestGetsItsOwnOutput`, `EachTestGetsItsOwnRecords` and
`StreamsAndLoggingPutBack`. The last speaks of the ends of `_run_parallel` that
are reached, where threads may still work after a SIGINT in the collection loop;
the exits that skip the restore are actions of the specification, and leave
everything patched (`PutBackWhenLeft`, section 6).

### Live reporter

`LiveReporterProofs`, for any files, items, outcomes, mode and height.
`ReporterInv` is the types, `KnowsStages` (which calls an item has had),
`CountsEachItem`, `BlockInv` (the files printed so far are in the rows just above
the cursor, in their order, with the current line of each, however far the
terminal has scrolled) and `PrintedInv` (the last line of a file whose tests are
done is final). From it
`ReporterTypeCorrect`, `EachItemCountedOnce`, `DumbLinesFinallyRight`, and
`ScreenShowsStates` under the hypothesis `TallEnough` (`Height > Len(file_order)`):
without it the statement is false, see `RewritesOwnLine` in section 6.

### Live view

`LiveViewProofs`, for any tests, groups, branches, keys and reports, and
terminals of either width. `LiveViewInv` is the types, `LockInv` (who draws for
the runner holds the lock of the reporter), `WorkerInv` (a worker draws for a
test that main has not begun to report, so main is still reporting this group:
this needs the lock, because main picks its next test under it), `LeaveInv` (main
has joined the refresh thread when it leaves, and gives up only there) and
`OpenedInv` (a key of a single test, active or in the hands of a thread, is that
of an opened test; a branch with one leaf counts as such, by
`FS_Singleton`). From it `ViewTypeCorrect`, `OutputSurvivesOtherViews` and
`ScreenLeftAlone`.

### The two panes

`SplitViewProofs`, for any tree, queries, groups, outputs and lines that match,
and any terminal of at least four rows. The invariant has one part per pane.

- The tree, `TreeInv`: the types, `CursorOnRow`, `FreshRows` (while no outcome
  is hidden the rows, or those about to be stored, are the rows of some set of
  tests: main may have added others since they were computed), `PendingInv` (a
  row that the refresh thread is about to use exists unless main took rows away,
  and main has marked the tree if the window moved under a rendering) and
  `TreePainted`. While nothing is hidden the rows depend on the tests alone
  (`UnhiddenRows`), and more tests mean more rows (`MoreRows`, by `FS_Subset`),
  which is why the `IndexError` comes only with a filter.
- The content, `PaneInv`: `CacheInv` says that a row shows what its key in the
  cache says, for each row above the bar's, for the bar's row as long as only
  lines or only bars were drawn on it, and for the hint. `RedrawRight` is
  `redraw_buffer` under it. `JumpInv` and the arithmetic of `Landing` (for every
  height, buffer and line) give `MatchVisible`.

From it `SplitTypeCorrect`, `CursorStaysOnRow`, `JumpsShowMatch` and
`PanesFinallyRight`. `EveryRank` shows that `Ascending` lists members of the set,
which the sorted rows and matches rest on: the ranks are an injection into as
many numbers, so by `FS_Injection` each is taken.

### Model-checked only

- Every liveness property, and the progress part of `GroupRun`: `PoolDrains`,
  `MainLeaves`, `SessionEnds`, `ScreenCatchesUp` and `GroupProgress` need
  fairness and ENABLED, which the provers do not have.
- That `CreatedOnce` or `AllReleased` holds of a collection which fails one of the
  conditions above but does not suffer from it: `CreatedOnce` is refuted where a
  shared fixture is first asked for by two workers (`v_shared_twice`);
  `AllReleased` where a worker sets up a fixture of a module that main has left
  (`Cross`), and where a setup fails half way (`v_fixtures`, in the pool).

## 6. What the code does not keep, without a run of its own

These statements are in the modules, and TLC refutes them on the instances of
the MC modules:

- `RestoredAfterWorkers` (`WorkerPool`): after SIGINT the workers are not
  joined, so streams are restored while tests still run; `_runner.py:1491` says
  "after all workers are done".
- `TeardownAlwaysRuns` (`WorkerPool`, fault "interrupt" or "report"): a SIGINT
  outside the `try` around the collection loop, or a report hook that raises
  anywhere, leaves `_run_parallel` before its teardown;
  `_runner.py:1511` says "always runs, even after interrupt".
- `WriterBackWhenLeft` (`WorkerPool`, "interrupt"): a SIGINT in `suppress()`,
  which is called before the `try` (`_runner.py:1104`), or in `restore()` leaves
  one or both methods of the terminal writer no-ops for the rest of the session;
  the docstring at 329 says "Temporarily suppress".
- `NoKeyError` (`WorkerPool`, faults "makereport" and "rescue"): a `makereport`
  that raises in the rescue branch too leaves no setup report, and
  `_report_item` raises `KeyError`; `_runner.py:1374` says this is prevented.
- `CollectionOrder` (`WorkerPool`, TeamCity): items skipped in phase 1 are
  reported after all that ran; `_runner.py:1417` says "in collection order".
- `ValueOfOwnNode` (`RunAll`, `Class`): the deferral takes away the finalizer
  that clears `cached_result` (`_fixtures.py:166`), so a later class gets the
  value of an earlier one; `src/tests/test_pytester_fixtures.py:78` expects one
  per class.
- `AddFinalizerPasses` (`RunAll`, the `Cross` instance): a worker that sets up
  a module fixture of a module which phase 1 has left fails pytest's assertion;
  `_runner.py:1002-1003` says the assertions pass.
- `InsideOut` (`RunAll`, `Nested`): deferred finalizers are reversed twice
  (`_runner.py:1608` and `run_finalizers`) and run outside in;
  `_fixtures.py:133` says "in reverse order".
- `AllReleased` (`RunAll`, `Last` with the fault "teardown"): when a shared
  finalizer raises in `teardown_exact` the deferred finalizers are lost.
- `MaxfailStops` (`RunAll`, `Fail`): tests without a key that follow one
  another are one group, and all of them run after the limit.
- `PackagesJoined` (`Grouping`): a package inside the span of an enclosing one
  stays split; `_grouping.py:107-109` says split packages are joined.
- `NotAtAnyLevel` (`Grouping`): a module's `not_parallelizable` silences the
  module level only; `_grouping.py:29` says "at any level forces sequential".
- `ParamsNeverMixed` (`Grouping`): the key of a module's or package's children
  leaves the fixture params out; `_markers.py:139-141` says they must stay.
- `VariantsOfOneTest` (`Grouping`): a parameters key does not have the module;
  `src/README.md:69` says "variants of the same test".
- `FileLineOnce` (`LiveReporter`, "dumb"): a file's line is printed when its
  items known so far are done, and again in the next group (`_runner.py:405`);
  `src/tests/test_pytester_reporting.py:272` expects it once.
- `RewritesOwnLine` (`LiveReporter`, `Height` = 2): a block taller than the
  terminal overwrites the line of another file.
- `PutBackWhenLeft` (`OutputCapture`, fault "interrupt" or "report"): a SIGINT
  while main patches, starts the threads, joins, reports stragglers or puts
  back, or a report hook that raises, leaves streams, handlers and `Logger`
  methods patched, in part or all of them; `_runner.py:1491` says "Restore real
  stdout/stderr and remove log handler after all workers are done".
- `OwnLevelApplies` (`OutputCapture`): a caplog keeps records below the level
  that its own test has set. The patched `getEffectiveLevel` is a method of the
  root logger's class, but a child logger reads `root.level` itself, which is
  `NOTSET`: "child loggers walking up the hierarchy see the per-thread level"
  (`_runner.py:1284-1286`) is not so. Nor does `caplog_h.handle(record)` test the
  handler's level, which `Logger.callHandlers` does: "its own level filter is
  respected" (114-116) and "caplog handlers apply their own level filters"
  (1279-1280) are not so either, and `src/README.md:280-283` promises that
  `caplog.set_level()` behaves "the same as in sequential pytest". `RecordsAreOwn`
  is stated such that it does not depend on this: it speaks of records that no
  level of their own test could hide.
- `OutputKept` (`LiveView`): `_active_buffer` stores an empty buffer over the
  one that `set_test_output` stored meanwhile (`_view_manager.py:175-178`); the
  docstring at 146-150 says it is stored.
- `RunnerNotHurt` (`LiveView`): the overlay that `add_test_items` has tested
  may be closed before it is used (`_view_manager.py:141-142`), an
  `AttributeError` in main.
- `ViewCatchesUp` (`LiveView`): `_show_group` makes a view active before it
  builds its buffer (`_view_manager.py:403-404`), and a test that finishes
  while it is built may be missing from it; line 161 says it is refreshed.
- `RefreshLives` (`TreeOverlay`): with outcomes hidden, main's rebuild for a
  new group can leave fewer rows than `render` is about to show
  (`_tree_overlay.py:380`); the `IndexError` ends the refresh thread, as does an
  `OSError` of `os.makedirs`, which `_save_buffer` calls outside its `try`
  (`_view_manager.py:537-538`).
- `NewTestsListed` (`TreeOverlay`): a group that main adds after a key has
  computed the rows and before it stores them (`_tree_overlay.py:352`) is not
  listed until something else rebuilds the rows.
- `RowsAlwaysRight` (`ContentPane`): the status bar is cached under another key
  than the line in its row (`_display.py:264`), so a bar that comes, goes and
  comes again leaves the row as it was; the docstring at 208-210 says it is
  rendered.
- `MatchAlwaysVisible` (`ContentPane`): `_viewport_height` does not count the
  search bar (`_view_manager.py:513`).
- `HighlightStays` (`ContentPane`): the runner's `redraw` draws without
  highlighting and search bar and marks nothing dirty.
- `MatchesOfView` (`ContentPane`): the matches are not computed anew when
  another view is shown.

Seen while the modules were written, and in them as the code has it, without a
statement of their own:

- An overlay opened before any outcome never sees one (`outcomes or {}`,
  `_tree_overlay.py:161`): `blind`. `set_test_output` marks no overlay either,
  so its markers are stale until the next key.
- Keys after Tab or after the end of a view in a batch are dropped
  (`_view_manager.py:308`, 321, 358; the docstring at 281 says "Drain all
  queued input events"), and the wheel assigns `content_changed` (344) where all keys
  add to it: `dropped`.
- Escape leaves the tree open (`src/README.md:230`: "close tree"): `Close`.
- A query that matches only a branch hides it with its tests:
  `has_visible_leaf`.

## 7. Not modelled, and why

- In `RunAll`: subtests, and the emission of reports, which `WorkerPool` has.
- The single-worker fallback: one test after the other in the main thread, with
  no queue and no proxy.
- The input reader and its parser: `select` and `os.read` on a tty, and escape
  sequences byte by byte. `wait_and_leave` starts a second reader
  (`_view_manager.py:585`, 699) while the refresh thread may still read the
  first; which of them gets a key is up to the kernel. The views take an
  arbitrary sequence of events.
- Layout, fields, cursor and scroll column: sequential widgets; nothing in the
  repository but their own tests uses more of them than the status text.
- Terminal modes, the tty that is looked for, and what Ctrl+W writes to its file
  (that its directory cannot be made is `SaveRaises`).
- Two steps of main's own `_rebuild`: it computes, stores and clamps in one,
  while the refresh thread's is two.
- Widths, truncation, colours, outcome markers, the text of TeamCity messages
  and of sections: pure output.
- `--setup-only`, which replaces phase 3 by a loop without threads.
- `plugin.py`, `hooks.py`: straight-line wiring.

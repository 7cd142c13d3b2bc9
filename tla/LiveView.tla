------------------------------ MODULE LiveView ------------------------------
(***************************************************************************)
(* The live view: ViewManager and Display, between the threads of the      *)
(* runner and the refresh thread.  The main thread and a worker write the  *)
(* lines of the summary and redraw at once, and main stores the output of  *)
(* every finished test; the refresh thread handles the keys - the tree     *)
(* overlay is opened and closed, the content pane is switched to a test or *)
(* to a branch - and draws what is marked dirty.  Only the dirty set, a    *)
(* buffer and a drawing are under a lock.                                  *)
(*                                                                         *)
(* A view is a set of tests: {} is the summary, {t} the test t, a larger   *)
(* set a branch (its key is the joined node ids, so that a branch with one *)
(* leaf has the key of that leaf).  The lines of a buffer are the tests    *)
(* whose output they are, those of the summary are counted.  The event     *)
(* that wakes the refresh thread is left out: its wait times out anyway.   *)
(***************************************************************************)
EXTENDS Integers, Sequences, FiniteSets, SequencesExt

CONSTANTS Tests,
          groups,       \* the parallel groups, in the order they run
          Branches,     \* the sets of tests below the branches of the tree
          Reports,      \* how often a worker updates a line
          Keys,         \* how many keys the user presses
          None

ASSUME ViewAssumption ==
  /\ groups \in Seq(SUBSET Tests) /\ groups # <<>>
  /\ Branches \subseteq (SUBSET Tests) \ {{}}
  /\ Reports \in Nat /\ Keys \in Nat
  /\ None \notin {"main", "worker"}

VARIABLES pc,           \* where each thread is
          loc,          \* and its locals: a buffer, or one that it builds
          group,        \* main: index of the group
          test,         \* main: the test that is reported
          reporter,     \* who holds the lock of the _LiveReporter
          tree,         \* _test_tree
          overlay,      \* _overlay: the rows of the open overlay, or None
          active,       \* _active_nodeid
          buffers,      \* _test_buffers
          summary,      \* _compat_buffer: how many updates it has seen
          dirty,        \* _dirty_regions
          consumed,     \* refresh thread: what _consume_dirty returned
          stop,         \* _refresh_stop
          narrow,       \* less than 80 columns
          in_alt,       \* _in_alt
          rendered,     \* _rendered: what the row cache says is drawn
          screen,       \* the content, its left offset and the tree pane
          left,         \* reports and keys still to come
          seen          \* what happened: interrupts, opened views, ...

view == <<tree, overlay, active, buffers, summary, dirty>>
disp == <<in_alt, rendered, screen>>
vars == <<pc, loc, group, test, reporter, view, consumed, stop, narrow, disp,
          left, seen>>

Runners == {"main", "worker"}
Threads == Runners \cup {"refresh"}
Regions == {"content", "overlay"}

Stored(t) == t \in seen.stored

Buffer == [summary : BOOLEAN, key : SUBSET Tests, todo : SUBSET Tests, tests : SUBSET Tests]
NoBuffer == [summary |-> FALSE, key |-> {}, todo |-> {}, tests |-> {}]

Go(p, place) == pc' = [pc EXCEPT ![p] = place]

Mark(regions) == dirty' = dirty \cup regions

Init ==
  /\ pc = [main |-> "add", worker |-> "idle", refresh |-> "wait"]
  /\ loc = [p \in Threads |-> NoBuffer]
  /\ group = 1 /\ test = None /\ reporter = None
  /\ tree = {} /\ overlay = None /\ active = {} /\ summary = 1 /\ dirty = {"content"}
  /\ buffers = [v \in (SUBSET Tests) \ {{}} |-> None]
  /\ consumed = {} /\ stop = FALSE /\ narrow \in BOOLEAN
  /\ in_alt = TRUE /\ rendered = None
  /\ screen = [content |-> None, offset |-> 0, pane |-> None]
  /\ left = [reports |-> Reports, keys |-> Keys]
  /\ seen = [stored |-> {}, opened |-> {}, interrupted |-> FALSE, crashed |-> FALSE,
             gave_up |-> FALSE, late |-> FALSE, overdrawn |-> FALSE]

-----------------------------------------------------------------------------
(* Display: whoever draws holds its lock, but tests _in_alt before.        *)

(* What the lines of a buffer are when they are drawn.                     *)
Lines(b) == [tests |-> b.tests, updates |-> IF b.summary THEN summary ELSE 0]

(* redraw_buffer; at the left edge it covers the tree pane.  seen notes    *)
(* that this happens over an open overlay, or on the normal screen.        *)
DrawBuffer(b, offset) ==
  LET drawn == <<Lines(b), offset>>
  IN  /\ rendered' = drawn
      /\ screen' = IF rendered = drawn THEN screen
                   ELSE [content |-> Lines(b), offset |-> offset,
                         pane |-> IF offset = 0 THEN None ELSE screen.pane]
      /\ seen' = [seen EXCEPT !.late = @ \/ ~in_alt,
                              !.overdrawn = @ \/ (rendered # drawn /\ overlay # None
                                                  /\ offset = 0)]

(* redraw_pane leaves the row cache alone, redraw_lines clears it.         *)
DrawPane ==
  /\ screen' = IF narrow THEN [content |-> None, offset |-> 0, pane |-> overlay]
                         ELSE [screen EXCEPT !.pane = overlay]
  /\ rendered' = IF narrow THEN None ELSE rendered
  /\ seen' = [seen EXCEPT !.late = @ \/ ~in_alt, !.overdrawn = FALSE]

-----------------------------------------------------------------------------
(* _active_buffer: _active_nodeid is read three times, the last time to    *)
(* store an empty buffer.                                                  *)

IsSummary(p) ==
  /\ pc[p] = "buffer"
  /\ IF active = {}
     THEN Go(p, "alt") /\ loc' = [loc EXCEPT ![p] = [NoBuffer EXCEPT !.summary = TRUE]]
     ELSE Go(p, "get") /\ UNCHANGED loc
  /\ UNCHANGED view

GetBuffer(p) ==
  /\ pc[p] = "get"
  /\ IF active # {} /\ buffers[active] # None
     THEN Go(p, "alt") /\ loc' = [loc EXCEPT ![p] = [NoBuffer EXCEPT !.tests = buffers[active]]]
     ELSE Go(p, "fill") /\ loc' = [loc EXCEPT ![p] = NoBuffer]
  /\ UNCHANGED view

FillBuffer(p) ==
  /\ pc[p] = "fill"
  /\ buffers' = IF active = {} THEN buffers ELSE [buffers EXCEPT ![active] = {}]
  /\ Go(p, "alt")
  /\ UNCHANGED <<loc, tree, overlay, active, summary, dirty>>

ActiveBuffer(p) == IsSummary(p) \/ GetBuffer(p) \/ FillBuffer(p)

(* Mutant: the combined lines replace the output of their first test.      *)
StoreAtFirst(p) ==
  buffers' = [buffers EXCEPT ![{CHOOSE t \in loc[p].key : TRUE}] = loc[p].tests]

StoreGroup(p) == buffers' = [buffers EXCEPT ![loc[p].key] = loc[p].tests]

(* _rebuild_group copies one test after the other, then stores.            *)
RebuildGroup(p, next) ==
  /\ pc[p] = "copy"
  /\ \/ /\ \E t \in loc[p].todo :
             LET buf == buffers[{t}]
             IN  loc' = [loc EXCEPT ![p].todo = @ \ {t},
                                    ![p].tests = IF buf = None THEN @ ELSE @ \cup buf]
        /\ UNCHANGED <<pc, buffers>>
     \/ loc[p].todo = {} /\ StoreGroup(p) /\ Go(p, next) /\ UNCHANGED loc
  /\ UNCHANGED <<tree, overlay, active, summary, dirty>>

StartRebuild(p, key) ==
  Go(p, "copy") /\ loc' = [loc EXCEPT ![p] = [NoBuffer EXCEPT !.key = key, !.todo = key]]

-----------------------------------------------------------------------------
(* The runner's threads: a _LiveReporter call updates lines of the summary *)
(* and redraws, holding the reporter's lock.                               *)

(* Mutant: without the lock.                                               *)
SetLineUnlocked(p) ==
  /\ reporter' = p
  /\ summary' = summary + 1
  /\ Mark({"content"})
  /\ Go(p, "redraw")
  /\ UNCHANGED <<tree, overlay, active, buffers, loc>>

SetLine(p) ==
  /\ reporter = None /\ reporter' = p
  /\ summary' = summary + 1
  /\ Mark({"content"})
  /\ Go(p, "redraw")
  /\ UNCHANGED <<tree, overlay, active, buffers, loc>>

Release(p) ==
  /\ reporter' = None
  /\ loc' = [loc EXCEPT ![p] = NoBuffer]
  /\ Go(p, IF p = "main" THEN "store" ELSE "idle")

Redraw(p) ==
  /\ pc[p] = "redraw"
  /\ IF overlay # None THEN Mark({"content"}) /\ Release(p)
                       ELSE Go(p, "buffer") /\ UNCHANGED <<reporter, loc, dirty>>
  /\ UNCHANGED <<tree, overlay, active, buffers, summary, disp, seen>>

TestInAlt(p) ==
  /\ pc[p] = "alt"
  /\ IF in_alt THEN Go(p, "draw") /\ UNCHANGED <<reporter, loc>> ELSE Release(p)
  /\ UNCHANGED <<view, disp, seen>>

RunnerDraws(p) ==
  /\ pc[p] = "draw"
  /\ DrawBuffer(loc[p], 0)
  /\ Release(p)
  /\ UNCHANGED <<view, in_alt>>

Report(p) ==
  \/ Redraw(p) \/ TestInAlt(p) \/ RunnerDraws(p)
  \/ ActiveBuffer(p) /\ UNCHANGED <<reporter, disp, seen>>

(* Where main collects the results of a group.                             *)
Reporting == {"next", "redraw", "buffer", "get", "fill", "alt", "draw",
              "store", "active?", "copy", "show"}

(* A worker: mark_running or mark_call_done of a test main has not begun   *)
(* to report; after an interrupt it goes on by itself.                     *)
Worker ==
  /\ \/ /\ pc.worker = "idle" /\ left.reports > 0
        /\ \/ seen.interrupted
           \/ /\ pc.main \in Reporting
              /\ \E t \in groups[group] \ {test} : ~Stored(t)
        /\ SetLine("worker")
        /\ left' = [left EXCEPT !.reports = @ - 1]
        /\ UNCHANGED <<disp, seen>>
     \/ Report("worker") /\ UNCHANGED left
  /\ UNCHANGED <<group, test, consumed, stop, narrow>>

(* add_test_items, in the main thread as everything below: the overlay may *)
(* be closed between the test and the use.                                 *)
AddTestItems ==
  /\ pc.main = "add"
  /\ tree' = tree \cup groups[group]
  /\ Go("main", "overlay?")
  /\ UNCHANGED <<loc, overlay, active, buffers, summary, dirty, seen>>

TestOverlay ==
  /\ pc.main = "overlay?"
  /\ Go("main", IF overlay # None THEN "rebuild" ELSE "next")
  /\ UNCHANGED <<loc, view, seen>>

RebuildOverlay ==
  /\ pc.main = "rebuild"
  /\ IF overlay # None
     THEN overlay' = tree /\ Mark({"overlay"}) /\ Go("main", "next") /\ UNCHANGED seen
     ELSE Go("main", "finish") /\ seen' = [seen EXCEPT !.crashed = TRUE]
          /\ UNCHANGED <<overlay, dirty>>
  /\ UNCHANGED <<loc, tree, active, buffers, summary>>

(* Main reports a test: mark_done, which has nothing to do when a worker   *)
(* has shown the letter already, then set_test_output.                     *)
NextTest ==
  /\ pc.main = "next"
  /\ \/ /\ \E t \in groups[group] : ~Stored(t) /\ test' = t
        /\ UNCHANGED group
        /\ \/ SetLine("main")
           \/ reporter = None /\ Go("main", "store") /\ UNCHANGED <<reporter, loc, view>>
     \/ /\ \A t \in groups[group] : Stored(t)
        /\ group' = IF group < Len(groups) THEN group + 1 ELSE group
        /\ Go("main", IF group < Len(groups) THEN "add" ELSE "finish")
        /\ UNCHANGED <<test, reporter, loc, view>>
  /\ UNCHANGED seen

StoreOutput ==
  /\ pc.main = "store"
  /\ buffers' = [buffers EXCEPT ![{test}] = {test}]
  /\ seen' = [seen EXCEPT !.stored = @ \cup {test}]
  /\ Go("main", "active?")
  /\ UNCHANGED <<loc, tree, overlay, active, summary, dirty>>

(* It reads _active_nodeid once, after the store.                          *)
OutputIsShown ==
  /\ pc.main = "active?"
  /\ IF test \notin active THEN Go("main", "next") /\ UNCHANGED loc
     ELSE IF active = {test} THEN Go("main", "show") /\ UNCHANGED loc
     ELSE StartRebuild("main", active)
  /\ UNCHANGED <<view, seen>>

MarkOutput ==
  /\ pc.main = "show"
  /\ Mark({"content"})
  /\ Go("main", "next") /\ loc' = [loc EXCEPT !.main = NoBuffer]
  /\ UNCHANGED <<tree, overlay, active, buffers, summary, seen>>

(* wait_and_leave: the status line, then SIGINT ends the wait.             *)
TestsComplete ==
  /\ pc.main = "finish"
  /\ Mark({"content"})
  /\ Go("main", "wait")
  /\ UNCHANGED <<loc, tree, overlay, active, buffers, summary>>

StopRefresh ==
  /\ pc.main = "wait"
  /\ stop' = TRUE
  /\ Go("main", "join")

(* Mutant: wait_and_leave does not wait for the refresh thread.            *)
NoJoin == pc.main = "join" /\ Go("main", "leave") /\ UNCHANGED seen

(* join(timeout=2) may give up.                                            *)
Join ==
  /\ pc.main = "join"
  /\ Go("main", "leave")
  /\ seen' = [seen EXCEPT !.gave_up = pc.refresh # "ended"]

Leave ==
  /\ pc.main = "leave"
  /\ in_alt' = FALSE /\ rendered' = None
  /\ Go("main", "left")
  /\ UNCHANGED screen

(* The first SIGINT, during the tests.                                     *)
Interrupt ==
  /\ pc.main \notin {"finish", "wait", "join", "leave", "left"}
  /\ Go("main", "finish")
  /\ reporter' = IF reporter = "main" THEN None ELSE reporter
  /\ seen' = [seen EXCEPT !.interrupted = TRUE]
  /\ loc' = [loc EXCEPT !.main = NoBuffer]
  /\ UNCHANGED <<group, test, view, stop, disp>>

Runs ==
  \/ (AddTestItems \/ TestOverlay \/ RebuildOverlay \/ StoreOutput \/ OutputIsShown \/ MarkOutput)
     /\ UNCHANGED <<group, test, reporter, stop, disp>>
  \/ NextTest /\ UNCHANGED <<stop, disp>>
  \/ Report("main") /\ UNCHANGED <<group, test, stop>>
  \/ RebuildGroup("main", "show") /\ UNCHANGED <<reporter, group, test, stop, disp, seen>>

Ends ==
  /\ \/ TestsComplete /\ UNCHANGED <<stop, disp, seen>>
     \/ Join /\ UNCHANGED <<loc, view, stop, disp>>
     \/ Leave /\ UNCHANGED <<loc, view, stop, seen>>
  /\ UNCHANGED <<group, test, reporter>>

MainRuns == (Runs \/ Ends) /\ UNCHANGED <<consumed, narrow, left>>

MainIsInterrupted ==
  /\ \/ Interrupt
     \/ StopRefresh /\ UNCHANGED <<loc, group, test, reporter, view, disp, seen>>
  /\ UNCHANGED <<consumed, narrow, left>>

-----------------------------------------------------------------------------
(* The refresh thread.                                                     *)

Wakes ==
  /\ pc.refresh = "wait"
  /\ Go("refresh", IF stop THEN "ended" ELSE "input")
  /\ UNCHANGED <<loc, view, rendered, left, seen>>

(* _process_input: Tab and the end of a view return at once, after another *)
(* key the loop goes on.                                                   *)
Key ==
  /\ pc.refresh = "input" /\ left.keys > 0
  /\ left' = [left EXCEPT !.keys = @ - 1]

PressTab ==
  /\ Key /\ (overlay # None \/ tree # {})
  /\ overlay' = IF overlay = None THEN tree ELSE None
  /\ Mark(IF overlay = None THEN Regions ELSE {"content"})
  /\ rendered' = None
  /\ Go("refresh", "consume")
  /\ UNCHANGED <<loc, tree, active, buffers, summary, seen>>

(* Enter on "Summary", or Escape.                                          *)
PressClose ==
  /\ Key /\ overlay # None
  /\ active' = {}
  /\ Mark(Regions)
  /\ rendered' = None
  /\ Go("refresh", "consume")
  /\ UNCHANGED <<loc, tree, overlay, buffers, summary, seen>>

(* Enter on a test.                                                        *)
PressJump ==
  /\ Key /\ overlay # None
  /\ \E t \in overlay : active' = {t} /\ seen' = [seen EXCEPT !.opened = @ \cup {t}]
  /\ Mark(Regions)
  /\ rendered' = None
  /\ UNCHANGED <<pc, loc, tree, overlay, buffers, summary>>

(* Enter on a branch: _show_group, which rebuilds before it switches.      *)
PressBranch ==
  /\ Key /\ overlay # None
  /\ \E b \in Branches :
       /\ b \cap overlay # {}
       /\ StartRebuild("refresh", b \cap tree)
       /\ seen' = [seen EXCEPT !.opened = @ \cup
                      (IF Cardinality(b \cap tree) = 1 THEN b \cap tree ELSE {})]
  /\ UNCHANGED <<view, rendered>>

ShowGroup ==
  /\ pc.refresh = "show"
  /\ active' = loc.refresh.key
  /\ Mark(Regions)
  /\ rendered' = None
  /\ Go("refresh", "input") /\ loc' = [loc EXCEPT !.refresh = NoBuffer]
  /\ UNCHANGED <<tree, overlay, buffers, summary, left, seen>>

NoMoreInput ==
  /\ pc.refresh = "input"
  /\ Go("refresh", "consume")
  /\ UNCHANGED <<loc, view, rendered, left, seen>>

Input ==
  \/ PressTab \/ PressClose \/ PressJump \/ PressBranch \/ ShowGroup \/ NoMoreInput
  \/ RebuildGroup("refresh", "show") /\ UNCHANGED <<rendered, left, seen>>

ConsumeDirty ==
  /\ pc.refresh = "consume"
  /\ consumed' = dirty /\ dirty' = {}
  /\ Go("refresh", "buffer")

(* The content is drawn if it is dirty and not hidden by the overlay, the  *)
(* tree pane before it.                                                    *)
Shows(region) ==
  IF region = "overlay" THEN overlay # None /\ region \in consumed
                        ELSE (overlay = None \/ ~narrow) /\ region \in consumed

(* Mutant: the dirty set is cleared when all is drawn.                     *)
RefreshClears ==
  /\ Go("refresh", "wait")
  /\ loc' = [loc EXCEPT !.refresh = NoBuffer] /\ consumed' = {}
  /\ dirty' = {}

RefreshWaits ==
  /\ Go("refresh", "wait")
  /\ loc' = [loc EXCEPT !.refresh = NoBuffer] /\ consumed' = {}
  /\ UNCHANGED dirty

RefreshTests ==
  /\ pc.refresh \in {"alt", "content"}
  /\ LET pane == pc.refresh = "alt" /\ Shows("overlay") /\ in_alt
         content == Shows("content") /\ in_alt
     IN  IF pane THEN Go("refresh", "pane") /\ UNCHANGED <<loc, consumed, dirty>>
         ELSE IF content THEN Go("refresh", "draw") /\ UNCHANGED <<loc, consumed, dirty>>
         ELSE RefreshWaits
  /\ UNCHANGED <<rendered, screen, seen>>

RefreshDrawsPane ==
  /\ pc.refresh = "pane"
  /\ DrawPane
  /\ Go("refresh", "content")
  /\ UNCHANGED <<loc, consumed, dirty>>

RefreshDraws ==
  /\ pc.refresh = "draw"
  /\ DrawBuffer(loc.refresh, IF overlay = None THEN 0 ELSE 1)
  /\ RefreshWaits

Refresh ==
  /\ \/ (Wakes \/ Input) /\ UNCHANGED <<consumed, screen>>
     \/ ConsumeDirty /\ UNCHANGED <<loc, tree, overlay, active, buffers, summary, rendered,
                                    screen, left, seen>>
     \/ ActiveBuffer("refresh") /\ UNCHANGED <<consumed, rendered, screen, left, seen>>
     \/ (RefreshTests \/ RefreshDrawsPane \/ RefreshDraws) 
        /\ UNCHANGED <<tree, overlay, active, buffers, summary, left>>
  /\ UNCHANGED <<group, test, reporter, stop, narrow, in_alt>>

Done == pc.main = "left" /\ pc.refresh = "ended" /\ UNCHANGED vars

Next == MainRuns \/ MainIsInterrupted \/ Worker \/ Refresh \/ Done

Spec == Init /\ [][Next]_vars

(* Threads are preemptive; nothing makes the user press a key or Ctrl+C.   *)
FairSpec ==
  /\ Spec
  /\ WF_vars(MainRuns) /\ WF_vars(Worker) /\ WF_vars(Refresh)

-----------------------------------------------------------------------------
(* Properties.                                                             *)

(* Types of the variables.                                                 *)
TypeInv ==
  /\ DOMAIN pc = Threads /\ loc \in [Threads -> Buffer]
  /\ group \in 1 .. Len(groups) /\ test \in Tests \cup {None}
  /\ reporter \in Runners \cup {None}
  /\ tree \subseteq Tests /\ (overlay = None \/ overlay \subseteq tree)
  /\ active \subseteq Tests /\ summary \in Nat \ {0}
  /\ \A v \in DOMAIN buffers : buffers[v] = None \/ buffers[v] \subseteq Tests
  /\ dirty \subseteq Regions /\ consumed \subseteq Regions
  /\ {stop, narrow, in_alt} \subseteq BOOLEAN
  /\ screen.offset \in {0, 1} /\ (screen.pane = None \/ screen.pane \subseteq Tests)
  /\ (pc.worker = "idle" \/ reporter = "worker" \/ seen.interrupted)

(* The output of a test nobody opened alone is never lost, whatever else   *)
(* is shown, rebuilt or filled with nothing while tests finish.            *)
OutputLostOnlyIfOpened ==
  \A t \in seen.stored \ seen.opened : buffers[{t}] = {t}

(* Output that set_test_output "stores" stays stored.                      *)
OutputKept ==
  \A t \in seen.stored : buffers[{t}] = {t}

(* After the alternate screen was left nothing is drawn any more, unless a *)
(* SIGINT left a worker behind or the refresh thread outlived the join.    *)
NothingDrawnAfterLeave ==
  seen.late => seen.interrupted \/ seen.gave_up

(* add_test_items does not fail: the overlay it tested is still there.     *)
RunnerNotHurt == ~seen.crashed

(* What the screen shows is what it should: the active view at the right   *)
(* column, and beside it the rows of the tree.  The pane may be covered by *)
(* the drawing of a runner that did not see the overlay open.              *)
Current ==
  LET lines == [tests |-> IF active = {} \/ buffers[active] = None THEN {} ELSE buffers[active],
                updates |-> IF active = {} THEN summary ELSE 0]
  IN  /\ (overlay = None \/ ~narrow) =>
           screen.content = lines /\ screen.offset = (IF overlay = None THEN 0 ELSE 1)
      /\ overlay # None => screen.pane = overlay \/ seen.overdrawn

(* The lines of a group view are those of all its tests that are done.     *)
ViewComplete ==
  active # {} => active \cap seen.stored \subseteq
                   (IF buffers[active] = None THEN {} ELSE buffers[active])

(* When the tests are over and the user presses no more keys, the screen   *)
(* shows the latest state, however its two threads raced for it before.    *)
ScreenCatchesUp ==
  <>[](pc.main = "wait" /\ ~seen.interrupted => Current)

(* "If the user is currently viewing this test (or a group containing it), *)
(* the content pane is refreshed."                                         *)
ViewCatchesUp ==
  <>[](pc.main = "wait" /\ ~seen.interrupted => ViewComplete)
=============================================================================

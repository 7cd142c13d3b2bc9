----------------------------- MODULE SplitView -----------------------------
(***************************************************************************)
(* SplitView: the refresh thread between the tree and the content pane, in *)
(* a terminal of 80 columns or more.  It routes a batch of input events to *)
(* the focused pane, opens and closes the tree, shows the selected view,   *)
(* and then draws what is marked; the main thread adds the tests of each   *)
(* group, stores their output and changes lines of the summary meanwhile.  *)
(*                                                                         *)
(* A view is the set of its tests, {} the summary.  LiveView models how    *)
(* the threads interleave within a drawing and within _active_buffer; here *)
(* a drawing of the content is one step, and consumes its mark.            *)
(***************************************************************************)
EXTENDS TreeOverlay, ContentPane

CONSTANTS groups,       \* the sets of tests of the parallel groups
          OutLines      \* [tests -> how many lines their output has]

ASSUME SplitAssumption ==
  /\ Views = SUBSET LeafNodes /\ Summary = {}
  /\ UNION Range(groups) = LeafNodes /\ OutLines \in [LeafNodes -> Nat]

VARIABLES focus,        \* _keyboard_focus: "overlay" or "content"
          tree_dirty,   \* the overlay is marked dirty
          tree_changed, \* overlay_changed of _process_input
          phase         \* the refresh thread: "input", "tree", "content"

vars == <<tvars, cvars, focus, tree_dirty, tree_changed, phase>>

-----------------------------------------------------------------------------
(* _process_input.                                                         *)

(* A key of the tree is two or three steps of the refresh thread.          *)
Input == phase = "input" /\ alive /\ pending = None

TreeFocus == overlay # None /\ focus = "overlay"

(* Tab: the rest of the batch is dropped, and what it changed so far is    *)
(* covered by the marks set here.                                          *)
ReturnAtOnce == changed' = FALSE /\ tree_changed' = FALSE /\ phase' = "tree"

CloseTree ==
  /\ Input /\ overlay # None
  /\ overlay' = None /\ painted' = FALSE
  /\ ClearCache /\ ReturnAtOnce
  /\ UNCHANGED <<tree, expanded, outcome, pending, raised, pane, runner, rows, focus,
                 tree_dirty>>

OpenTree ==
  /\ Input /\ overlay = None /\ tree # {}
  /\ overlay' = Open /\ painted' = FALSE
  /\ focus' = "overlay" /\ tree_dirty' = TRUE
  /\ ClearCache /\ ReturnAtOnce
  /\ UNCHANGED <<tree, expanded, outcome, pending, raised, pane, runner, rows>>

(* Ctrl+Left and Ctrl+Right.                                               *)
SwitchFocus ==
  /\ Input /\ overlay # None
  /\ focus' = IF focus = "overlay" THEN "content" ELSE "overlay"
  /\ UNCHANGED <<tvars, cvars, tree_dirty, tree_changed, phase>>

KeyInTree ==
  /\ Input
  /\ (TreeFocus /\ TreeKey) \/ MoveBegins(WheelRows)
  /\ tree_changed' = TRUE
  /\ UNCHANGED <<cvars, focus, tree_dirty, phase>>

FinishKey ==
  /\ alive /\ (MoveEnds \/ RowKey \/ RebuildEnds)
  /\ UNCHANGED <<cvars, focus, tree_dirty, tree_changed, phase>>

(* Enter on a test or a branch.                                            *)
Jump ==
  /\ alive /\ OnRow /\ Selected # {}
  /\ pending' = None
  /\ ShowView(Selected)
  /\ UNCHANGED <<tree, expanded, outcome, overlay, painted, raised, changed, focus,
                 tree_dirty, tree_changed, phase>>

(* Escape without a query, Enter on "Summary": back to the summary.  The   *)
(* tree stays open.                                                        *)
Close ==
  /\ \/ Input /\ TreeFocus /\ overlay.query = 0
     \/ alive /\ OnRow /\ node = None
  /\ pending' = None
  /\ ShowView({}) /\ ReturnAtOnce
  /\ tree_dirty' = TRUE
  /\ UNCHANGED <<tree, expanded, outcome, overlay, painted, raised, focus>>

ContentKey ==
  /\ Input
  /\ (~TreeFocus /\ PaneKey) \/ PaneWheel
  /\ UNCHANGED <<tvars, focus, tree_dirty, tree_changed, phase>>

(* Ctrl+W where the directory of the file cannot be made: outside the try. *)
SaveRaises ==
  /\ Input /\ ~TreeFocus /\ ~search.typing
  /\ raised' = "OSError"
  /\ UNCHANGED <<tree, expanded, outcome, overlay, pending, painted, cvars, focus,
                 tree_dirty, tree_changed, phase>>

(* Mutant: the mark of the tree is forgotten.                              *)
EndForgetsTree ==
  /\ Input /\ phase' = "tree"
  /\ tree_changed' = FALSE
  /\ EndInput
  /\ UNCHANGED <<tvars, focus, tree_dirty>>

EndOfBatch ==
  /\ Input /\ phase' = "tree"
  /\ tree_dirty' = (tree_dirty \/ tree_changed) /\ tree_changed' = FALSE
  /\ EndInput
  /\ UNCHANGED <<tvars, focus>>

ProcessInput == CloseTree \/ OpenTree \/ SwitchFocus \/ KeyInTree \/ FinishKey \/ Jump \/ Close
                \/ ContentKey \/ SaveRaises \/ EndOfBatch

-----------------------------------------------------------------------------
(* _refresh_loop: the tree, then the content.                              *)

StartTree ==
  /\ phase = "tree" /\ alive /\ pending = None
  /\ tree_dirty' = FALSE
  /\ IF tree_dirty /\ overlay # None THEN RenderBegins /\ UNCHANGED phase
                                     ELSE UNCHANGED tvars /\ phase' = "content"
  /\ UNCHANGED <<cvars, focus, tree_changed>>

FinishTree ==
  /\ alive /\ RenderEnds
  /\ phase' = "content"
  /\ UNCHANGED <<cvars, focus, tree_dirty, tree_changed>>

DrawContent ==
  /\ phase = "content" /\ alive
  /\ phase' = "input"
  /\ RefreshRedraws \/ (~dirty /\ UNCHANGED cvars)
  /\ UNCHANGED <<tvars, focus, tree_dirty, tree_changed>>

Refresh == ProcessInput \/ StartTree \/ FinishTree \/ DrawContent

-----------------------------------------------------------------------------
(* The main thread.                                                        *)

TestsDone == \A l \in tree \cap LeafNodes : outcome[l] # ""

(* The next group begins: add_test_items marks the tree if it is open.     *)
AddTestItems ==
  /\ runner = "idle" /\ TestsDone
  /\ \E k \in DOMAIN groups :
       /\ ~(groups[k] \subseteq tree) /\ \A j \in 1 .. k - 1 : groups[j] \subseteq tree
       /\ AddItems(groups[k] \cup UNION {Ancestors[l] : l \in groups[k]})
  /\ tree_dirty' = (tree_dirty \/ overlay # None)
  /\ UNCHANGED <<cvars, focus, tree_changed, phase>>

(* set_test_output: of a test, and of every branch above it.               *)
SetTestOutput ==
  /\ \E l \in LeafNodes :
       /\ TestDone(l)
       /\ AddOutput({v \in Views : l \in v}, OutLines[l])
  /\ UNCHANGED <<focus, tree_dirty, tree_changed, phase>>

Report ==
  /\ AddContent \/ RunnerRedraws(overlay # None)
  /\ UNCHANGED <<tvars, focus, tree_dirty, tree_changed, phase>>

Complete ==
  /\ TestsDone /\ LeafNodes \subseteq tree
  /\ TestsComplete
  /\ UNCHANGED <<tvars, focus, tree_dirty, tree_changed, phase>>

Main == AddTestItems \/ SetTestOutput \/ Report \/ Complete

Init ==
  /\ TreeInit /\ PaneInit
  /\ focus = "overlay" /\ tree_dirty = TRUE /\ tree_changed = FALSE
  /\ phase = "tree"

Next == Refresh \/ Main

Spec == Init /\ [][Next]_vars

-----------------------------------------------------------------------------
(* Properties.                                                             *)

(* Types of the variables.                                                 *)
TypeInv ==
  /\ TreeTypeInv /\ PaneTypeInv
  /\ focus \in {"overlay", "content"} /\ phase \in {"input", "tree", "content"}
  /\ {tree_dirty, tree_changed} \subseteq BOOLEAN

(* When nothing is marked or changed both panes show what they should: the *)
(* rows of the content, see ContentPane, and the window of the tree with   *)
(* its cursor, whatever keys, views and groups came before.                *)
PanesRight ==
  /\ RowsRight
  /\ overlay # None /\ ~tree_dirty /\ ~tree_changed /\ pending = None /\ phase # "tree" /\ alive
       => painted
=============================================================================

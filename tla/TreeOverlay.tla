---------------------------- MODULE TreeOverlay ----------------------------
(***************************************************************************)
(* TreeOverlay: the rows of the test tree, filtered by a query and by the  *)
(* outcomes, with a cursor and a window.  The refresh thread handles the   *)
(* keys and renders; the main thread inserts the tests of each new group   *)
(* and rebuilds the rows meanwhile.  A cursor move, a key on a row and a   *)
(* rendering read the number of rows first and use it later, a rebuild     *)
(* computes the rows first and stores them later, all without a lock.      *)
(***************************************************************************)
EXTENDS Terminal, Sequences, SequencesExt

CONSTANTS order,        \* the nodes of the tree, depth first
          parent,       \* [nodes -> nodes, or None at the top]
          Match         \* what matches the query after each typed character

Nodes == Range(order)

ASSUME TreeAssumption ==
  /\ IsInjective(order) /\ parent \in [Nodes -> Nodes \cup {None}]
  /\ \A k \in DOMAIN order : parent[order[k]] \in {None} \cup {order[j] : j \in 1 .. k - 1}
  /\ \A q \in DOMAIN Match : Match[q] \subseteq IF q = 1 THEN Nodes ELSE Match[q - 1]
  /\ order \in Seq(Nodes) /\ Match \in Seq(SUBSET Nodes)

(* The overlay, and what the refresh thread is in the middle of.           *)
Overlays == [cursor : Nat, scroll : Nat, query : 0 .. Len(Match),
             hide : SUBSET {"passed", "failed"}, visible : Seq(Nodes \cup {None}),
             blind : BOOLEAN, shrunk : BOOLEAN]
Pendings == [kind : {"move", "row", "render"}, row : Nat]
            \cup [kind : {"rebuild"}, rows : Seq(Nodes \cup {None})]

ASSUME NoneAssumption == None \notin Overlays /\ None \notin Pendings /\ None \notin Nodes

VARIABLES tree,         \* the nodes inserted so far
          expanded,     \* those of them that are not folded
          outcome,      \* _test_outcomes: "" (none yet), "passed", "failed"
          overlay,      \* the overlay, None when it is closed
          pending,      \* a key, a rebuild or a rendering under way, or None
          painted,      \* the pane shows the window of the rows and the cursor
          raised        \* what has ended the refresh thread, or ""

tvars == <<tree, expanded, outcome, overlay, pending, painted, raised>>

alive == raised = ""

AtRow == pending # None /\ pending.kind = "row"

Rebuilding == pending # None /\ pending.kind = "rebuild"

is_leaf(n) == \A m \in Nodes : parent[m] # n

LeafNodes == {n \in Nodes : is_leaf(n)}

(* The nodes on the way from a node to the top.                            *)
Ancestors == [n \in Nodes |->
  {m \in Nodes \ {n} : \A way \in SUBSET Nodes :
     n \in way /\ (\A k \in way : parent[k] \in way \cup {None}) => m \in way}]

collect_leaves(n) == {l \in tree \cap LeafNodes : n \in Ancestors[l]}

-----------------------------------------------------------------------------
(* _build_visible, for an overlay o.                                       *)

(* o.blind: its outcomes are a dictionary of its own, see Open.            *)
is_hidden(o, n) == n \in LeafNodes /\ ~o.blind /\ outcome[n] \in o.hide

fuzzy_match(o, n) == o.query = 0 \/ n \in Match[o.query]

(* Mutant: a branch is shown when none of its leaves is filtered out.      *)
every_leaf_visible(o, nodes, n) ==
  \A l \in nodes \cap LeafNodes : n \in Ancestors[l] => ~is_hidden(o, l) /\ fuzzy_match(o, l)

has_visible_leaf(o, nodes, n) ==
  \E l \in nodes \cap LeafNodes : n \in Ancestors[l] /\ ~is_hidden(o, l) /\ fuzzy_match(o, l)

has_matching_descendant(o, nodes, n) ==
  \E m \in nodes : n \in Ancestors[m] /\ fuzzy_match(o, m)

is_visible(o, nodes, open, n) ==
  /\ n \in nodes /\ Ancestors[n] \subseteq open
  /\ ~is_hidden(o, n)
  /\ n \in LeafNodes \/ has_visible_leaf(o, nodes, n)
  /\ fuzzy_match(o, n) \/ has_matching_descendant(o, nodes, n)

Shown(o, nodes, open) == {k \in DOMAIN order : is_visible(o, nodes, open, order[k])}

build_visible(o, nodes, open) ==
  LET ks == Ascending(Shown(o, nodes, open))
  IN  <<None>> \o [r \in DOMAIN ks |-> order[ks[r]]]

last(o) == Len(o.visible) - 1

view_h == Height - 2

(* Mutant: the last row of the window is taken for the search bar.         *)
ensure_visible_late(o) ==
  [o EXCEPT !.scroll = IF o.cursor < @ THEN o.cursor
                       ELSE IF o.cursor > @ + view_h THEN o.cursor - view_h + 1 ELSE @]

ensure_visible(o) ==
  [o EXCEPT !.scroll = IF o.cursor < @ THEN o.cursor
                       ELSE IF o.cursor >= @ + view_h THEN o.cursor - view_h + 1 ELSE @]

store(o, visible) ==
  ensure_visible([o EXCEPT !.visible = visible, !.shrunk = FALSE,
                           !.cursor = IF @ < Len(visible) THEN @ ELSE Len(visible) - 1])

rebuild(o, nodes, open) == store(o, build_visible(o, nodes, open))

(* The rows of the window, the end of it first.                            *)
LastShown(o) == (IF o.scroll + view_h < Len(o.visible) THEN o.scroll + view_h ELSE Len(o.visible)) - 1

Window(o) == <<o.cursor, o.scroll, SubSeq(o.visible, o.scroll + 1, LastShown(o) + 1)>>

Replace(o) ==
  /\ overlay' = o
  /\ painted' = (painted /\ o # None /\ Window(o) = Window(overlay))

-----------------------------------------------------------------------------
(* The refresh thread.                                                     *)

(* TreeOverlay(...): "outcomes or {}" - as long as there is no outcome at  *)
(* all the overlay gets an empty dictionary that stays empty.              *)
Open ==
  LET o == [cursor |-> 0, scroll |-> 0, query |-> 0, hide |-> {}, visible |-> <<None>>,
            blind |-> \A l \in LeafNodes : outcome[l] = "", shrunk |-> FALSE]
  IN  [o EXCEPT !.visible = build_visible(o, tree, expanded)]

Ready == alive /\ overlay # None /\ pending = None

(* Up, Down, PageUp, PageDown, Home and End: those that move up stop at    *)
(* the first row only, those that move down at the last.  The wheel stops  *)
(* at both.                                                                *)
UpTo(c) == IF c < 0 THEN 0 ELSE c
DownTo(c) == IF c > last(overlay) THEN last(overlay) ELSE c

KeyRows ==
  LET c == overlay.cursor
  IN  {UpTo(c - 1), DownTo(c + 1), UpTo(c - (Height - 3)), DownTo(c + Height - 3), 0,
       UpTo(last(overlay))}

WheelRows == {DownTo(UpTo(overlay.cursor + d)) : d \in {1, -1}}

MoveBegins(to) ==
  /\ Ready
  /\ \E c \in to : pending' = [kind |-> "move", row |-> c]
  /\ UNCHANGED <<tree, expanded, outcome, overlay, painted, raised>>

MoveEnds ==
  /\ pending # None /\ pending.kind = "move"
  /\ pending' = None
  /\ Replace(ensure_visible([overlay EXCEPT !.cursor = pending.row]))
  /\ UNCHANGED <<tree, expanded, outcome, raised>>

(* render: the end of the window, then its rows; a row that is gone raises *)
(* IndexError, which nothing catches.                                      *)
RenderBegins ==
  /\ Ready
  /\ pending' = [kind |-> "render", row |-> LastShown(overlay)]
  /\ UNCHANGED <<tree, expanded, outcome, overlay, painted, raised>>

RenderEnds ==
  /\ pending # None /\ pending.kind = "render"
  /\ pending' = None /\ painted' = (pending.row = LastShown(overlay))
  /\ raised' = IF pending.row < overlay.scroll \/ pending.row <= last(overlay) THEN ""
               ELSE "IndexError"
  /\ UNCHANGED <<tree, expanded, outcome, overlay>>

(* _rebuild: the query, the filter, a fold or the cursor of o are changed  *)
(* and the rows computed from the tree of now; main may add tests and      *)
(* rebuild before they are stored.                                         *)
Change(o) ==
  /\ Replace(o)
  /\ pending' = [kind |-> "rebuild", rows |-> build_visible(o, tree, expanded')]
  /\ UNCHANGED <<tree, outcome, raised>>

RebuildEnds ==
  /\ Rebuilding
  /\ pending' = None
  /\ Replace(store(overlay, pending.rows))
  /\ UNCHANGED <<tree, expanded, outcome, raised>>

(* Right, Left and Enter: the cursor is on a row, then the row is read.    *)
RowKeyBegins ==
  /\ Ready /\ overlay.cursor <= last(overlay)
  /\ pending' = [kind |-> "row", row |-> overlay.cursor]
  /\ UNCHANGED <<tree, expanded, outcome, overlay, painted, raised>>

node == overlay.visible[overlay.cursor + 1]

OnRow == AtRow /\ overlay.cursor <= last(overlay)

ExpandCurrent ==
  /\ OnRow /\ node \in Nodes \ (LeafNodes \cup expanded)
  /\ expanded' = expanded \cup {node}
  /\ Change(overlay)

CollapseCurrent ==
  /\ OnRow /\ node \in expanded \ LeafNodes
  /\ expanded' = expanded \ {node}
  /\ Change(overlay)

Depth(n) == IF n = None THEN 0 ELSE Cardinality(Ancestors[n]) + 1

CollapseParent ==
  /\ OnRow /\ node \in LeafNodes
  /\ \E i \in 0 .. overlay.cursor - 1 :
       LET up(k) == /\ overlay.visible[k + 1] \in expanded \ LeafNodes
                    /\ Depth(overlay.visible[k + 1]) < Depth(node)
       IN  /\ up(i) /\ \A k \in i + 1 .. overlay.cursor - 1 : ~up(k)
           /\ expanded' = expanded \ {overlay.visible[i + 1]}
           /\ Change([overlay EXCEPT !.cursor = i])

(* Nothing to unfold, to fold or to show; or main took the row away after  *)
(* it was checked, and reading it may raise IndexError.                    *)
RowKeyIgnored ==
  /\ AtRow
  /\ pending' = None
  /\ raised' \in {""} \cup IF pending.row > last(overlay) THEN {"IndexError"} ELSE {}
  /\ UNCHANGED <<tree, expanded, outcome, overlay, painted>>

RowKey == ExpandCurrent \/ CollapseCurrent \/ CollapseParent \/ RowKeyIgnored

(* The query and the outcome toggles.                                      *)
Requery ==
  /\ Ready /\ UNCHANGED expanded
  /\ \E q \in {overlay.query + 1, overlay.query - 1, 0} \cap 0 .. Len(Match) :
       q # overlay.query /\ Change([overlay EXCEPT !.query = q])

Toggle ==
  /\ Ready /\ UNCHANGED expanded
  /\ \E out \in {"passed", "failed"} :
       Change([overlay EXCEPT !.hide = (@ \ {out}) \cup ({out} \ @)])

TreeKey == MoveBegins(KeyRows) \/ RowKeyBegins \/ Requery \/ Toggle

(* Enter: a test, the tests below a branch, or {} to return to the summary.*)
Selected == IF node = None THEN {} ELSE IF node \in LeafNodes THEN {node}
            ELSE collect_leaves(node)

-----------------------------------------------------------------------------
(* The main thread.                                                        *)

(* _rebuild of main; o.shrunk: the refresh thread was using more rows.     *)
AddItems(group) ==
  /\ tree' = tree \cup group
  /\ Replace(IF overlay = None THEN None
             ELSE LET o == rebuild(overlay, tree', expanded)
                  IN  [o EXCEPT !.shrunk = \/ overlay.shrunk
                                           \/ /\ pending # None /\ ~Rebuilding
                                              /\ pending.row > last(o)])
  /\ UNCHANGED <<expanded, outcome, pending, raised>>

TestDone(l) ==
  /\ l \in tree \cap LeafNodes /\ outcome[l] = ""
  /\ \E out \in {"passed", "failed"} : outcome' = [outcome EXCEPT ![l] = out]
  /\ UNCHANGED <<tree, expanded, overlay, pending, painted, raised>>

TreeInit ==
  /\ tree = {} /\ expanded = Nodes
  /\ outcome = [l \in LeafNodes |-> ""]
  /\ overlay = None /\ pending = None /\ painted = FALSE /\ raised = ""

-----------------------------------------------------------------------------
(* Properties.                                                             *)

(* Types of the variables.                                                 *)
TreeTypeInv ==
  /\ tree \subseteq Nodes /\ expanded \subseteq Nodes
  /\ outcome \in [LeafNodes -> {"", "passed", "failed"}]
  /\ overlay \in Overlays \cup {None} /\ pending \in Pendings \cup {None}
  /\ overlay # None => /\ overlay.visible # <<>> /\ overlay.visible[1] = None
                       /\ Range(Tail(overlay.visible)) \subseteq tree
  /\ painted \in BOOLEAN /\ raised \in {"", "IndexError", "OSError"}

(* Whatever is folded, filtered, inserted or finished, the cursor is on a  *)
(* row and the row is in the window once no rebuild is under way, and no   *)
(* missing row ends the refresh thread - unless outcomes are hidden and    *)
(* main took rows away while the refresh thread was using them.            *)
CursorOnRow ==
  /\ overlay # None /\ ~Rebuilding =>
       /\ overlay.shrunk => overlay.hide # {}
       /\ ~overlay.shrunk =>
            /\ overlay.cursor \in 0 .. last(overlay)
            /\ overlay.scroll <= overlay.cursor /\ overlay.cursor < overlay.scroll + view_h
  /\ raised = "IndexError" => overlay # None /\ overlay.shrunk

(* The refresh thread never dies: "scroll input is always responsive".     *)
RefreshLives == alive

(* While no outcome is hidden the rows are those of all the tests, also of *)
(* a group that was added while a key rebuilt them (_tree_overlay.py:352). *)
NewTestsListed ==
  overlay # None /\ overlay.hide = {} /\ pending = None =>
    overlay.visible = build_visible(overlay, tree, expanded)
=============================================================================

--------------------------- MODULE SplitViewProofs ---------------------------
(***************************************************************************)
(* Proofs about TreeOverlay, ContentPane and SplitView, for any tree,      *)
(* queries, groups, outputs and lines that match, and any terminal of at   *)
(* least four rows.                                                        *)
(***************************************************************************)
EXTENDS SplitView, TLAPS, FiniteSetTheorems

Searches == [typing : BOOLEAN, text : BOOLEAN, matches : Seq(Nat), idx : Nat]

History == [bars : SUBSET BOOLEAN, jumped : BOOLEAN, dropped : BOOLEAN, plain : BOOLEAN]

(* Rows of nodes: the top, then nodes of them.                             *)
RowsOf(nodes, visible) ==
  /\ visible \in Seq(Nodes \cup {None}) /\ visible # <<>> /\ visible[1] = None
  /\ Range(Tail(visible)) \subseteq nodes

(* What the refresh thread is in the middle of: a row that is there unless *)
(* main took rows away, or rows to be stored, in the part of its loop that *)
(* began it.                                                               *)
PendingInv ==
  pending # None =>
    /\ overlay # None
    /\ ~Rebuilding /\ ~overlay.shrunk => pending.row <= last(overlay)
    /\ Rebuilding => RowsOf(tree, pending.rows)
    /\ pending.kind # "render" => phase = "input" /\ tree_changed
    /\ pending.kind = "render" =>
         phase = "tree" /\ (tree_dirty \/ pending.row = LastShown(overlay))

(* The rows of nodes while no outcome is hidden, whatever the outcomes.    *)
Matches(q, n) == q = 0 \/ n \in Match[q]

Unhidden(q, nodes, open) ==
  {k \in DOMAIN order :
     /\ order[k] \in nodes /\ Ancestors[order[k]] \subseteq open
     /\ \/ order[k] \in LeafNodes
        \/ \E l \in nodes \cap LeafNodes : order[k] \in Ancestors[l] /\ Matches(q, l)
     /\ \/ Matches(q, order[k])
        \/ \E m \in nodes : order[k] \in Ancestors[m] /\ Matches(q, m)}

UnhiddenRows(q, nodes, open) ==
  LET ks == Ascending(Unhidden(q, nodes, open))
  IN  <<None>> \o [r \in DOMAIN ks |-> order[ks[r]]]

(* While no outcome is hidden the rows, or those that are about to be      *)
(* stored, are the rows of some tests, if not of all.                      *)
FreshRows ==
  overlay # None /\ overlay.hide = {} =>
    \E nodes \in SUBSET tree :
      (IF Rebuilding THEN pending.rows ELSE overlay.visible)
        = UnhiddenRows(overlay.query, nodes, expanded)

(* The tree pane shows the window unless it is marked.                     *)
TreePainted ==
  overlay # None /\ ~tree_dirty /\ ~tree_changed /\ pending = None /\ alive => painted

(* The types of the content pane.                                          *)
PaneTypes ==
  /\ search \in Searches /\ (HasMatches => search.idx \in DOMAIN search.matches)
  /\ (~HasMatches => search.idx = 0)
  /\ seen \in History

(* What a key of the cache says of its row.                                *)
Content(key) ==
  IF Len(key) = 1 THEN <<>>
  ELSE <<key[3][1], key[3][2],
         IF key[2] = None \/ key[3][2] \notin Hits[key[3][1]] THEN "plain"
         ELSE IF key[3][2] = key[2] THEN "current" ELSE "match">>

(* Where the cache has a key, the row shows what the key says: the lines,  *)
(* the row above the hint as long as only lines, or only bars, were drawn  *)
(* on it, and the hint.                                                    *)
CacheInv ==
  /\ \A r \in 0 .. Height - 3 : rendered[r] = <<>> \/ rows[r] = Content(rendered[r])
  /\ TRUE \notin seen.bars => rendered[Height - 2] = <<>>
  /\ FALSE \notin seen.bars => rendered[Height - 1] = <<>>
  /\ FALSE \notin seen.bars =>
       rendered[Height - 2] = <<>> \/ rows[Height - 2] = Content(rendered[Height - 2])
  /\ TRUE \notin seen.bars =>
       rendered[Height - 1] = <<>> \/ rows[Height - 2] = rendered[Height - 1]
  /\ rendered[Height] = <<>> \/ rows[Height - 1] = <<"hint">>

(* A jump has left a match, and no query is being typed.                   *)
JumpInv == seen.jumped => HasMatches /\ ~search.typing

-----------------------------------------------------------------------------
(* Operators.                                                              *)

(* Every rank is that of some number of a finite set.                      *)
LEMMA EveryRank ==
  ASSUME NEW S \in SUBSET Int, IsFiniteSet(S)
  PROVE  /\ Cardinality(S) \in Nat
         /\ \A k \in 1 .. Cardinality(S) : \E n \in S : Cardinality({m \in S : m <= n}) = k
  <1> DEFINE Below(n) == {m \in S : m <= n}
             f == [n \in S |-> Cardinality(Below(n))]
             C == Cardinality(S)
  <1>1. C \in Nat
    BY FS_CardinalityType
  <1>2. \A n \in S : /\ IsFiniteSet(Below(n)) /\ Cardinality(Below(n)) \in Nat
                     /\ Cardinality(Below(n)) <= C /\ Cardinality(Below(n)) # 0
    <2> SUFFICES ASSUME NEW n \in S
                 PROVE  /\ IsFiniteSet(Below(n)) /\ Cardinality(Below(n)) \in Nat
                        /\ Cardinality(Below(n)) <= C /\ Cardinality(Below(n)) # 0
      OBVIOUS
    <2>1. Below(n) \in SUBSET S /\ n \in Below(n)
      OBVIOUS
    <2>2. IsFiniteSet(Below(n)) /\ Cardinality(Below(n)) <= C
      BY <2>1, FS_Subset
    <2> QED
      BY <2>1, <2>2, FS_CardinalityType, FS_EmptySet
  <1>3. ASSUME NEW n \in S, NEW p \in S, n < p
        PROVE  Cardinality(Below(n)) # Cardinality(Below(p))
    <2>0. n \in Int /\ p \in Int /\ \A m \in S : m \in Int /\ (m <= n => m <= p)
      BY <1>3
    <2>1. Below(n) \subseteq Below(p)
      BY <2>0
    <2>2. p \in Below(p)
      BY <2>0
    <2>3. p \notin Below(n)
      BY <2>0, <1>3
    <2> QED
      BY <2>1, <2>2, <2>3, <1>2, FS_Subset
  <1>4. f \in Injection(S, 1 .. C)
    <2>1. f \in [S -> 1 .. C]
      BY <1>1, <1>2
    <2>2. \A n, p \in S : f[n] = f[p] => n = p
      <3> SUFFICES ASSUME NEW n \in S, NEW p \in S, f[n] = f[p], n # p
                   PROVE  FALSE
        OBVIOUS
      <3>1. n < p \/ p < n
        OBVIOUS
      <3> QED
        BY <3>1, <1>3
    <2> QED
      BY <2>1, <2>2 DEF Injection, IsInjective
  <1>5. IsFiniteSet(1 .. C) /\ Cardinality(1 .. C) = C
    BY <1>1, FS_Interval
  <1>6. f \in Surjection(S, 1 .. C)
    BY <1>4, <1>5, FS_Injection
  <1>7. \A k \in 1 .. C : \E n \in S : f[n] = k
    BY <1>6 DEF Surjection
  <1> QED
    BY <1>1, <1>7

(* Ascending lists members of the set.                                     *)
LEMMA AscendingLists ==
  ASSUME NEW S \in SUBSET Int, IsFiniteSet(S)
  PROVE  Cardinality(S) \in Nat /\ Ascending(S) \in [1 .. Cardinality(S) -> S]
  BY EveryRank DEF Ascending

(* The rows of the tree: the top, and nodes that are inserted.             *)
LEMMA ShownRows ==
  ASSUME NEW o, NEW nodes, NEW open
  PROVE  /\ Shown(o, nodes, open) \in SUBSET Int /\ IsFiniteSet(Shown(o, nodes, open))
         /\ Cardinality(Shown(o, nodes, open)) \in Nat
  <1>1. DOMAIN order = 1 .. Len(order) /\ Len(order) \in Nat
    BY TreeAssumption
  <1>2. IsFiniteSet(1 .. Len(order))
    BY <1>1, FS_Interval
  <1>3. Shown(o, nodes, open) \in SUBSET (1 .. Len(order))
    BY <1>1 DEF Shown
  <1> QED
    BY <1>1, <1>2, <1>3, FS_Subset, FS_CardinalityType

LEMMA VisibleRows ==
  ASSUME NEW o, NEW nodes, NEW open
  PROVE  /\ build_visible(o, nodes, open) \in Seq(Nodes \cup {None})
         /\ Len(build_visible(o, nodes, open)) = Cardinality(Shown(o, nodes, open)) + 1
         /\ build_visible(o, nodes, open) # <<>>
         /\ build_visible(o, nodes, open)[1] = None
         /\ Range(Tail(build_visible(o, nodes, open))) \subseteq nodes
  <1> DEFINE K == Shown(o, nodes, open)
             C == Cardinality(K)
             ks == Ascending(K)
             rs == [r \in DOMAIN ks |-> order[ks[r]]]
             bv == build_visible(o, nodes, open)
  <1>1. C \in Nat /\ ks \in [1 .. C -> K]
    BY ShownRows, AscendingLists
  <1>2. \A k \in K : order[k] \in Nodes /\ order[k] \in nodes
    BY TreeAssumption DEF Shown, is_visible, Nodes, Range
  <1>3. rs \in [1 .. C -> Nodes] /\ \A r \in 1 .. C : rs[r] \in nodes
    BY <1>1, <1>2
  <1>4. bv = <<None>> \o rs
    BY DEF build_visible
  <1> HIDE DEF rs, C
  <1>5. rs \in Seq(Nodes) /\ Len(rs) = C
    BY <1>1, <1>3
  <1>6. bv \in Seq(Nodes \cup {None}) /\ Len(bv) = C + 1 /\ bv[1] = None
    BY <1>1, <1>4, <1>5
  <1>7. \A r \in 1 .. C : bv[r + 1] = rs[r]
    BY <1>1, <1>4, <1>5
  <1>8. DOMAIN Tail(bv) = 1 .. C /\ \A r \in 1 .. C : Tail(bv)[r] = bv[r + 1]
    BY <1>1, <1>6
  <1>9. bv # <<>>
    BY <1>1, <1>6
  <1>10. Range(Tail(bv)) \subseteq nodes
    BY <1>3, <1>7, <1>8 DEF Range
  <1> QED
    BY <1>6, <1>9, <1>10 DEF C

(* What is shown depends on the query, the outcomes that are hidden and    *)
(* where the overlay takes the outcomes from.                              *)
LEMMA SameRows ==
  ASSUME NEW o, NEW p, NEW nodes, NEW open,
         o.query = p.query, o.hide = p.hide, o.blind = p.blind
  PROVE  build_visible(o, nodes, open) = build_visible(p, nodes, open)
  <1>1. \A n : is_hidden(o, n) <=> is_hidden(p, n)
    BY DEF is_hidden
  <1>2. \A n : fuzzy_match(o, n) <=> fuzzy_match(p, n)
    BY DEF fuzzy_match
  <1>3. \A n : is_visible(o, nodes, open, n) <=> is_visible(p, nodes, open, n)
    BY <1>1, <1>2 DEF is_visible, has_visible_leaf, has_matching_descendant
  <1> QED
    BY <1>3 DEF build_visible, Shown

LEMMA RowsUnhidden ==
  ASSUME NEW o, NEW nodes, NEW open, o.hide = {}
  PROVE  build_visible(o, nodes, open) = UnhiddenRows(o.query, nodes, open)
  <1>1. \A n : ~is_hidden(o, n)
    BY DEF is_hidden
  <1>2. \A n : fuzzy_match(o, n) <=> Matches(o.query, n)
    BY DEF fuzzy_match, Matches
  <1>3. \A k \in DOMAIN order : is_visible(o, nodes, open, order[k])
                               <=> k \in Unhidden(o.query, nodes, open)
    BY <1>1, <1>2 DEF is_visible, has_visible_leaf, has_matching_descendant, Unhidden
  <1>4. Shown(o, nodes, open) = Unhidden(o.query, nodes, open)
    BY <1>3 DEF Shown, Unhidden
  <1> QED
    BY <1>4 DEF build_visible, UnhiddenRows

(* While no outcome is hidden more tests mean more rows.                   *)
LEMMA MoreRows ==
  ASSUME NEW o, NEW nodes, NEW more, NEW open, o.hide = {}, nodes \subseteq more
  PROVE  Len(build_visible(o, nodes, open)) <= Len(build_visible(o, more, open))
  <1>1. \A n : ~is_hidden(o, n)
    BY DEF is_hidden
  <1>2. \A n : is_visible(o, nodes, open, n) => is_visible(o, more, open, n)
    BY <1>1 DEF is_visible, has_visible_leaf, has_matching_descendant
  <1>3. Shown(o, nodes, open) \in SUBSET Shown(o, more, open)
    BY <1>2 DEF Shown
  <1>4. Cardinality(Shown(o, nodes, open)) <= Cardinality(Shown(o, more, open))
    BY <1>3, ShownRows, FS_Subset
  <1> QED
    BY <1>4, ShownRows, VisibleRows

(* The cursor is on a row, the row in the window.                          *)
InWindow(o) ==
  /\ o.cursor \in 0 .. last(o)
  /\ o.scroll <= o.cursor /\ o.cursor < o.scroll + view_h

LEMMA WindowHeight == view_h \in Nat \ {0, 1} /\ Height \in Nat /\ Height >= 4
  BY TerminalAssumption DEF view_h

LEMMA EnsureVisible ==
  ASSUME NEW o \in Overlays
  PROVE  /\ ensure_visible(o) \in Overlays
         /\ ensure_visible(o) = [o EXCEPT !.scroll = ensure_visible(o).scroll]
         /\ ensure_visible(o).scroll <= o.cursor
         /\ o.cursor < ensure_visible(o).scroll + view_h
  BY WindowHeight DEF ensure_visible, Overlays

(* _rebuild, whatever was there before.                                    *)
LEMMA Store ==
  ASSUME NEW o \in Overlays, NEW visible \in Seq(Nodes \cup {None}), visible # <<>>
  PROVE  LET p == store(o, visible)
         IN  /\ p \in Overlays /\ ~p.shrunk /\ p.visible = visible
             /\ p.query = o.query /\ p.hide = o.hide /\ p.blind = o.blind
             /\ InWindow(p)
  <1> DEFINE c == IF o.cursor < Len(visible) THEN o.cursor ELSE Len(visible) - 1
             q == [o EXCEPT !.visible = visible, !.shrunk = FALSE, !.cursor = c]
             p == store(o, visible)
  <1>1. Len(visible) \in Nat \ {0}
    OBVIOUS
  <1>2. o.cursor \in Nat
    BY DEF Overlays
  <1>3. c \in Nat /\ c <= Len(visible) - 1
    BY <1>1, <1>2
  <1>4. p = ensure_visible(q)
    BY DEF store
  <1> HIDE DEF c, p
  <1>5. /\ q \in Overlays /\ q.cursor = c /\ q.visible = visible /\ ~q.shrunk
        /\ q.query = o.query /\ q.hide = o.hide /\ q.blind = o.blind
    BY <1>1, <1>3 DEF Overlays
  <1> HIDE DEF q
  <1>6. /\ p \in Overlays /\ p.cursor = c /\ p.visible = visible /\ ~p.shrunk
        /\ p.query = o.query /\ p.hide = o.hide /\ p.blind = o.blind
        /\ p.scroll <= p.cursor /\ p.cursor < p.scroll + view_h
    BY <1>4, <1>5, EnsureVisible DEF Overlays
  <1>7. InWindow(p)
    BY <1>1, <1>3, <1>6 DEF InWindow, last
  <1> QED
    BY <1>6, <1>7 DEF p

LEMMA Rebuild ==
  ASSUME NEW o \in Overlays, NEW nodes \in SUBSET Nodes, NEW open
  PROVE  LET p == rebuild(o, nodes, open)
         IN  /\ p \in Overlays /\ ~p.shrunk
             /\ p.query = o.query /\ p.hide = o.hide /\ p.blind = o.blind
             /\ p.visible = build_visible(o, nodes, open)
             /\ RowsOf(nodes, p.visible) /\ InWindow(p)
  <1>1. RowsOf(nodes, build_visible(o, nodes, open))
    BY VisibleRows DEF RowsOf
  <1> QED
    BY <1>1, Store DEF rebuild, RowsOf

-----------------------------------------------------------------------------
(* The tree.  Its part of the invariant, and what a step of the refresh    *)
(* thread or of main does to it.                                           *)
TreeInv == TreeTypeInv /\ CursorOnRow /\ FreshRows /\ PendingInv /\ TreePainted

(* A row of the overlay that a move may begin with.                        *)
LEMMA KeyRowsOnRows ==
  ASSUME TreeInv, Ready, NEW c \in KeyRows \cup WheelRows
  PROVE  c \in Nat /\ (~overlay.shrunk => c <= last(overlay))
  <1>1. overlay \in Overlays /\ overlay.visible # <<>>
    BY DEF Ready, TreeInv, TreeTypeInv
  <1>2. overlay.cursor \in Nat /\ last(overlay) \in Nat
    BY <1>1 DEF Overlays, last
  <1>3. ~overlay.shrunk => overlay.cursor <= last(overlay)
    BY <1>2 DEF TreeInv, CursorOnRow, Ready, Rebuilding
  <1> QED
    BY <1>2, <1>3, WindowHeight DEF KeyRows, WheelRows, UpTo, DownTo

LEMMA LastShownOnRows ==
  ASSUME NEW o \in Overlays, o.visible # <<>>
  PROVE  LastShown(o) \in Nat /\ LastShown(o) <= last(o)
  <1>1. o.scroll \in Nat /\ Len(o.visible) \in Nat \ {0}
    BY DEF Overlays
  <1> QED
    BY <1>1, WindowHeight DEF LastShown, last

(* The rows of some tests stay so while the query, the filter and the      *)
(* folds are the same and tests are only added.                            *)
LEMMA FreshRowsKept ==
  ASSUME FreshRows, overlay # None, tree \subseteq tree', expanded' = expanded,
         overlay' # None => overlay'.hide = overlay.hide /\ overlay'.query = overlay.query,
         (IF Rebuilding THEN pending.rows ELSE overlay.visible)
           = IF Rebuilding' THEN pending'.rows ELSE overlay'.visible
  PROVE  FreshRows'
  BY DEF FreshRows

(* Steps that change neither the overlay nor its rows.                     *)
LEMMA OverlayAlone ==
  ASSUME TreeTypeInv, CursorOnRow, FreshRows, UNCHANGED <<tree, expanded, overlay>>,
         (~Rebuilding /\ ~Rebuilding') \/ UNCHANGED pending
  PROVE  FreshRows' /\ Rebuilding' = Rebuilding
  <1>1. Rebuilding' = Rebuilding
    BY DEF Rebuilding
  <1> QED
    BY <1>1 DEF FreshRows, Rebuilding

(* The first half of _rebuild: what a change of the query, of the filter,  *)
(* of a fold or of the cursor does.                                        *)
LEMMA ChangeKeepsTree ==
  ASSUME TreeInv, NEW o \in Overlays, o.visible = overlay.visible, overlay # None, alive,
         Change(o), expanded' \subseteq Nodes, phase = "input", UNCHANGED phase, tree_changed'
  PROVE  TreeInv'
  <1> DEFINE bv == build_visible(o, tree, expanded')
  <1>1. /\ overlay' = o /\ pending' = [kind |-> "rebuild", rows |-> bv]
        /\ UNCHANGED <<tree, outcome, raised>> /\ o # None
        /\ painted' \in BOOLEAN
    BY NoneAssumption DEF Change, Replace, TreeInv, TreeTypeInv
  <1>2. RowsOf(tree, bv)
    BY VisibleRows DEF RowsOf
  <1>3. o.hide = {} => bv = UnhiddenRows(o.query, tree, expanded')
    BY RowsUnhidden
  <1> HIDE DEF bv
  <1>4. /\ pending' \in Pendings /\ pending' # None /\ Rebuilding'
        /\ pending'.rows = bv /\ pending'.kind = "rebuild"
    BY <1>1, <1>2, NoneAssumption DEF Pendings, Rebuilding, RowsOf
  <1>5. TreeTypeInv'
    BY <1>1, <1>4 DEF TreeInv, TreeTypeInv
  <1>6. CursorOnRow'
    BY <1>1, <1>4 DEF CursorOnRow, alive
  <1>7. FreshRows'
    BY <1>1, <1>3, <1>4 DEF FreshRows
  <1>8. PendingInv'
    BY <1>1, <1>2, <1>4 DEF PendingInv
  <1> QED
    BY <1>4, <1>5, <1>6, <1>7, <1>8 DEF TreeInv, TreePainted

(* The rows are stored.                                                    *)
LEMMA RebuildEndsKeepsTree ==
  ASSUME TreeInv, RebuildEnds, alive, UNCHANGED <<tree_dirty, tree_changed, phase>>
  PROVE  TreeInv'
  <1> DEFINE p == store(overlay, pending.rows)
  <1>1. /\ Rebuilding /\ pending # None /\ pending' = None /\ overlay' = p
        /\ UNCHANGED <<tree, expanded, outcome, raised>> /\ painted' \in BOOLEAN
    BY DEF RebuildEnds, Rebuilding, Replace, TreeInv, TreeTypeInv
  <1>2. /\ overlay # None /\ overlay \in Overlays /\ RowsOf(tree, pending.rows)
        /\ tree_changed
    BY <1>1 DEF TreeInv, TreeTypeInv, PendingInv, Rebuilding
  <1>3. /\ p \in Overlays /\ ~p.shrunk /\ p.visible = pending.rows
        /\ p.query = overlay.query /\ p.hide = overlay.hide
        /\ InWindow(p)
    BY <1>2, Store DEF RowsOf
  <1> HIDE DEF p
  <1>4. TreeTypeInv'
    BY <1>1, <1>2, <1>3 DEF TreeInv, TreeTypeInv, RowsOf
  <1>5. CursorOnRow'
    BY <1>1, <1>3 DEF CursorOnRow, InWindow, last, view_h, alive
  <1>6. ~Rebuilding'
    BY <1>1 DEF Rebuilding
  <1>7. FreshRows'
    BY <1>1, <1>2, <1>3, <1>6, FreshRowsKept DEF TreeInv
  <1> QED
    BY <1>1, <1>2, <1>4, <1>5, <1>7 DEF TreeInv, PendingInv, TreePainted

(* A key that needs a row: the first step is a look at the number of rows. *)
LEMMA KeyBeginsKeepsTree ==
  ASSUME TreeInv, NEW kind \in {"move", "row"}, NEW c \in Nat,
         Ready, pending' = [kind |-> kind, row |-> c], ~overlay.shrunk => c <= last(overlay),
         UNCHANGED <<tree, expanded, outcome, overlay, painted, raised>>,
         phase = "input", UNCHANGED phase, tree_changed'
  PROVE  TreeInv'
  <1>1. /\ pending' \in Pendings /\ pending'.kind = kind /\ pending'.row = c /\ pending' # None
        /\ ~Rebuilding /\ ~Rebuilding' /\ pending'.kind # "render" /\ overlay # None
    BY NoneAssumption DEF Pendings, Rebuilding, Ready
  <1>2. TreeTypeInv' /\ CursorOnRow'
    BY <1>1 DEF TreeInv, TreeTypeInv, CursorOnRow, last, view_h
  <1>3. FreshRows'
    BY <1>1, OverlayAlone DEF TreeInv
  <1>4. PendingInv'
    BY <1>1 DEF PendingInv, Ready, last
  <1> QED
    BY <1>1, <1>2, <1>3, <1>4 DEF TreeInv, TreePainted

LEMMA MoveBeginsKeepsTree ==
  ASSUME TreeInv, NEW to \in SUBSET (KeyRows \cup WheelRows), MoveBegins(to),
         phase = "input", UNCHANGED phase, tree_changed'
  PROVE  TreeInv'
  <1>1. PICK c \in to : pending' = [kind |-> "move", row |-> c]
    BY DEF MoveBegins
  <1>2. Ready /\ UNCHANGED <<tree, expanded, outcome, overlay, painted, raised>>
    BY DEF MoveBegins
  <1>3. c \in Nat /\ (~overlay.shrunk => c <= last(overlay))
    BY <1>2, KeyRowsOnRows
  <1> QED
    BY <1>1, <1>2, <1>3, KeyBeginsKeepsTree

LEMMA TreeKeyKeepsTree ==
  ASSUME TreeInv, TreeKey, phase = "input", UNCHANGED phase, tree_changed'
  PROVE  TreeInv'
  <1>1. expanded \subseteq Nodes
    BY DEF TreeInv, TreeTypeInv
  <1>2. Ready => overlay \in Overlays /\ overlay # None /\ alive
    BY DEF TreeInv, TreeTypeInv, Ready
  <1>3. CASE MoveBegins(KeyRows)
    BY <1>3, MoveBeginsKeepsTree
  <1>4. CASE RowKeyBegins
    <2>1. /\ Ready /\ overlay.cursor <= last(overlay) /\ overlay.cursor \in Nat
          /\ pending' = [kind |-> "row", row |-> overlay.cursor]
          /\ UNCHANGED <<tree, expanded, outcome, overlay, painted, raised>>
      BY <1>2, <1>4 DEF RowKeyBegins, Overlays
    <2> QED
      BY <2>1, KeyBeginsKeepsTree
  <1>5. CASE Requery
    <2>1. overlay \in Overlays /\ overlay # None /\ alive /\ expanded' \subseteq Nodes
      BY <1>1, <1>2, <1>5 DEF Requery
    <2>2. PICK q \in 0 .. Len(Match) : Change([overlay EXCEPT !.query = q])
      BY <1>5 DEF Requery
    <2>3. /\ [overlay EXCEPT !.query = q] \in Overlays
          /\ [overlay EXCEPT !.query = q].visible = overlay.visible
      BY <2>1 DEF Overlays
    <2> QED
      BY <2>1, <2>2, <2>3, ChangeKeepsTree
  <1>6. CASE Toggle
    <2>1. overlay \in Overlays /\ overlay # None /\ alive /\ expanded' \subseteq Nodes
      BY <1>1, <1>2, <1>6 DEF Toggle
    <2>2. PICK out \in {"passed", "failed"} :
            Change([overlay EXCEPT !.hide = (@ \ {out}) \cup ({out} \ @)])
      BY <1>6 DEF Toggle
    <2> DEFINE h == (overlay.hide \ {out}) \cup ({out} \ overlay.hide)
    <2>3. h \in SUBSET {"passed", "failed"}
      BY <2>1 DEF Overlays
    <2>4. Change([overlay EXCEPT !.hide = h])
      BY <2>2
    <2> HIDE DEF h
    <2>5. /\ [overlay EXCEPT !.hide = h] \in Overlays
          /\ [overlay EXCEPT !.hide = h].visible = overlay.visible
      BY <2>1, <2>3 DEF Overlays
    <2> QED
      BY <2>1, <2>4, <2>5, ChangeKeepsTree
  <1> QED
    BY <1>3, <1>4, <1>5, <1>6 DEF TreeKey

(* The row of a key is read: it is folded, unfolded or ignored, or gone.   *)
LEMMA RowKeyKeepsTree ==
  ASSUME TreeInv, RowKey, alive, UNCHANGED <<tree_dirty, tree_changed, phase>>
  PROVE  TreeInv'
  <1>1. expanded \subseteq Nodes
    BY DEF TreeInv, TreeTypeInv
  <1>2. AtRow
    BY DEF RowKey, ExpandCurrent, CollapseCurrent, CollapseParent, RowKeyIgnored, OnRow
  <1>3. /\ overlay # None /\ overlay \in Overlays /\ phase = "input" /\ tree_changed
        /\ pending # None /\ ~Rebuilding /\ (~overlay.shrunk => pending.row <= last(overlay))
        /\ pending.row \in Nat
    BY <1>2 DEF AtRow, TreeInv, TreeTypeInv, PendingInv, Pendings, Rebuilding
  <1>4. CASE ExpandCurrent
    <2>1. expanded' \subseteq Nodes /\ Change(overlay)
      BY <1>1, <1>4 DEF ExpandCurrent
    <2> QED
      BY <1>3, <2>1, ChangeKeepsTree
  <1>5. CASE CollapseCurrent
    <2>1. expanded' \subseteq Nodes /\ Change(overlay)
      BY <1>1, <1>5 DEF CollapseCurrent
    <2> QED
      BY <1>3, <2>1, ChangeKeepsTree
  <1>6. CASE CollapseParent
    <2>1. PICK i \in 0 .. overlay.cursor - 1 :
            /\ expanded' = expanded \ {overlay.visible[i + 1]}
            /\ Change([overlay EXCEPT !.cursor = i])
      BY <1>6 DEF CollapseParent
    <2>2. /\ [overlay EXCEPT !.cursor = i] \in Overlays
          /\ [overlay EXCEPT !.cursor = i].visible = overlay.visible
      BY <1>3 DEF Overlays
    <2>3. expanded' \subseteq Nodes
      BY <1>1, <2>1
    <2> QED
      BY <1>3, <2>1, <2>2, <2>3, ChangeKeepsTree
  <1>7. CASE RowKeyIgnored
    <2>1. /\ pending' = None /\ UNCHANGED <<tree, expanded, outcome, overlay, painted>>
          /\ raised' \in {"", "IndexError"}
          /\ raised' = "IndexError" => pending.row > last(overlay)
      BY <1>7 DEF RowKeyIgnored
    <2>2. ~Rebuilding'
      BY <2>1 DEF Rebuilding
    <2>3. TreeTypeInv'
      BY <2>1 DEF TreeInv, TreeTypeInv
    <2>4. raised' = "IndexError" => overlay.shrunk
      <3>1. last(overlay) \in Int
        BY <1>3 DEF last, Overlays
      <3> QED
        BY <1>3, <2>1, <3>1
    <2>5. CursorOnRow'
      BY <1>3, <2>1, <2>4 DEF TreeInv, CursorOnRow, last, view_h
    <2>6. FreshRows'
      BY <1>3, <2>1, <2>2, OverlayAlone DEF TreeInv
    <2> QED
      BY <1>3, <2>1, <2>3, <2>5, <2>6 DEF TreeInv, PendingInv, TreePainted
  <1> QED
    BY <1>4, <1>5, <1>6, <1>7 DEF RowKey

(* Steps that leave the tree alone, but may set its marks or, with nothing *)
(* pending, clear the one after setting the other.                         *)
LEMMA MarksKeepTree ==
  ASSUME TreeInv, UNCHANGED tvars,
         pending = None \/ (phase' = phase /\ (tree_dirty => tree_dirty')
                            /\ (tree_changed => tree_changed')),
         tree_dirty \/ tree_changed => tree_dirty' \/ tree_changed'
  PROVE  TreeInv'
  <1>1. TreeTypeInv' /\ CursorOnRow'
    BY DEF TreeInv, TreeTypeInv, CursorOnRow, Rebuilding, last, view_h, tvars
  <1>2. FreshRows' /\ Rebuilding' = Rebuilding
    BY OverlayAlone DEF TreeInv, tvars
  <1>3. PendingInv'
    BY <1>2 DEF TreeInv, PendingInv, last, LastShown, view_h, tvars
  <1>4. TreePainted'
    BY DEF TreeInv, TreePainted, alive, tvars
  <1> QED
    BY <1>1, <1>2, <1>3, <1>4 DEF TreeInv

LEMMA CloseTreeKeepsTree == ASSUME TreeInv, CloseTree PROVE TreeInv'
  <1>1. /\ overlay' = None /\ painted' = FALSE /\ pending = None /\ raised = ""
        /\ UNCHANGED <<tree, expanded, outcome, pending, raised>>
    BY DEF CloseTree, Input, alive
  <1> QED
    BY <1>1 DEF TreeInv, TreeTypeInv, CursorOnRow, FreshRows, PendingInv, TreePainted

LEMMA OpenTreeKeepsTree == ASSUME TreeInv, OpenTree PROVE TreeInv'
  <1> DEFINE blind == \A l \in LeafNodes : outcome[l] = ""
             o == [cursor |-> 0, scroll |-> 0, query |-> 0, hide |-> {}, visible |-> <<None>>,
                   blind |-> blind, shrunk |-> FALSE]
             bv == build_visible(o, tree, expanded)
             p == [o EXCEPT !.visible = bv]
  <1>1. /\ overlay' = p /\ painted' = FALSE /\ pending = None /\ raised = "" /\ tree_dirty'
        /\ UNCHANGED <<tree, expanded, outcome, pending, raised>>
    BY DEF OpenTree, Open, Input, alive
  <1>2. blind \in BOOLEAN
    OBVIOUS
  <1> HIDE DEF blind
  <1>3. bv \in Seq(Nodes \cup {None}) /\ bv # <<>> /\ bv[1] = None /\ Range(Tail(bv)) \subseteq tree
    BY VisibleRows
  <1>4. 0 \in 0 .. Len(Match)
    BY TreeAssumption
  <1> HIDE DEF bv
  <1>5. /\ p \in Overlays /\ p.visible = bv /\ ~p.shrunk /\ p.cursor = 0 /\ p.scroll = 0
        /\ p.query = o.query /\ p.hide = o.hide /\ p.blind = o.blind
    BY <1>2, <1>3, <1>4 DEF Overlays
  <1> HIDE DEF p
  <1>6. bv = UnhiddenRows(p.query, tree, expanded) /\ ~Rebuilding'
    BY <1>1, <1>5, RowsUnhidden DEF bv, Rebuilding
  <1> HIDE DEF o
  <1>7. TreeTypeInv'
    BY <1>1, <1>3, <1>5 DEF TreeInv, TreeTypeInv
  <1>8. CursorOnRow'
    <2>1. last(p) \in Nat
      BY <1>3, <1>5 DEF last
    <2>2. last(overlay)' = last(p) /\ view_h' = view_h
      BY <1>1 DEF last, view_h
    <2>3. InWindow(p)
      BY <1>5, <2>1, WindowHeight DEF InWindow
    <2>4. raised' # "IndexError" /\ overlay' = p /\ ~p.shrunk
      BY <1>1, <1>5
    <2> QED
      BY <2>2, <2>3, <2>4 DEF CursorOnRow, InWindow
  <1>9. FreshRows'
    BY <1>1, <1>5, <1>6 DEF FreshRows
  <1> QED
    BY <1>1, <1>7, <1>8, <1>9 DEF TreeInv, PendingInv, TreePainted

LEMMA MoveEndsKeepsTree ==
  ASSUME TreeInv, MoveEnds, alive, UNCHANGED <<tree_dirty, tree_changed, phase>>
  PROVE  TreeInv'
  <1> DEFINE q == [overlay EXCEPT !.cursor = pending.row]
             p == ensure_visible(q)
  <1>0. ~Rebuilding /\ ~Rebuilding' /\ raised = ""
    BY DEF MoveEnds, Rebuilding, alive
  <1>1. /\ pending # None /\ pending.kind = "move" /\ pending' = None
        /\ overlay' = p /\ painted' \in BOOLEAN
        /\ UNCHANGED <<tree, expanded, outcome, raised, tree_dirty, tree_changed, phase>>
    BY DEF MoveEnds, Replace, TreeInv, TreeTypeInv
  <1>2. /\ overlay # None /\ (~overlay.shrunk => pending.row <= last(overlay)) /\ tree_changed
        /\ pending.row \in Nat /\ overlay \in Overlays
    BY <1>0, <1>1 DEF TreeInv, TreeTypeInv, PendingInv, Pendings
  <1>3. /\ q \in Overlays /\ q.cursor = pending.row /\ q.visible = overlay.visible
        /\ q.hide = overlay.hide /\ q.query = overlay.query /\ q.blind = overlay.blind
        /\ q.shrunk = overlay.shrunk
    BY <1>2 DEF Overlays
  <1> HIDE DEF q
  <1>4. /\ p \in Overlays /\ p.cursor = pending.row /\ p.visible = overlay.visible
        /\ p.hide = overlay.hide /\ p.query = overlay.query /\ p.blind = overlay.blind
        /\ p.shrunk = overlay.shrunk
        /\ p.scroll <= p.cursor /\ p.cursor < p.scroll + view_h
    BY <1>3, EnsureVisible DEF Overlays
  <1> HIDE DEF p
  <1>5. TreeTypeInv'
    BY <1>1, <1>2, <1>4 DEF TreeInv, TreeTypeInv
  <1>6. CursorOnRow'
    <2>1. last(overlay)' = last(overlay) /\ view_h' = view_h /\ last(overlay) \in Int
      BY <1>1, <1>2, <1>4 DEF last, view_h, Overlays
    <2>2. raised' # "IndexError"
      BY <1>0, <1>1
    <2>3. overlay.shrunk => overlay.hide # {}
      BY <1>0, <1>2 DEF TreeInv, CursorOnRow
    <2>4. ~p.shrunk => p.cursor \in 0 .. last(overlay)
      BY <1>2, <1>4, <2>1
    <2> QED
      BY <1>1, <1>4, <2>1, <2>2, <2>3, <2>4 DEF CursorOnRow
  <1>7. FreshRows'
    BY <1>0, <1>1, <1>2, <1>4, FreshRowsKept DEF TreeInv
  <1> QED
    BY <1>1, <1>2, <1>5, <1>6, <1>7 DEF TreeInv, PendingInv, TreePainted

LEMMA StartTreeKeepsTree == ASSUME TreeInv, StartTree PROVE TreeInv'
  <1>1. CASE tree_dirty /\ overlay # None
    <2>1. /\ Ready /\ pending' = [kind |-> "render", row |-> LastShown(overlay)]
          /\ UNCHANGED <<tree, expanded, outcome, overlay, painted, raised, phase>>
          /\ phase = "tree"
      BY <1>1 DEF StartTree, RenderBegins
    <2>2. overlay \in Overlays /\ overlay.visible # <<>>
      BY <1>1 DEF TreeInv, TreeTypeInv
    <2>3. LastShown(overlay) \in Nat /\ LastShown(overlay) <= last(overlay)
      BY <2>2, LastShownOnRows
    <2>4. /\ pending' \in Pendings /\ pending'.kind = "render"
          /\ pending'.row = LastShown(overlay) /\ pending' # None
          /\ ~Rebuilding /\ ~Rebuilding'
      BY <2>1, <2>3, NoneAssumption DEF Pendings, Rebuilding, Ready
    <2>5. TreeTypeInv' /\ CursorOnRow'
      BY <2>1, <2>4 DEF TreeInv, TreeTypeInv, CursorOnRow, last, view_h
    <2>6. FreshRows'
      BY <2>1, <2>4, OverlayAlone DEF TreeInv
    <2>7. PendingInv'
      BY <1>1, <2>1, <2>3, <2>4 DEF PendingInv, last, LastShown, view_h
    <2> QED
      BY <2>4, <2>5, <2>6, <2>7 DEF TreeInv, TreePainted
  <1>2. CASE ~(tree_dirty /\ overlay # None)
    <2>1. UNCHANGED tvars /\ pending = None
      BY <1>2 DEF StartTree
    <2>2. TreeTypeInv' /\ CursorOnRow'
      BY <2>1 DEF TreeInv, TreeTypeInv, CursorOnRow, Rebuilding, last, view_h, tvars
    <2>3. FreshRows'
      BY <2>1, OverlayAlone DEF TreeInv, tvars
    <2>4. PendingInv' /\ TreePainted'
      BY <1>2, <2>1 DEF TreeInv, PendingInv, TreePainted, tvars, StartTree
    <2> QED
      BY <2>2, <2>3, <2>4 DEF TreeInv
  <1> QED
    BY <1>1, <1>2

LEMMA FinishTreeKeepsTree == ASSUME TreeInv, FinishTree PROVE TreeInv'
  <1>1. /\ pending # None /\ pending.kind = "render" /\ pending' = None /\ raised = ""
        /\ painted' = (pending.row = LastShown(overlay))
        /\ raised' \in {"", "IndexError"}
        /\ raised' = "IndexError" => ~(pending.row <= last(overlay))
        /\ UNCHANGED <<tree, expanded, outcome, overlay, tree_dirty, tree_changed>>
        /\ ~Rebuilding /\ ~Rebuilding'
    BY DEF FinishTree, RenderEnds, Rebuilding, alive
  <1>2. /\ overlay # None /\ (~overlay.shrunk => pending.row <= last(overlay))
        /\ tree_dirty \/ pending.row = LastShown(overlay)
    BY <1>1 DEF TreeInv, PendingInv
  <1>3. TreeTypeInv'
    BY <1>1 DEF TreeInv, TreeTypeInv
  <1>4. CursorOnRow'
    BY <1>1, <1>2 DEF TreeInv, CursorOnRow, last, view_h
  <1>5. FreshRows'
    BY <1>1, OverlayAlone DEF TreeInv
  <1>6. PendingInv' /\ TreePainted'
    BY <1>1, <1>2 DEF PendingInv, TreePainted
  <1> QED
    BY <1>3, <1>4, <1>5, <1>6 DEF TreeInv

(* The refresh thread dies of a directory that cannot be made.             *)
LEMMA SaveRaisesKeepsTree == ASSUME TreeInv, SaveRaises PROVE TreeInv'
  <1>1. /\ pending = None /\ raised = "" /\ raised' = "OSError"
        /\ UNCHANGED <<tree, expanded, outcome, overlay, pending, painted, tree_dirty,
                       tree_changed, phase>>
    BY DEF SaveRaises, Input, alive
  <1>2. TreeTypeInv' /\ CursorOnRow'
    BY <1>1 DEF TreeInv, TreeTypeInv, CursorOnRow, Rebuilding, last, view_h
  <1>3. FreshRows'
    BY <1>1, OverlayAlone DEF TreeInv
  <1> QED
    BY <1>1, <1>2, <1>3 DEF TreeInv, PendingInv, TreePainted, alive

(* Enter: the row is read and another view is shown.                       *)
LEMMA EnterKeepsTree ==
  ASSUME TreeInv, OnRow, alive, pending' = None,
         UNCHANGED <<tree, expanded, outcome, overlay, painted, raised>>,
         tree_dirty' \/ tree_changed'
  PROVE  TreeInv'
  <1>1. pending # None /\ ~Rebuilding /\ ~Rebuilding' /\ raised = ""
    BY DEF OnRow, AtRow, Rebuilding, alive
  <1>2. TreeTypeInv' /\ CursorOnRow'
    BY <1>1 DEF TreeInv, TreeTypeInv, CursorOnRow, last, view_h
  <1>3. FreshRows'
    BY <1>1, OverlayAlone DEF TreeInv
  <1> QED
    BY <1>1, <1>2, <1>3 DEF TreeInv, PendingInv, TreePainted

LEMMA GroupNodes ==
  ASSUME NEW k \in DOMAIN groups
  PROVE  groups[k] \cup UNION {Ancestors[l] : l \in groups[k]} \subseteq Nodes
  <1>1. groups[k] \subseteq Nodes
    BY SplitAssumption DEF Range, LeafNodes
  <1>2. \A l \in Nodes : Ancestors[l] \subseteq Nodes
    BY DEF Ancestors
  <1> QED
    BY <1>1, <1>2

LEMMA AddTestItemsKeepsTree == ASSUME TreeInv, AddTestItems PROVE TreeInv'
  <1>1. PICK k \in DOMAIN groups :
          AddItems(groups[k] \cup UNION {Ancestors[l] : l \in groups[k]})
    BY DEF AddTestItems
  <1> DEFINE group == groups[k] \cup UNION {Ancestors[l] : l \in groups[k]}
  <1>2. group \subseteq Nodes
    BY GroupNodes
  <1> HIDE DEF group
  <1>3. AddItems(group)
    BY <1>1 DEF group
  <1>4. tree' = tree \cup group /\ tree' \in SUBSET Nodes /\ tree \subseteq tree'
    BY <1>2, <1>3 DEF AddItems, TreeInv, TreeTypeInv
  <1>5. /\ UNCHANGED <<expanded, outcome, pending, raised, tree_changed, phase>>
        /\ tree_dirty' = (tree_dirty \/ overlay # None) /\ painted' \in BOOLEAN
    BY <1>3 DEF AddTestItems, AddItems, Replace, TreeInv, TreeTypeInv
  <1>6. CASE overlay = None
    <2>1. overlay' = None /\ pending = None
      BY <1>3, <1>6 DEF AddItems, Replace, TreeInv, PendingInv
    <2> QED
      BY <1>4, <1>5, <1>6, <2>1
      DEF TreeInv, TreeTypeInv, CursorOnRow, FreshRows, PendingInv, TreePainted
  <1>7. CASE overlay # None
    <2> DEFINE o == rebuild(overlay, tree', expanded)
               s == \/ overlay.shrunk
                    \/ (pending # None /\ ~Rebuilding /\ pending.row > last(o))
               p == [o EXCEPT !.shrunk = s]
    <2>1. overlay' = p
      BY <1>3, <1>7 DEF AddItems, Replace
    <2>2. overlay \in Overlays
      BY <1>7 DEF TreeInv, TreeTypeInv
    <2>3. /\ o \in Overlays /\ InWindow(o)
          /\ o.query = overlay.query /\ o.hide = overlay.hide /\ o.blind = overlay.blind
          /\ o.visible = build_visible(overlay, tree', expanded)
      BY <1>4, <2>2, Rebuild
    <2> HIDE DEF o
    <2>4. /\ o.visible # <<>> /\ o.visible[1] = None /\ Range(Tail(o.visible)) \subseteq tree'
          /\ last(o) \in Nat
      BY <2>3, VisibleRows DEF last, Overlays
    <2>5. s \in BOOLEAN
      BY <2>2 DEF Overlays
    <2>6. overlay.hide = {} /\ ~Rebuilding => ~s
      <3> SUFFICES ASSUME overlay.hide = {}, ~Rebuilding, s
                   PROVE  FALSE
        OBVIOUS
      <3>0. pending # None /\ pending.row > last(o) /\ ~overlay.shrunk
        BY <1>7 DEF TreeInv, CursorOnRow
      <3>1. pending.row <= last(overlay) /\ pending.row \in Nat
        BY <1>7, <3>0 DEF TreeInv, PendingInv, TreeTypeInv, Pendings, Rebuilding
      <3>2. PICK nodes \in SUBSET tree :
              overlay.visible = UnhiddenRows(overlay.query, nodes, expanded)
        BY <1>7 DEF TreeInv, FreshRows
      <3>3. overlay.visible = build_visible(overlay, nodes, expanded)
        BY <3>2, RowsUnhidden
      <3>4. Len(overlay.visible) <= Len(o.visible)
        BY <1>4, <2>3, <3>3, MoreRows
      <3>5. Len(overlay.visible) \in Nat /\ Len(o.visible) \in Nat
        BY <2>2, <2>3 DEF Overlays
      <3> QED
        BY <3>0, <3>1, <3>4, <3>5, <2>4 DEF last
    <2>7. ~s => pending = None \/ Rebuilding \/ pending.row <= last(o)
      <3>1. pending # None /\ ~Rebuilding => pending.row \in Nat
        BY DEF TreeInv, TreeTypeInv, Pendings, Rebuilding
      <3>2. ~s => ~(pending # None /\ ~Rebuilding /\ pending.row > last(o))
        OBVIOUS
      <3> HIDE DEF s
      <3> QED
        BY <2>4, <3>1, <3>2
    <2>8. overlay.shrunk => s
      OBVIOUS
    <2> HIDE DEF s
    <2>9. /\ p \in Overlays /\ p.shrunk = s /\ p.cursor = o.cursor /\ p.scroll = o.scroll
          /\ p.visible = o.visible /\ p.query = o.query /\ p.hide = o.hide /\ p.blind = o.blind
      BY <2>3, <2>5 DEF Overlays
    <2> HIDE DEF p
    <2>10. overlay' # None /\ Rebuilding' = Rebuilding
      BY <1>5, <2>1, <2>9, NoneAssumption DEF Rebuilding
    <2>11. last(overlay)' = last(o) /\ view_h' = view_h
      BY <2>1, <2>9 DEF last, view_h
    <2>12. TreeTypeInv'
      BY <1>4, <1>5, <2>1, <2>4, <2>9 DEF TreeInv, TreeTypeInv
    <2>13. CursorOnRow'
      BY <1>5, <1>7, <2>1, <2>3, <2>6, <2>8, <2>9, <2>10, <2>11
      DEF TreeInv, CursorOnRow, InWindow
    <2>14. FreshRows'
      <3>1. CASE Rebuilding
        BY <1>4, <1>5, <1>7, <2>1, <2>3, <2>9, <2>10, <3>1, FreshRowsKept DEF TreeInv
      <3>2. CASE ~Rebuilding
        <4>1. overlay.hide = {} => o.visible = UnhiddenRows(overlay.query, tree', expanded)
          BY <2>3, RowsUnhidden
        <4> QED
          BY <1>5, <2>1, <2>3, <2>9, <2>10, <3>2, <4>1 DEF FreshRows
      <3> QED
        BY <3>1, <3>2
    <2>15. PendingInv'
      <3>1. pending # None /\ pending.kind # "render" => phase = "input" /\ tree_changed
        BY DEF TreeInv, PendingInv
      <3>2. pending # None /\ pending.kind = "render" => phase = "tree"
        BY DEF TreeInv, PendingInv
      <3>3. tree_dirty'
        BY <1>5, <1>7
      <3>4. Rebuilding => RowsOf(tree', pending.rows)
        BY <1>4 DEF TreeInv, PendingInv, RowsOf, Rebuilding
      <3> QED
        BY <1>5, <2>1, <2>7, <2>9, <2>10, <2>11, <3>1, <3>2, <3>3, <3>4 DEF PendingInv
    <2> QED
      BY <1>5, <1>7, <2>12, <2>13, <2>14, <2>15 DEF TreeInv, TreePainted
  <1> QED
    BY <1>6, <1>7

LEMMA TestDoneKeepsTree ==
  ASSUME TreeInv, SetTestOutput
  PROVE  TreeInv'
  <1>1. PICK l \in LeafNodes : TestDone(l)
    BY DEF SetTestOutput
  <1>2. /\ UNCHANGED <<tree, expanded, overlay, pending, painted, raised>>
        /\ UNCHANGED <<tree_dirty, tree_changed, phase>>
        /\ outcome' \in [LeafNodes -> {"", "passed", "failed"}]
    BY <1>1 DEF TestDone, SetTestOutput, TreeInv, TreeTypeInv
  <1>3. FreshRows' /\ Rebuilding' = Rebuilding
    BY <1>2, OverlayAlone DEF TreeInv
  <1>4. TreeTypeInv' /\ CursorOnRow'
    BY <1>2, <1>3 DEF TreeInv, TreeTypeInv, CursorOnRow, last, view_h
  <1>5. PendingInv' /\ TreePainted'
    BY <1>2, <1>3 DEF TreeInv, PendingInv, TreePainted, alive, last, LastShown, view_h
  <1> QED
    BY <1>3, <1>4, <1>5 DEF TreeInv

-----------------------------------------------------------------------------
(* The content pane: its types.                                            *)
PaneTyped == PaneTypeInv /\ PaneTypes

LEMMA Heights ==
  ASSUME PaneTyped
  PROVE  /\ total \in Nat /\ viewport_height \in {Height - 1, Height - 2}
         /\ viewport_height \in Nat /\ viewport_height >= 2
         /\ (viewport_height = Height - 1 <=> status = "none")
  BY WindowHeight DEF PaneTyped, PaneTypeInv, total, viewport_height

LEMMA ScrollToLineTyped ==
  ASSUME PaneTyped, NEW line \in Nat
  PROVE  scroll_to_line(line) \in Nat \cup {None}
  BY Heights DEF scroll_to_line, Max0, Least

LEMMA ScrolledTyped ==
  ASSUME PaneTyped, Scrolls, NEW delta \in Int
  PROVE  Scrolled(delta) \in Nat \cup {None}
  <1>1. user_scroll \in Nat \cup {None}
    BY DEF PaneTyped, PaneTypeInv
  <1> QED
    BY <1>1, Heights DEF Scrolled, Scrolls, Max0, Least

(* The numbers of the lines that match and are there.                      *)
LEMMA MatchNumbers ==
  ASSUME PaneTyped
  PROVE  LET hits == {n \in Hits[active] : n < total}
         IN  hits # {} =>
               /\ Ascending(hits) \in Seq(Nat) /\ Ascending(hits) # <<>>
               /\ 1 \in DOMAIN Ascending(hits)
               /\ \A k \in DOMAIN Ascending(hits) : Ascending(hits)[k] < total
  <1> DEFINE hits == {n \in Hits[active] : n < total}
  <1> SUFFICES ASSUME hits # {}
               PROVE  /\ Ascending(hits) \in Seq(Nat) /\ Ascending(hits) # <<>>
                      /\ 1 \in DOMAIN Ascending(hits)
                      /\ \A k \in DOMAIN Ascending(hits) : Ascending(hits)[k] < total
    OBVIOUS
  <1>1. hits \in SUBSET Nat /\ total \in Nat
    BY Heights, PaneAssumption DEF PaneTyped, PaneTypeInv
  <1>5. \A n \in hits : n < total
    OBVIOUS
  <1> HIDE DEF hits
  <1>2. IsFiniteSet(hits) /\ hits \in SUBSET Int
    <2>1. \A n \in hits : n <= total
      BY <1>1, <1>5
    <2> QED
      BY <1>1, <2>1, FS_BoundedSetOfNaturals
  <1>3. Cardinality(hits) \in Nat /\ Ascending(hits) \in [1 .. Cardinality(hits) -> hits]
    BY <1>1, <1>2, AscendingLists
  <1>4. Cardinality(hits) # 0
    BY <1>2, FS_EmptySet
  <1>6. Ascending(hits) \in Seq(Nat) /\ 1 \in DOMAIN Ascending(hits)
    <2> DEFINE C == Cardinality(hits)
               s == Ascending(hits)
    <2>1. C \in Nat \ {0} /\ s \in [1 .. C -> Nat]
      BY <1>1, <1>3, <1>4
    <2> HIDE DEF C, s
    <2>2. s \in Seq(Nat) /\ 1 \in DOMAIN s
      BY <2>1
    <2> QED
      BY <2>2 DEF s
  <1>7. Ascending(hits) # <<>>
    BY <1>6
  <1> QED
    BY <1>3, <1>5, <1>6, <1>7

(* The history of the cache in a step that sets some of its fields.        *)
LEMMA JumpsSets ==
  ASSUME PaneTypes, NEW j \in BOOLEAN, Jumps(j)
  PROVE  /\ seen' \in History /\ seen'.bars = seen.bars /\ seen'.plain = seen.plain
         /\ seen'.dropped = seen.dropped /\ seen'.jumped = j
  BY DEF PaneTypes, History, Jumps

LEMMA NoSearchTyped ==
  /\ NoSearch \in Searches /\ NoSearch.matches = <<>> /\ NoSearch.idx = 0
  /\ [NoSearch EXCEPT !.typing = TRUE] \in Searches
  /\ [NoSearch EXCEPT !.typing = TRUE].matches = <<>>
  /\ [NoSearch EXCEPT !.typing = TRUE].idx = 0
  <1>1. <<>> \in Seq(Nat) /\ 0 \in Nat
    OBVIOUS
  <1>2. NoSearch \in Searches
    BY <1>1 DEF NoSearch, Searches
  <1>3. NoSearch.matches = <<>> /\ NoSearch.idx = 0
    BY DEF NoSearch
  <1> HIDE DEF NoSearch
  <1> QED
    BY <1>2, <1>3 DEF Searches

(* The match that n or N goes to.                                          *)
LEMMA NextMatch ==
  ASSUME PaneTyped, HasMatches, NEW step \in {1, -1}
  PROVE  ((search.idx - 1 + step) % Len(search.matches)) + 1 \in DOMAIN search.matches
  <1>1. search.matches \in Seq(Nat) /\ search.matches # <<>> /\ search.idx \in Nat
    BY DEF PaneTyped, PaneTypes, Searches, HasMatches
  <1>2. Len(search.matches) \in Nat \ {0} /\ DOMAIN search.matches = 1 .. Len(search.matches)
    BY <1>1
  <1> DEFINE n == Len(search.matches)
             i == search.idx - 1 + step
  <1>3. i \in Int /\ n \in Nat \ {0}
    BY <1>1, <1>2
  <1> HIDE DEF i, n
  <1>4. i % n \in 0 .. n - 1
    BY <1>3
  <1>5. (i % n) + 1 \in 1 .. n
    BY <1>3, <1>4
  <1> QED
    BY <1>2, <1>5 DEF i, n

(* A jump to a line that is there leaves it in the viewport.               *)
LEMMA Landing ==
  ASSUME NEW H \in Nat, H >= 4, NEW T \in Nat, NEW n \in Nat, n < T, NEW V \in {H - 1, H - 2}
  PROVE  LET max_off == T - V
             target == Least(Max0(n - V \div 2), max_off)
             to == IF T <= V \/ target = max_off THEN None ELSE target
             end == Max0(T - (H - 2))
             offset == IF to = None THEN end ELSE Least(to, end)
         IN  \/ offset <= n /\ n < offset + (H - 2)
             \/ V = H - 1 /\ T = V /\ n = 0
  <1> DEFINE half == V \div 2
             max_off == T - V
             target == Least(Max0(n - half), max_off)
             end == Max0(T - (H - 2))
  <1>1. V \in Nat /\ half \in Nat /\ half >= 1 /\ half < H - 2
    OBVIOUS
  <1> HIDE DEF half
  <1>2. target \in Int /\ target # None
    BY <1>1, TerminalAssumption DEF Least, Max0
  <1>3. CASE T <= V
    BY <1>1, <1>3 DEF Max0
  <1>4. CASE T > V /\ target = max_off
    <2>1. n - half >= T - V
      BY <1>1, <1>4 DEF Least, Max0
    <2> QED
      BY <1>1, <1>4, <2>1 DEF Max0, half
  <1>5. CASE T > V /\ target # max_off
    <2>1. target = Max0(n - half) /\ target < T - V
      BY <1>1, <1>5 DEF Least, Max0
    <2>2. Least(target, end) = target
      BY <1>1, <1>2, <2>1 DEF Least, Max0
    <2>3. target <= n /\ n < target + (H - 2)
      BY <1>1, <2>1 DEF Max0
    <2> QED
      BY <1>2, <1>5, <2>2, <2>3 DEF half
  <1> QED
    BY <1>1, <1>3, <1>4, <1>5

-----------------------------------------------------------------------------
(* The content pane: what is on its rows.                                  *)
PaneInv == PaneTyped /\ CacheInv /\ RowsRight /\ JumpInv /\ MatchVisible

LEMMA CacheKept ==
  ASSUME CacheInv, UNCHANGED <<rows, rendered>>, seen'.bars = seen.bars
  PROVE  CacheInv'
  BY DEF CacheInv, Content

(* The rows stay right when nothing they depend on changes.                *)
LEMMA RowsKept ==
  ASSUME RowsRight, UNCHANGED <<rows, active, user_scroll, search, status>>, total' = total,
         seen'.bars = seen.bars, seen'.plain = seen.plain, Drawn' => Drawn
  PROVE  RowsRight'
  <1>1. Intended' = Intended
    BY DEF Intended, Wanted, Line, viewport, scroll_offset, runner_status, effective_status,
           highlight_line, HasMatches, match_line
  <1> QED
    BY <1>1 DEF RowsRight

(* A match stays in the viewport when nothing moves it.                    *)
LEMMA MatchKept ==
  ASSUME JumpInv, MatchVisible, UNCHANGED <<active, user_scroll, search, status>>, total' = total,
         seen'.jumped => seen.jumped
  PROVE  JumpInv' /\ MatchVisible'
  <1>1. /\ Visible(match_line)' <=> Visible(match_line)
        /\ match_line' = match_line /\ viewport_height' = viewport_height
        /\ HasMatches' <=> HasMatches
    BY DEF Visible, viewport, scroll_offset, effective_status, HasMatches, match_line,
           viewport_height
  <1> QED
    BY <1>1 DEF JumpInv, MatchVisible

(* A key that marks the pane and leaves no jump behind.                    *)
LEMMA MarkedKeepsPane ==
  ASSUME PaneInv, PaneTyped', dirty' \/ changed', UNCHANGED <<rows, rendered>>,
         seen'.bars = seen.bars, ~seen'.jumped
  PROVE  PaneInv'
  <1>1. CacheInv'
    BY CacheKept DEF PaneInv
  <1>2. RowsRight'
    BY DEF RowsRight, Drawn
  <1> QED
    BY <1>1, <1>2 DEF PaneInv, JumpInv, MatchVisible

(* A key that has jumped to a match: it is in the viewport.                *)
LEMMA JumpedKeepsPane ==
  ASSUME PaneInv, PaneTyped', changed', UNCHANGED <<rows, rendered, active, nlines, status>>,
         seen'.bars = seen.bars, HasMatches', ~search'.typing, match_line' \in Nat,
         user_scroll' = scroll_to_line(match_line')
  PROVE  PaneInv'
  <1>1. CacheInv'
    BY CacheKept DEF PaneInv
  <1>2. RowsRight' /\ JumpInv'
    BY DEF RowsRight, Drawn, JumpInv
  <1>3. MatchVisible'
    <2> SUFFICES ASSUME match_line' < total'
                 PROVE  \/ Visible(match_line)'
                        \/ status' = "none" /\ total' = viewport_height' /\ match_line' = 0
      BY DEF MatchVisible
    <2> DEFINE n == match_line'
               T == total
               V == viewport_height
               H == Height
               end == Max0(T - (H - 2))
               offset == IF user_scroll' = None THEN end ELSE Least(user_scroll', end)
    <2>1. total' = total /\ viewport_height' = viewport_height
      BY DEF total, viewport_height
    <2>2. T \in Nat /\ V \in {H - 1, H - 2} /\ (V = H - 1 <=> status = "none") /\ H \in Nat /\ H >= 4
      BY Heights, WindowHeight DEF PaneInv
    <2>3. n \in Nat /\ n < T
      BY <2>1
    <2>4. \/ offset <= n /\ n < offset + (H - 2)
          \/ V = H - 1 /\ T = V /\ n = 0
      <3>1. user_scroll' = IF T <= V \/ Least(Max0(n - V \div 2), T - V) = T - V THEN None
                           ELSE Least(Max0(n - V \div 2), T - V)
        BY DEF scroll_to_line
      <3> HIDE DEF T, V, H, n
      <3> QED
        BY <2>2, <2>3, <3>1, Landing
    <2>5. viewport(effective_status)' = H - 2
      <3>1. effective_status' = <<"match", search'.idx>>
        BY DEF effective_status
      <3>2. effective_status' # <<"none">>
        BY <3>1
      <3> QED
        BY <3>2, <2>2 DEF viewport
    <2>6. scroll_offset(user_scroll, viewport(effective_status))' = offset
      BY <2>1, <2>5 DEF scroll_offset
    <2> HIDE DEF offset, n
    <2>7. Visible(match_line)' <=> (offset <= n /\ n < offset + (H - 2))
      BY <2>5, <2>6 DEF Visible, n
    <2> QED
      BY <2>1, <2>2, <2>4, <2>7 DEF n
  <1> QED
    BY <1>1, <1>2, <1>3 DEF PaneInv

LEMMA SearchKeyKeepsPane ==
  ASSUME PaneInv, SearchKey, dirty' = (dirty \/ status' # status),
         UNCHANGED <<runner, rows, rendered>>
  PROVE  PaneInv'
  <1> DEFINE hits == {n \in Hits[active] : n < total}
             s == [search EXCEPT !.typing = FALSE, !.idx = 1, !.matches = Ascending(hits)]
  <1>1. changed' = TRUE /\ UNCHANGED <<active, nlines, status>> /\ dirty' \in BOOLEAN
    BY DEF SearchKey
  <1>2. PaneTyped
    BY DEF PaneInv
  <1>3. search \in Searches
    BY <1>2 DEF PaneTyped, PaneTypes
  <1>4. CASE search' = NoSearch /\ Jumps(FALSE) /\ UNCHANGED user_scroll
    <2>1. seen' \in History /\ seen'.bars = seen.bars /\ ~seen'.jumped
      BY <1>2, <1>4, JumpsSets DEF PaneTyped
    <2>2. PaneTyped'
      BY <1>1, <1>2, <1>4, <2>1, NoSearchTyped
      DEF PaneTyped, PaneTypeInv, PaneTypes, HasMatches
    <2> QED
      BY <1>1, <2>1, <2>2, MarkedKeepsPane
  <1>5. CASE \E text \in BOOLEAN : search' = [search EXCEPT !.text = text]
                                   /\ Jumps(FALSE) /\ UNCHANGED user_scroll
    <2>1. PICK text \in BOOLEAN : search' = [search EXCEPT !.text = text]
                                  /\ Jumps(FALSE) /\ UNCHANGED user_scroll
      BY <1>5
    <2>2. seen' \in History /\ seen'.bars = seen.bars /\ ~seen'.jumped
      BY <1>2, <2>1, JumpsSets DEF PaneTyped
    <2>3. /\ search' \in Searches /\ search'.matches = search.matches
          /\ search'.idx = search.idx
      BY <1>3, <2>1 DEF Searches
    <2>4. PaneTyped'
      BY <1>1, <1>2, <2>1, <2>2, <2>3 DEF PaneTyped, PaneTypeInv, PaneTypes, HasMatches
    <2> QED
      BY <1>1, <2>2, <2>4, MarkedKeepsPane
  <1>6. CASE /\ hits # {} /\ search' = s
             /\ user_scroll' = scroll_to_line(match_line') /\ Jumps(TRUE)
    <2> HIDE DEF hits
    <2>1. /\ Ascending(hits) \in Seq(Nat) /\ Ascending(hits) # <<>>
          /\ 1 \in DOMAIN Ascending(hits)
      BY <1>2, <1>6, MatchNumbers DEF hits
    <2>2. /\ search' \in Searches /\ search'.matches = Ascending(hits) /\ search'.idx = 1
          /\ ~search'.typing
      BY <1>3, <1>6, <2>1 DEF Searches
    <2>3. match_line' \in Nat
      BY <2>1, <2>2 DEF match_line
    <2>4. seen' \in History /\ seen'.bars = seen.bars
      BY <1>2, <1>6, JumpsSets DEF PaneTyped
    <2>5. user_scroll' \in Nat \cup {None}
      BY <1>2, <1>6, <2>3, ScrollToLineTyped
    <2>6. HasMatches'
      BY <2>1, <2>2 DEF HasMatches
    <2>7. PaneTyped'
      BY <1>1, <1>2, <2>1, <2>2, <2>4, <2>5, <2>6
      DEF PaneTyped, PaneTypeInv, PaneTypes, HasMatches
    <2> QED
      BY <1>1, <1>6, <2>2, <2>3, <2>4, <2>6, <2>7, JumpedKeepsPane
  <1>7. \/ hits = {} /\ search' = NoSearch /\ Jumps(FALSE) /\ UNCHANGED user_scroll
        \/ hits # {} /\ search' = s /\ user_scroll' = scroll_to_line(match_line') /\ Jumps(TRUE)
        \/ search' = NoSearch /\ Jumps(FALSE) /\ UNCHANGED user_scroll
        \/ \E text \in BOOLEAN : search' = [search EXCEPT !.text = text]
                                 /\ Jumps(FALSE) /\ UNCHANGED user_scroll
    BY DEF SearchKey
  <1> QED
    BY <1>4, <1>5, <1>6, <1>7

LEMMA JumpMatchKeepsPane ==
  ASSUME PaneInv, JumpMatch, dirty' = (dirty \/ status' # status),
         UNCHANGED <<runner, rows, rendered>>
  PROVE  PaneInv'
  <1>1. /\ changed' = TRUE /\ UNCHANGED <<active, nlines, status>> /\ dirty' \in BOOLEAN
        /\ ~search.typing /\ HasMatches /\ Jumps(TRUE)
        /\ user_scroll' = scroll_to_line(search.matches[search'.idx])
    BY DEF JumpMatch
  <1>2. PICK step \in {1, -1} :
          search' = [search EXCEPT !.idx = ((@ - 1 + step) % Len(search.matches)) + 1]
    BY DEF JumpMatch
  <1> DEFINE i == ((search.idx - 1 + step) % Len(search.matches)) + 1
  <1>3. PaneTyped /\ search \in Searches
    BY DEF PaneInv, PaneTyped, PaneTypes
  <1>4. i \in DOMAIN search.matches
    BY <1>1, <1>3, NextMatch
  <1>5. search' = [search EXCEPT !.idx = i]
    BY <1>2
  <1> HIDE DEF i
  <1>6. i \in Nat /\ search.matches[i] \in Nat
    BY <1>3, <1>4 DEF Searches
  <1>7. /\ search' \in Searches /\ search'.matches = search.matches /\ search'.idx = i
        /\ search'.typing = search.typing
    BY <1>3, <1>5, <1>6 DEF Searches
  <1>8. match_line' = search.matches[i] /\ HasMatches'
    BY <1>1, <1>7 DEF match_line, HasMatches
  <1>9. seen' \in History /\ seen'.bars = seen.bars
    BY <1>1, <1>3, JumpsSets DEF PaneTyped
  <1>10. user_scroll' \in Nat \cup {None}
    BY <1>1, <1>3, <1>6, <1>7, ScrollToLineTyped
  <1>11. PaneTyped'
    BY <1>1, <1>3, <1>4, <1>7, <1>8, <1>9, <1>10
    DEF PaneTyped, PaneTypeInv, PaneTypes, HasMatches
  <1> QED
    BY <1>1, <1>6, <1>7, <1>8, <1>9, <1>11, JumpedKeepsPane

LEMMA PlainKeysKeepPane ==
  ASSUME PaneInv, StartSearch \/ ClearSearch \/ SaveBuffer \/ ScrollKey,
         dirty' = (dirty \/ status' # status), UNCHANGED <<runner, rows, rendered>>
  PROVE  PaneInv'
  <1>1. PaneTyped /\ changed' = TRUE /\ Jumps(FALSE) /\ dirty' \in BOOLEAN
    BY DEF PaneInv, StartSearch, ClearSearch, SaveBuffer, ScrollKey
  <1>2. seen' \in History /\ seen'.bars = seen.bars /\ ~seen'.jumped
    BY <1>1, JumpsSets DEF PaneTyped
  <1>3. CASE StartSearch
    <2>1. PaneTyped'
      BY <1>1, <1>2, <1>3, NoSearchTyped
      DEF StartSearch, PaneTyped, PaneTypeInv, PaneTypes, HasMatches
    <2> QED
      BY <1>1, <1>2, <2>1, MarkedKeepsPane
  <1>4. CASE ClearSearch
    <2>1. PaneTyped'
      BY <1>1, <1>2, <1>4, NoSearchTyped
      DEF ClearSearch, PaneTyped, PaneTypeInv, PaneTypes, HasMatches
    <2> QED
      BY <1>1, <1>2, <2>1, MarkedKeepsPane
  <1>5. CASE SaveBuffer
    <2>1. PaneTyped'
      BY <1>1, <1>2, <1>5 DEF SaveBuffer, PaneTyped, PaneTypeInv, PaneTypes, HasMatches
    <2> QED
      BY <1>1, <1>2, <2>1, MarkedKeepsPane
  <1>6. CASE ScrollKey
    <2>1. viewport_height \in Int /\ -viewport_height \in Int /\ Scrolls
      BY <1>1, <1>6, Heights DEF ScrollKey
    <2>2. user_scroll' \in Nat \cup {None}
      BY <1>1, <1>6, <2>1, ScrolledTyped DEF ScrollKey
    <2>3. PaneTyped'
      BY <1>1, <1>2, <1>6, <2>2 DEF ScrollKey, PaneTyped, PaneTypeInv, PaneTypes, HasMatches
    <2> QED
      BY <1>1, <1>2, <2>3, MarkedKeepsPane
  <1> QED
    BY <1>3, <1>4, <1>5, <1>6

LEMMA WheelKeepsPane ==
  ASSUME PaneInv, PaneWheel
  PROVE  PaneInv'
  <1>1. /\ PaneTyped /\ UNCHANGED <<active, nlines, search, status, runner, dirty, rows, rendered>>
        /\ changed' = Scrolls
        /\ user_scroll' \in IF Scrolls THEN {Scrolled(3), Scrolled(-3)} ELSE {user_scroll}
        /\ seen' = [seen EXCEPT !.jumped = FALSE, !.dropped = @ \/ (changed /\ ~Scrolls)]
    BY DEF PaneInv, PaneWheel, Wheel
  <1>2. seen \in History /\ changed \in BOOLEAN /\ Scrolls \in BOOLEAN
    BY <1>1 DEF PaneTyped, PaneTypes, PaneTypeInv, Scrolls
  <1>3. /\ seen' \in History /\ seen'.bars = seen.bars /\ ~seen'.jumped
        /\ seen'.plain = seen.plain /\ seen'.dropped = (seen.dropped \/ (changed /\ ~Scrolls))
    BY <1>1, <1>2 DEF History
  <1>4. user_scroll' \in Nat \cup {None}
    BY <1>1, ScrolledTyped DEF PaneTyped, PaneTypeInv
  <1>5. PaneTyped'
    BY <1>1, <1>2, <1>3, <1>4 DEF PaneTyped, PaneTypeInv, PaneTypes, HasMatches
  <1>6. CASE Scrolls
    BY <1>1, <1>3, <1>5, <1>6, MarkedKeepsPane
  <1>7. CASE ~Scrolls
    <2>1. UNCHANGED user_scroll /\ total' = total /\ (Drawn' => Drawn)
      BY <1>1, <1>3, <1>7 DEF Drawn, total
    <2>2. RowsRight'
      BY <1>1, <1>3, <2>1, RowsKept DEF PaneInv
    <2>3. CacheInv'
      BY <1>1, <1>3, CacheKept DEF PaneInv
    <2> QED
      BY <1>3, <1>5, <2>2, <2>3 DEF PaneInv, JumpInv, MatchVisible
  <1> QED
    BY <1>6, <1>7

(* The end of a batch, and steps that leave the pane alone.                *)
LEMMA StillKeepsPane ==
  ASSUME PaneInv, UNCHANGED <<pane, runner, rows, rendered, seen>>,
         dirty' \in BOOLEAN, changed' \in BOOLEAN, dirty \/ changed => dirty' \/ changed'
  PROVE  PaneInv'
  <1>1. UNCHANGED <<active, nlines, user_scroll, search, status>> /\ total' = total
    BY DEF pane, total
  <1>2. PaneTyped'
    BY <1>1 DEF PaneInv, PaneTyped, PaneTypeInv, PaneTypes, HasMatches
  <1>3. RowsRight'
    BY <1>1, RowsKept DEF PaneInv, Drawn
  <1>4. JumpInv' /\ MatchVisible'
    BY <1>1, MatchKept DEF PaneInv
  <1> QED
    BY <1>2, <1>3, <1>4, CacheKept DEF PaneInv

LEMMA ClearedKeepsPane ==
  ASSUME PaneInv, ClearCache, changed' \in BOOLEAN, active' \in Views,
         user_scroll' \in Nat \cup {None},
         UNCHANGED <<nlines, search, status, runner, rows>>
  PROVE  PaneInv'
  <1>1. /\ rendered' = [k \in 0 .. Height |-> <<>>] /\ dirty' = TRUE
        /\ seen' = [bars |-> {}, jumped |-> FALSE, dropped |-> FALSE, plain |-> FALSE]
    BY DEF ClearCache
  <1>2. seen' \in History /\ seen'.bars = {} /\ ~seen'.jumped
    BY <1>1 DEF History
  <1>3. PaneTyped'
    BY <1>1, <1>2 DEF PaneInv, PaneTyped, PaneTypeInv, PaneTypes, HasMatches
  <1>4. CacheInv'
    BY <1>1, <1>2, WindowHeight DEF CacheInv
  <1> QED
    BY <1>1, <1>2, <1>3, <1>4 DEF PaneInv, RowsRight, Drawn, JumpInv, MatchVisible

(* The runner's lines, outputs and the end.                                *)
LEMMA AddContentKeepsPane == ASSUME PaneInv, AddContent PROVE PaneInv'
  <1>1. /\ PaneTyped /\ runner' \in {"idle", "redraw"} /\ dirty' = TRUE /\ Jumps(FALSE)
        /\ nlines' \in {nlines, [nlines EXCEPT ![Summary] = @ + 1]}
        /\ UNCHANGED <<active, user_scroll, search, status, changed, rows, rendered>>
    BY DEF PaneInv, AddContent
  <1>2. seen' \in History /\ seen'.bars = seen.bars /\ ~seen'.jumped
    BY <1>1, JumpsSets DEF PaneTyped
  <1>3. nlines' \in [Views -> Nat]
    BY <1>1, PaneAssumption DEF PaneTyped, PaneTypeInv
  <1>4. PaneTyped'
    BY <1>1, <1>2, <1>3 DEF PaneTyped, PaneTypeInv, PaneTypes, HasMatches
  <1> QED
    BY <1>1, <1>2, <1>4, MarkedKeepsPane

LEMMA TestsCompleteKeepsPane == ASSUME PaneInv, TestsComplete PROVE PaneInv'
  <1>1. /\ PaneTyped /\ runner' = "finished" /\ status' = "complete" /\ dirty' = TRUE
        /\ Jumps(FALSE)
        /\ UNCHANGED <<active, nlines, user_scroll, search, changed, rows, rendered>>
    BY DEF PaneInv, TestsComplete
  <1>2. seen' \in History /\ seen'.bars = seen.bars /\ ~seen'.jumped
    BY <1>1, JumpsSets DEF PaneTyped
  <1>3. PaneTyped'
    BY <1>1, <1>2 DEF PaneTyped, PaneTypeInv, PaneTypes, HasMatches
  <1> QED
    BY <1>1, <1>2, <1>3, MarkedKeepsPane

LEMMA AddOutputKeepsPane ==
  ASSUME PaneInv, NEW views, NEW n \in Nat, AddOutput(views, n)
  PROVE  PaneInv'
  <1>1. /\ PaneTyped /\ Jumps(FALSE)
        /\ nlines' = [v \in Views |-> IF v \in views THEN nlines[v] + n ELSE nlines[v]]
        /\ dirty' = (dirty \/ active \in views)
        /\ UNCHANGED <<active, user_scroll, search, status, runner, changed, rows, rendered>>
    BY DEF PaneInv, AddOutput
  <1>2. /\ seen' \in History /\ seen'.bars = seen.bars /\ ~seen'.jumped
        /\ seen'.plain = seen.plain /\ seen'.dropped = seen.dropped
    BY <1>1, JumpsSets DEF PaneTyped
  <1>3. nlines' \in [Views -> Nat]
    BY <1>1 DEF PaneTyped, PaneTypeInv
  <1>4. PaneTyped'
    BY <1>1, <1>2, <1>3 DEF PaneTyped, PaneTypeInv, PaneTypes, HasMatches
  <1>5. CASE active \in views
    BY <1>1, <1>2, <1>4, <1>5, MarkedKeepsPane
  <1>6. CASE active \notin views
    <2>1. total' = total /\ (Drawn' => Drawn)
      BY <1>1, <1>2, <1>6 DEF total, Drawn, PaneTyped, PaneTypeInv
    <2>2. RowsRight'
      BY <1>1, <1>2, <2>1, RowsKept DEF PaneInv
    <2>3. CacheInv'
      BY <1>1, <1>2, CacheKept DEF PaneInv
    <2> QED
      BY <1>2, <1>4, <2>2, <2>3 DEF PaneInv, JumpInv, MatchVisible
  <1> QED
    BY <1>5, <1>6

(* The key of a line says what the line shows.                             *)
LEMMA KeySaysLine ==
  ASSUME NEW offset, NEW r, NEW hl, offset + r \in Int, total \in Int
  PROVE  /\ cache_key(offset, r, hl) # <<>>
         /\ Content(cache_key(offset, r, hl)) = Line(offset + r, hl)
  <1>1. CASE offset + r < total
    <2> DEFINE key == <<offset, hl, <<active, offset + r>> >>
    <2>1. /\ key # <<>> /\ Len(key) = 3 /\ key[2] = hl
          /\ key[3][1] = active /\ key[3][2] = offset + r
      OBVIOUS
    <2>2. cache_key(offset, r, hl) = key
      BY <1>1 DEF cache_key
    <2> HIDE DEF key
    <2>3. ~(offset + r >= total)
      BY <1>1
    <2> DEFINE n == offset + r
               shows == <<active, n, IF hl = None \/ n \notin Hits[active] THEN "plain"
                                     ELSE IF n = hl THEN "current" ELSE "match">>
    <2>4. Line(n, hl) = shows
      BY <2>3 DEF Line
    <2> HIDE DEF n
    <2>5. Content(key) = shows
      BY <2>1 DEF Content, n
    <2> QED
      BY <2>1, <2>2, <2>4, <2>5 DEF n
  <1>2. CASE ~(offset + r < total)
    <2>1. offset + r >= total
      BY <1>2
    <2>2. cache_key(offset, r, hl) = <<offset>> /\ Len(<<offset>>) = 1 /\ <<offset>> # <<>>
      BY <1>2 DEF cache_key
    <2> QED
      BY <2>1, <2>2 DEF Content, Line
  <1> QED
    BY <1>1, <1>2

LEMMA TwoBars == Cardinality({TRUE, FALSE}) = 2
  <1>1. Cardinality({TRUE}) = 1 /\ IsFiniteSet({TRUE})
    BY FS_Singleton
  <1>2. FALSE \notin {TRUE}
    OBVIOUS
  <1>4. Cardinality({TRUE} \cup {FALSE}) = Cardinality({TRUE}) + 1
    BY <1>1, <1>2, FS_AddElement
  <1>3. {TRUE} \cup {FALSE} = {TRUE, FALSE}
    OBVIOUS
  <1> QED
    <2>1. 1 + 1 = 2
      OBVIOUS
    <2>2. Cardinality({TRUE, FALSE}) = 1 + 1
      BY <1>1, <1>3, <1>4, Zenon
    <2> QED
      BY <2>1, <2>2, Zenon

(* redraw_buffer: every row shows what it should, those that the cache     *)
(* skips included, but for the row of the bars once both lines and bars    *)
(* were drawn on it.                                                       *)
LEMMA RedrawRight ==
  ASSUME PaneInv, NEW scroll \in Nat \cup {None}, NEW bar, bar # <<>>, NEW hl,
         RedrawBuffer(scroll, bar, hl)
  PROVE  /\ CacheInv'
         /\ DOMAIN rows' = 0 .. Height - 1 /\ DOMAIN rendered' = 0 .. Height
         /\ \A r \in 0 .. Height - 1 :
              rows'[r] = Wanted(scroll, bar, hl)[r]
                \/ (r = Height - 2 /\ Cardinality(seen'.bars) = 2)
         /\ seen' \in History /\ seen'.jumped = seen.jumped /\ ~seen'.dropped
         /\ seen'.plain = (hl = None /\ bar = runner_status)
  <1> DEFINE H == Height
             vp == viewport(bar)
             offset == scroll_offset(scroll, vp)
             none == (bar = <<"none">>)
             want == Wanted(scroll, bar, hl)
             index(r) == IF r < vp THEN r ELSE r + 1
             key == [k \in 0 .. H |->
                       IF k < vp THEN cache_key(offset, k, hl)
                       ELSE IF k = H THEN <<"hint">>
                       ELSE IF k = vp + 1 THEN bar ELSE rendered[k]]
  <1>1. /\ rendered' = key
        /\ rows' = [r \in 0 .. H - 1 |->
                      IF rendered[index(r)] = key[index(r)] THEN rows[r] ELSE want[r]]
        /\ seen' = [seen EXCEPT !.bars = @ \cup {none}, !.dropped = FALSE,
                                !.plain = hl = None /\ bar = runner_status]
    BY DEF RedrawBuffer
  <1>2. H \in Nat /\ H >= 4 /\ total \in Nat
    BY WindowHeight, Heights DEF PaneInv
  <1>3. vp = IF none THEN H - 1 ELSE H - 2
    BY <1>2 DEF viewport
  <1>4. offset \in Nat
    BY <1>2, <1>3 DEF scroll_offset, Max0, Least
  <1>5. \A r \in 0 .. H - 1 : cache_key(offset, r, hl) # <<>>
                              /\ Content(cache_key(offset, r, hl)) = Line(offset + r, hl)
    BY <1>2, <1>4, KeySaysLine
  <1>6. \A r \in 0 .. H - 1 : want[r] = IF r < vp THEN Line(offset + r, hl)
                                        ELSE IF r < H - 1 THEN bar ELSE <<"hint">>
    BY DEF Wanted
  <1>7. /\ seen' \in History /\ seen'.bars = seen.bars \cup {none} /\ seen'.jumped = seen.jumped
        /\ ~seen'.dropped /\ seen'.plain = (hl = None /\ bar = runner_status)
    <2>1. seen \in History /\ none \in BOOLEAN /\ (hl = None /\ bar = runner_status) \in BOOLEAN
      BY DEF PaneInv, PaneTyped, PaneTypes
    <2> HIDE DEF none
    <2> DEFINE b == seen.bars \cup {none}
               q == (hl = None /\ bar = runner_status)
    <2>2. b \in SUBSET BOOLEAN
      BY <2>1 DEF History
    <2>3. seen' = [seen EXCEPT !.bars = b, !.dropped = FALSE, !.plain = q]
      BY <1>1
    <2> HIDE DEF b, q
    <2>4. /\ seen' \in History /\ seen'.bars = b /\ seen'.jumped = seen.jumped
          /\ ~seen'.dropped /\ seen'.plain = q
      BY <2>1, <2>2, <2>3 DEF History, q
    <2> QED
      BY <2>4 DEF b, q
  <1> HIDE DEF want, offset, H
  <1>8. /\ \A r \in 0 .. H - 3 : rendered[r] = <<>> \/ rows[r] = Content(rendered[r])
        /\ TRUE \notin seen.bars => rendered[H - 2] = <<>>
        /\ FALSE \notin seen.bars => rendered[H - 1] = <<>>
        /\ FALSE \notin seen.bars =>
             rendered[H - 2] = <<>> \/ rows[H - 2] = Content(rendered[H - 2])
        /\ TRUE \notin seen.bars =>
             rendered[H - 1] = <<>> \/ rows[H - 2] = rendered[H - 1]
        /\ rendered[H] = <<>> \/ rows[H - 1] = <<"hint">>
    BY DEF PaneInv, CacheInv, H
  <1>9. \A r \in 0 .. H - 3 : /\ rendered'[r] = cache_key(offset, r, hl)
                              /\ rows'[r] = want[r] /\ rows'[r] = Content(rendered'[r])
    <2> SUFFICES ASSUME NEW r \in 0 .. H - 3
                 PROVE  /\ rendered'[r] = cache_key(offset, r, hl)
                        /\ rows'[r] = want[r] /\ rows'[r] = Content(rendered'[r])
      OBVIOUS
    <2>1. r < vp /\ r \in 0 .. H - 1 /\ r \in 0 .. H
      BY <1>2, <1>3
    <2>2. key[r] = cache_key(offset, r, hl) /\ want[r] = Line(offset + r, hl) /\ index(r) = r
      BY <1>6, <2>1
    <2>3. rows'[r] = IF rendered[r] = key[r] THEN rows[r] ELSE want[r]
      BY <1>1, <2>1, <2>2
    <2> QED
      BY <1>1, <1>5, <1>8, <2>1, <2>2, <2>3
  <1>10. /\ rendered'[H] = <<"hint">> /\ rows'[H - 1] = <<"hint">> /\ want[H - 1] = <<"hint">>
    <2>1. ~(H - 1 < vp) /\ ~(H < vp) /\ ~(H - 1 < H - 1) /\ H - 1 \in 0 .. H - 1 /\ H \in 0 .. H
          /\ H - 1 + 1 = H
      BY <1>2, <1>3
    <2>2. key[H] = <<"hint">> /\ want[H - 1] = <<"hint">> /\ index(H - 1) = H
      BY <1>6, <2>1
    <2>3. rows'[H - 1] = IF rendered[H] = key[H] THEN rows[H - 1] ELSE want[H - 1]
      BY <1>1, <2>1, <2>2
    <2>4. <<"hint">> # <<>>
      OBVIOUS
    <2> QED
      BY <1>1, <1>8, <2>2, <2>3, <2>4
  <1>11. /\ rows'[H - 2] = want[H - 2] \/ Cardinality(seen'.bars) = 2
         /\ TRUE \notin seen'.bars => rendered'[H - 2] = <<>>
         /\ FALSE \notin seen'.bars => rendered'[H - 1] = <<>>
         /\ FALSE \notin seen'.bars =>
              rendered'[H - 2] = <<>> \/ rows'[H - 2] = Content(rendered'[H - 2])
         /\ TRUE \notin seen'.bars =>
              rendered'[H - 1] = <<>> \/ rows'[H - 2] = rendered'[H - 1]
    <2>1. CASE none
      <3>1. /\ H - 2 < vp /\ H - 2 \in 0 .. H - 1 /\ H - 2 \in 0 .. H /\ H - 1 \in 0 .. H
            /\ ~(H - 1 < vp) /\ H - 1 # H /\ H - 1 # vp + 1
        BY <1>2, <1>3, <2>1
      <3>2. /\ key[H - 2] = cache_key(offset, H - 2, hl) /\ key[H - 1] = rendered[H - 1]
            /\ want[H - 2] = Line(offset + (H - 2), hl) /\ index(H - 2) = H - 2
        BY <1>6, <3>1
      <3>3. rows'[H - 2] = IF rendered[H - 2] = key[H - 2] THEN rows[H - 2] ELSE want[H - 2]
        BY <1>1, <3>1, <3>2
      <3>4. TRUE \in seen'.bars /\ (FALSE \notin seen'.bars => FALSE \notin seen.bars)
        BY <1>7, <2>1
      <3>5. FALSE \notin seen.bars => rows'[H - 2] = want[H - 2] /\ rows'[H - 2] = Content(key[H - 2])
        BY <1>5, <1>8, <3>1, <3>2, <3>3
      <3>6. FALSE \in seen'.bars => Cardinality(seen'.bars) = 2
        <4>1. FALSE \in seen'.bars => seen'.bars = {TRUE, FALSE}
          BY <1>7, <3>4 DEF History
        <4> QED
          BY <4>1, TwoBars
      <3> QED
        BY <1>1, <1>8, <3>2, <3>4, <3>5, <3>6
    <2>2. CASE ~none
      <3>1. /\ ~(H - 2 < vp) /\ H - 2 < H - 1 /\ H - 2 \in 0 .. H - 1 /\ H - 2 \in 0 .. H
            /\ H - 1 \in 0 .. H /\ ~(H - 1 < vp) /\ H - 1 # H /\ H - 1 = vp + 1
            /\ H - 2 # H /\ H - 2 # vp + 1 /\ H - 2 + 1 = H - 1
        BY <1>2, <1>3, <2>2
      <3>2. /\ key[H - 2] = rendered[H - 2] /\ key[H - 1] = bar
            /\ want[H - 2] = bar /\ index(H - 2) = H - 1
        BY <1>6, <3>1
      <3>3. rows'[H - 2] = IF rendered[H - 1] = key[H - 1] THEN rows[H - 2] ELSE want[H - 2]
        BY <1>1, <3>1, <3>2
      <3>4. FALSE \in seen'.bars /\ (TRUE \notin seen'.bars => TRUE \notin seen.bars)
        BY <1>7, <2>2
      <3>5. TRUE \notin seen.bars => rows'[H - 2] = want[H - 2] /\ rows'[H - 2] = key[H - 1]
        BY <1>8, <3>1, <3>2, <3>3
      <3>6. TRUE \in seen'.bars => Cardinality(seen'.bars) = 2
        <4>1. TRUE \in seen'.bars => seen'.bars = {TRUE, FALSE}
          BY <1>7, <3>4 DEF History
        <4> QED
          BY <4>1, TwoBars
      <3> QED
        BY <1>1, <1>8, <3>2, <3>4, <3>5, <3>6
    <2> QED
      BY <2>1, <2>2
  <1>12. CacheInv'
    BY <1>9, <1>10, <1>11 DEF CacheInv, H
  <1>13. \A r \in 0 .. H - 1 :
           rows'[r] = want[r] \/ (r = H - 2 /\ Cardinality(seen'.bars) = 2)
    <2>1. \A r \in 0 .. H - 1 : r \in 0 .. H - 3 \/ r = H - 2 \/ r = H - 1
      BY <1>2
    <2> QED
      BY <1>9, <1>10, <1>11, <2>1
  <1>14. DOMAIN rows' = 0 .. H - 1 /\ DOMAIN rendered' = 0 .. H
    BY <1>1
  <1> QED
    BY <1>7, <1>12, <1>13, <1>14 DEF H, want

(* A drawing of the whole pane that has consumed, or leaves, the mark.     *)
LEMMA RedrawKeepsPane ==
  ASSUME PaneInv, UNCHANGED <<pane, changed>>, runner' \in {"idle", "redraw", "finished"},
         dirty' \in BOOLEAN,
         \/ RedrawBuffer(user_scroll, runner_status, None)
         \/ RedrawBuffer(user_scroll, effective_status, highlight_line)
  PROVE  PaneInv'
  <1>1. PICK scroll, bar, hl :
          /\ scroll = user_scroll
          /\ \/ bar = runner_status /\ hl = None
             \/ bar = effective_status /\ hl = highlight_line
          /\ RedrawBuffer(scroll, bar, hl)
    <2>1. CASE RedrawBuffer(user_scroll, runner_status, None)
      <3> WITNESS user_scroll, runner_status, None
      <3> QED
        BY <2>1 DEF RedrawBuffer
    <2>2. CASE RedrawBuffer(user_scroll, effective_status, highlight_line)
      <3> WITNESS user_scroll, effective_status, highlight_line
      <3> QED
        BY <2>2 DEF RedrawBuffer
    <2> QED
      BY <2>1, <2>2, Zenon
  <1>2. UNCHANGED <<active, nlines, user_scroll, search, status>> /\ total' = total
    BY DEF pane, total
  <1>3. scroll \in Nat \cup {None} /\ bar # <<>>
    <2>1. user_scroll \in Nat \cup {None}
      BY DEF PaneInv, PaneTyped, PaneTypeInv
    <2>2. runner_status # <<>> /\ effective_status # <<>>
      <3>1. \A a, b : <<a, b>> # <<>> /\ <<a>> # <<>>
        OBVIOUS
      <3> QED
        BY <3>1, Zenon DEF runner_status, effective_status
    <2> QED
      BY <1>1, <2>1, <2>2, Zenon
  <1>4. /\ CacheInv'
        /\ DOMAIN rows' = 0 .. Height - 1 /\ DOMAIN rendered' = 0 .. Height
        /\ \A r \in 0 .. Height - 1 :
             rows'[r] = Wanted(scroll, bar, hl)[r]
               \/ (r = Height - 2 /\ Cardinality(seen'.bars) = 2)
        /\ seen' \in History /\ seen'.jumped = seen.jumped
        /\ seen'.plain = (hl = None /\ bar = runner_status)
    <2>1. RedrawBuffer(scroll, bar, hl)
      BY <1>1
    <2> QED
      BY <1>3, <2>1, RedrawRight
  <1>5. PaneTyped'
    BY <1>2, <1>4 DEF PaneInv, PaneTyped, PaneTypeInv, PaneTypes, HasMatches
  <1>6. Intended' = Wanted(scroll, bar, hl)
    <2>1. Intended' = IF seen'.plain THEN Wanted(user_scroll, runner_status, None)
                      ELSE Wanted(user_scroll, effective_status, highlight_line)
      BY <1>2 DEF Intended, Wanted, Line, viewport, scroll_offset, runner_status,
                  effective_status, highlight_line, HasMatches, match_line
    <2> QED
      BY <1>1, <1>4, <2>1 DEF Wanted
  <1>7. RowsRight'
    BY <1>4, <1>6 DEF RowsRight
  <1>8. JumpInv' /\ MatchVisible'
    BY <1>2, <1>4, MatchKept DEF PaneInv
  <1> QED
    BY <1>4, <1>5, <1>7, <1>8 DEF PaneInv

-----------------------------------------------------------------------------
(* The two panes.                                                          *)
FocusInv == focus \in {"overlay", "content"} /\ phase \in {"input", "tree", "content"}
            /\ tree_dirty \in BOOLEAN /\ tree_changed \in BOOLEAN

SplitViewInv == TreeInv /\ PaneInv /\ FocusInv

LEMMA StartsRight == Init => SplitViewInv
  <1> SUFFICES ASSUME Init PROVE SplitViewInv
    OBVIOUS
  <1>1. TreeInv
    BY DEF Init, TreeInit, TreeInv, TreeTypeInv, CursorOnRow, FreshRows, PendingInv, TreePainted,
           Rebuilding, LeafNodes
  <1>2. /\ PaneInit /\ seen \in History /\ seen.bars = {} /\ ~seen.jumped /\ dirty
    BY DEF Init, PaneInit, History
  <1>3. PaneTyped
    BY <1>2, PaneAssumption, NoSearchTyped
    DEF PaneInit, PaneTyped, PaneTypeInv, PaneTypes, HasMatches
  <1>4. CacheInv
    BY <1>2, WindowHeight DEF PaneInit, CacheInv
  <1>5. PaneInv
    BY <1>2, <1>3, <1>4 DEF PaneInv, RowsRight, Drawn, JumpInv, MatchVisible
  <1> QED
    BY <1>1, <1>5 DEF SplitViewInv, FocusInv, Init

LEMMA PaneAlone == ASSUME PaneInv, UNCHANGED cvars PROVE PaneInv'
  BY StillKeepsPane DEF cvars, PaneInv, PaneTyped, PaneTypeInv

(* The view that Enter shows.                                              *)
LEMMA SelectedIsView == ASSUME TreeInv, OnRow PROVE Selected \in Views
  <1>1. Views = SUBSET LeafNodes
    BY SplitAssumption
  <1> QED
    BY <1>1 DEF Selected, collect_leaves

LEMMA PaneKeyKeepsPane == ASSUME PaneInv, PaneKey PROVE PaneInv'
  BY SearchKeyKeepsPane, JumpMatchKeepsPane, PlainKeysKeepPane DEF PaneKey

LEMMA InputKeepsInv == ASSUME SplitViewInv, ProcessInput PROVE SplitViewInv'
  <1>1. TreeInv /\ PaneInv /\ FocusInv
    BY DEF SplitViewInv
  <1>2. CASE CloseTree
    <2>1. FocusInv'
      BY <1>1, <1>2 DEF CloseTree, ReturnAtOnce, FocusInv
    <2>2. PaneInv'
      BY <1>1, <1>2, ClearedKeepsPane
      DEF CloseTree, ReturnAtOnce, pane, PaneInv, PaneTyped, PaneTypeInv
    <2> QED
      BY <1>1, <1>2, <2>1, <2>2, CloseTreeKeepsTree DEF SplitViewInv
  <1>3. CASE OpenTree
    <2>1. FocusInv'
      BY <1>1, <1>3 DEF OpenTree, ReturnAtOnce, FocusInv
    <2>2. PaneInv'
      BY <1>1, <1>3, ClearedKeepsPane
      DEF OpenTree, ReturnAtOnce, pane, PaneInv, PaneTyped, PaneTypeInv
    <2> QED
      BY <1>1, <1>3, <2>1, <2>2, OpenTreeKeepsTree DEF SplitViewInv
  <1>4. CASE SwitchFocus
    BY <1>1, <1>4, PaneAlone, MarksKeepTree DEF SwitchFocus, FocusInv, SplitViewInv
  <1>5. CASE KeyInTree
    <2>1. FocusInv' /\ PaneInv'
      BY <1>1, <1>5, PaneAlone DEF KeyInTree, FocusInv
    <2>2. phase = "input" /\ UNCHANGED phase /\ tree_changed'
      BY <1>5 DEF KeyInTree, Input
    <2>3. TreeKey \/ MoveBegins(WheelRows)
      BY <1>5 DEF KeyInTree
    <2>4. TreeInv'
      BY <1>1, <2>2, <2>3, TreeKeyKeepsTree, MoveBeginsKeepsTree
    <2> QED
      BY <2>1, <2>4 DEF SplitViewInv
  <1>6. CASE Jump
    <2>1. Selected \in Views
      BY <1>1, <1>6, SelectedIsView DEF Jump
    <2>2. PaneInv'
      BY <1>1, <1>6, <2>1, ClearedKeepsPane
      DEF Jump, ShowView, PaneInv, PaneTyped, PaneTypeInv
    <2>3. tree_changed
      BY <1>1, <1>6 DEF Jump, OnRow, AtRow, TreeInv, PendingInv
    <2>4. TreeInv'
      BY <1>1, <1>6, <2>3, EnterKeepsTree DEF Jump
    <2> QED
      BY <1>1, <1>6, <2>2, <2>4 DEF Jump, FocusInv, SplitViewInv
  <1>7. CASE Close
    <2>1. {} \in Views
      BY SplitAssumption
    <2>2. PaneInv'
      BY <1>1, <1>7, <2>1, ClearedKeepsPane
      DEF Close, ShowView, ReturnAtOnce, PaneInv, PaneTyped, PaneTypeInv
    <2>3. TreeInv'
      <3>1. CASE Input
        <4>1. UNCHANGED tvars /\ pending = None /\ tree_dirty'
          BY <1>7, <3>1 DEF Close, Input, tvars
        <4> QED
          BY <1>1, <4>1, MarksKeepTree
      <3>2. CASE alive /\ OnRow
        BY <1>1, <1>7, <3>2, EnterKeepsTree DEF Close
      <3> QED
        BY <1>7, <3>1, <3>2 DEF Close
    <2> QED
      BY <1>1, <1>7, <2>2, <2>3 DEF Close, ReturnAtOnce, FocusInv, SplitViewInv
  <1>8. CASE ContentKey
    <2>1. PaneInv'
      BY <1>1, <1>8, PaneKeyKeepsPane, WheelKeepsPane DEF ContentKey
    <2>2. TreeInv'
      BY <1>1, <1>8, MarksKeepTree DEF ContentKey
    <2> QED
      BY <1>1, <1>8, <2>1, <2>2 DEF ContentKey, FocusInv, SplitViewInv
  <1>9. CASE EndOfBatch
    <2>1. PaneInv'
      BY <1>1, <1>9, StillKeepsPane DEF EndOfBatch, EndInput, PaneInv, PaneTyped, PaneTypeInv
    <2>2. TreeInv'
      BY <1>1, <1>9, MarksKeepTree DEF EndOfBatch, Input
    <2> QED
      BY <1>1, <1>9, <2>1, <2>2 DEF EndOfBatch, FocusInv, SplitViewInv
  <1>10. CASE FinishKey
    <2>1. TreeInv'
      BY <1>1, <1>10, MoveEndsKeepsTree, RowKeyKeepsTree, RebuildEndsKeepsTree DEF FinishKey
    <2> QED
      BY <1>1, <1>10, <2>1, PaneAlone DEF FinishKey, FocusInv, SplitViewInv
  <1>11. CASE SaveRaises
    BY <1>1, <1>11, SaveRaisesKeepsTree, PaneAlone DEF SaveRaises, FocusInv, SplitViewInv
  <1> QED
    BY <1>2, <1>3, <1>4, <1>5, <1>6, <1>7, <1>8, <1>9, <1>10, <1>11 DEF ProcessInput

LEMMA DrawingKeepsInv ==
  ASSUME SplitViewInv, StartTree \/ FinishTree \/ DrawContent
  PROVE  SplitViewInv'
  <1>1. TreeInv /\ PaneInv /\ FocusInv
    BY DEF SplitViewInv
  <1>2. CASE StartTree
    <2>1. phase' \in {"input", "tree", "content"}
      BY <1>1, <1>2 DEF StartTree, FocusInv
    <2> QED
      BY <1>1, <1>2, <2>1, StartTreeKeepsTree, PaneAlone DEF StartTree, FocusInv, SplitViewInv
  <1>3. CASE FinishTree
    BY <1>1, <1>3, FinishTreeKeepsTree, PaneAlone DEF FinishTree, FocusInv, SplitViewInv
  <1>4. CASE DrawContent
    <2>1. PaneInv'
      <3>1. CASE RefreshRedraws
        <4>1. runner' \in {"idle", "redraw", "finished"}
          BY <1>1, <3>1 DEF RefreshRedraws, PaneInv, PaneTyped, PaneTypeInv
        <4> QED
          BY <1>1, <3>1, <4>1, RedrawKeepsPane DEF RefreshRedraws
      <3> QED
        BY <1>1, <1>4, <3>1, PaneAlone DEF DrawContent
    <2>2. pending = None
      BY <1>1, <1>4 DEF DrawContent, TreeInv, TreeTypeInv, PendingInv, Pendings
    <2>3. TreeInv'
      BY <1>1, <1>4, <2>2, MarksKeepTree DEF DrawContent
    <2> QED
      BY <1>1, <1>4, <2>1, <2>3 DEF DrawContent, FocusInv, SplitViewInv
  <1> QED
    BY <1>2, <1>3, <1>4

LEMMA MainKeepsInv == ASSUME SplitViewInv, Main PROVE SplitViewInv'
  <1>1. TreeInv /\ PaneInv /\ FocusInv
    BY DEF SplitViewInv
  <1>2. CASE AddTestItems
    <2>1. FocusInv'
      BY <1>1, <1>2 DEF AddTestItems, FocusInv
    <2> QED
      BY <1>1, <1>2, <2>1, AddTestItemsKeepsTree, PaneAlone DEF AddTestItems, SplitViewInv
  <1>3. CASE SetTestOutput
    <2>1. PICK l \in LeafNodes : AddOutput({v \in Views : l \in v}, OutLines[l])
      BY <1>3 DEF SetTestOutput
    <2>2. OutLines[l] \in Nat
      BY SplitAssumption
    <2>3. PaneInv'
      BY <1>1, <2>1, <2>2, AddOutputKeepsPane
    <2> QED
      BY <1>1, <1>3, <2>3, TestDoneKeepsTree DEF SetTestOutput, FocusInv, SplitViewInv
  <1>4. CASE Report
    <2>1. CASE AddContent
      BY <1>1, <1>4, <2>1, AddContentKeepsPane, MarksKeepTree
      DEF Report, FocusInv, SplitViewInv
    <2>2. CASE RunnerRedraws(overlay # None)
      <3>1. PaneInv'
        <4>1. CASE overlay # None
          <5>1. /\ runner' = "idle" /\ dirty' = TRUE /\ changed' = changed
                /\ UNCHANGED <<active, nlines, user_scroll, search, status, rows, rendered, seen>>
            BY <2>2, <4>1 DEF RunnerRedraws, pane
          <5>2. PaneTyped'
            BY <1>1, <5>1 DEF PaneInv, PaneTyped, PaneTypeInv, PaneTypes, HasMatches
          <5>3. total' = total /\ ~Drawn'
            BY <5>1 DEF total, Drawn
          <5>4. CacheInv' /\ RowsRight' /\ JumpInv' /\ MatchVisible'
            BY <1>1, <5>1, <5>3, CacheKept, MatchKept DEF PaneInv, RowsRight
          <5> QED
            BY <5>2, <5>4 DEF PaneInv
        <4>2. CASE overlay = None
          <5>1. runner' \in {"idle", "redraw", "finished"} /\ dirty' \in BOOLEAN
                /\ UNCHANGED <<pane, changed>> /\ RedrawBuffer(user_scroll, runner_status, None)
            BY <1>1, <2>2, <4>2 DEF RunnerRedraws, PaneInv, PaneTyped, PaneTypeInv
          <5> QED
            BY <1>1, <5>1, RedrawKeepsPane
        <4> QED
          BY <4>1, <4>2
      <3> QED
        BY <1>1, <1>4, <3>1, MarksKeepTree DEF Report, FocusInv, SplitViewInv
    <2> QED
      BY <1>4, <2>1, <2>2 DEF Report
  <1>5. CASE Complete
    BY <1>1, <1>5, TestsCompleteKeepsPane, MarksKeepTree DEF Complete, FocusInv, SplitViewInv
  <1> QED
    BY <1>2, <1>3, <1>4, <1>5 DEF Main

LEMMA StutterKeepsInv == ASSUME SplitViewInv, UNCHANGED vars PROVE SplitViewInv'
  BY PaneAlone, MarksKeepTree DEF vars, FocusInv, SplitViewInv

LEMMA SplitViewInvariant == Spec => []SplitViewInv
  <1>1. SplitViewInv /\ [Next]_vars => SplitViewInv'
    BY InputKeepsInv, DrawingKeepsInv, MainKeepsInv, StutterKeepsInv DEF Next, Refresh
  <1> QED
    BY <1>1, StartsRight, PTL DEF Spec

-----------------------------------------------------------------------------
(* What follows from the invariant.                                        *)

(* The variables of the tree, the pane and the routing keep their types:   *)
(* the cursor and the offsets never become negative, a match that is the   *)
(* current one exists, and only nodes that were inserted are rows.         *)
THEOREM SplitTypeCorrect == Spec => []TypeInv
  <1>1. SplitViewInv => TypeInv
    BY DEF SplitViewInv, TreeInv, PaneInv, PaneTyped, FocusInv, TypeInv
  <1> QED
    BY <1>1, SplitViewInvariant, PTL

(* Whatever is folded, filtered, inserted or finished: the cursor is on a  *)
(* row inside the window once no rebuild is under way, and a missing row   *)
(* ends the refresh thread only if outcomes are hidden and main took rows  *)
(* away while it was using them.                                           *)
THEOREM CursorStaysOnRow == Spec => []CursorOnRow
  <1>1. SplitViewInv => CursorOnRow
    BY DEF SplitViewInv, TreeInv
  <1> QED
    BY <1>1, SplitViewInvariant, PTL

(* After a jump the match is in the viewport, whatever the height of the   *)
(* terminal, the number of lines and the numbers of those that match.      *)
THEOREM JumpsShowMatch == Spec => []MatchVisible
  <1>1. SplitViewInv => MatchVisible
    BY DEF SplitViewInv, PaneInv
  <1> QED
    BY <1>1, SplitViewInvariant, PTL

(* When nothing is left to draw both panes show what they should: neither  *)
(* the cache of rows nor a mark set beside a drawing leaves a stale row.   *)
THEOREM PanesFinallyRight == Spec => []PanesRight
  <1>1. SplitViewInv => PanesRight
    BY DEF SplitViewInv, TreeInv, TreePainted, PaneInv, PanesRight
  <1> QED
    BY <1>1, SplitViewInvariant, PTL
=============================================================================

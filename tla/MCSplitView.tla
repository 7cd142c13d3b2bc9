---------------------------- MODULE MCSplitView ----------------------------
(* Instance of SplitView: a module pk with a class cl (its test ta) and    *)
(* the tests tb and tc, two groups, queries of one and two characters.     *)
EXTENDS SplitView

CONSTANTS pk, cl, ta, tb, tc

MCOrder == <<pk, cl, ta, tb, tc>>
MCParent == [x \in {pk, cl, ta, tb, tc} |-> IF x = pk THEN None ELSE IF x = ta THEN cl ELSE pk]
MCMatch == << {cl, ta, tb}, {ta} >>
MCGroups == << {ta, tb}, {tc} >>
MCOutLines == [x \in {ta, tb, tc} |-> IF x = ta THEN 3 ELSE IF x = tb THEN 2 ELSE 0]
MCHits == [v \in SUBSET {ta, tb, tc} |-> IF v = {} THEN {0, 3} ELSE {0, 2, 4}]

MCViews == SUBSET {ta, tb, tc}
MCSummary == {}

(* A run explores the one pane or the other, the shared events in both.    *)
VARIABLE explored

MCInit == Init /\ explored \in {"tree", "content"}
MCSpec == MCInit /\ [][Next /\ UNCHANGED explored]_<<vars, explored>>

PaneUntouched ==
  /\ ~search.typing /\ user_scroll = None /\ status = "none" /\ runner = "idle"
  /\ nlines[{}] = HeaderLines

TreeUntouched ==
  /\ ~tree_dirty /\ ~tree_changed /\ pending = None
  /\ \/ overlay = None /\ (tree = {} \/ runner = "finished")
     \/ /\ overlay # None /\ painted /\ focus = "content"
        /\ outcome[ta] # "" /\ (outcome[tb] = "" \/ runner = "finished")
        /\ overlay.query = 0 /\ overlay.cursor = 1

ExploredPane ==
  /\ explored = "tree" =>
       /\ PaneUntouched /\ search = NoSearch /\ active = {} /\ (focus = "overlay" \/ overlay = None)
       /\ outcome[tb] # "failed" /\ outcome[tc] = ""
       /\ overlay # None => (overlay.blind => overlay.query = 0)
  /\ explored = "content" =>
       /\ PaneUntouched \/ TreeUntouched
       /\ expanded = {pk, cl, ta, tb, tc} /\ \A l \in {ta, tb, tc} : outcome[l] # "failed"
       /\ outcome[ta] = "" => outcome[tb] = ""
       /\ overlay # None => /\ overlay.hide = {} /\ overlay.query = 0 /\ ~overlay.blind
                            /\ overlay.cursor \in {0, 1}
=============================================================================

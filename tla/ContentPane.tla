---------------------------- MODULE ContentPane ----------------------------
(***************************************************************************)
(* The content pane: ViewManager's scroll offset, search and status text,  *)
(* and Display.redraw_buffer with its cache of the rows that are drawn.    *)
(* The refresh thread handles keys and draws what they marked dirty; the   *)
(* runner changes lines, marks the content and then draws it as well, but  *)
(* without the search bar and the highlighting.                            *)
(*                                                                         *)
(* A line is its view and its number; a query is empty or one that some    *)
(* lines match.  The hint line is always there.  The left offset, part of  *)
(* every key of the cache, is left out: it changes when the cache is       *)
(* cleared.                                                                *)
(***************************************************************************)
EXTENDS Terminal, Sequences

CONSTANTS Views,        \* the summary and the others
          Summary,
          Hits,         \* [Views -> the numbers of the lines that match]
          HeaderLines,  \* lines of the summary when the view is entered
          MaxLines      \* how far the summary grows

ASSUME PaneAssumption ==
  /\ Summary \in Views /\ {HeaderLines, MaxLines} \subseteq Nat
  /\ \A v \in Views : Hits[v] \subseteq Nat

VARIABLES active,       \* the view
          nlines,       \* [Views -> how many lines its buffer has]
          user_scroll,  \* _user_scroll: an offset, or None to stay at the end
          search,       \* _content_search and the state of the search
          status,       \* the status line: "none", "saved", "complete"
          runner,       \* the runner: "idle", "redraw", "finished"
          dirty,        \* the content is marked dirty
          changed,      \* content_changed of _process_input
          rows,         \* what is on each row of the terminal
          rendered,     \* _rendered: what each key of the cache says is there
          seen          \* what happened since the cache was cleared

pane == <<active, nlines, user_scroll, search, status>>
cvars == <<pane, runner, dirty, changed, rows, rendered, seen>>

total == nlines[active]

Max0(n) == IF n < 0 THEN 0 ELSE n
Least(m, n) == IF m < n THEN m ELSE n

(* _viewport_height counts the text of the status line, not the search bar *)
(* that may stand in its place.                                            *)
viewport_height == Height - 1 - (IF status = "none" THEN 0 ELSE 1)

NoSearch == [typing |-> FALSE, text |-> FALSE, matches |-> <<>>, idx |-> 0]

HasMatches == search.matches # <<>>

match_line == search.matches[search.idx]

(* _effective_status and the text of the status line alone.                *)
effective_status == IF search.typing THEN <<"bar", search.text>>
                    ELSE IF HasMatches THEN <<"match", search.idx>> ELSE <<status>>
runner_status == <<status>>

-----------------------------------------------------------------------------
(* Display.redraw_buffer.                                                  *)

viewport(bar) == Height - 1 - (IF bar = <<"none">> THEN 0 ELSE 1)

scroll_offset(scroll, vp) ==
  IF scroll = None THEN Max0(total - vp) ELSE Least(scroll, Max0(total - vp))

(* Mutant: the key does not say which match is the current one.            *)
cache_key_any(offset, r, hl) == <<offset, hl # None, IF r < total THEN <<active, offset + r>> ELSE <<>> >>

cache_key(offset, r, hl) ==
  IF offset + r < total THEN <<offset, hl, <<active, offset + r>> >> ELSE <<offset>>

(* What a row shows: a line, highlighted when it matches the query.        *)
Line(n, hl) ==
  IF n >= total THEN <<>>
  ELSE <<active, n, IF hl = None \/ n \notin Hits[active] THEN "plain"
                    ELSE IF n = hl THEN "current" ELSE "match">>

(* The rows as they should be.                                             *)
Wanted(scroll, bar, hl) ==
  LET vp == viewport(bar)
      offset == scroll_offset(scroll, vp)
  IN  [r \in 0 .. Height - 1 |-> IF r < vp THEN Line(offset + r, hl)
                                 ELSE IF r < Height - 1 THEN bar ELSE <<"hint">>]

(* The cache is keyed by the row for lines, by the row + 1 for the bars.   *)
RedrawBuffer(scroll, bar, hl) ==
  LET vp == viewport(bar)
      offset == scroll_offset(scroll, vp)
      key == [k \in 0 .. Height |->
                IF k < vp THEN cache_key(offset, k, hl)
                ELSE IF k = Height THEN <<"hint">>
                ELSE IF k = vp + 1 THEN bar ELSE rendered[k]]
      index(r) == IF r < vp THEN r ELSE r + 1
      wanted == Wanted(scroll, bar, hl)
  IN  /\ rendered' = key
      /\ rows' = [r \in 0 .. Height - 1 |->
                    IF rendered[index(r)] = key[index(r)] THEN rows[r] ELSE wanted[r]]
      /\ seen' = [seen EXCEPT !.bars = @ \cup {bar = <<"none">>}, !.dropped = FALSE,
                              !.plain = hl = None /\ bar = runner_status]

highlight_line == IF HasMatches THEN match_line ELSE None

RefreshRedraws ==
  /\ dirty /\ dirty' = FALSE
  /\ RedrawBuffer(user_scroll, effective_status, highlight_line)
  /\ UNCHANGED <<pane, runner, changed>>

-----------------------------------------------------------------------------
(* Keys, see _apply_content_key; the refresh thread draws after a batch.   *)
(* A query without a match is forgotten: nothing uses it any more.         *)

Jumps(j) == seen' = [seen EXCEPT !.jumped = j]

(* _scroll_to_line                                                         *)
(* Mutant: the line is put behind the last row.                            *)
scroll_behind(line) ==
  IF total <= viewport_height \/ line - viewport_height >= total - viewport_height THEN None
  ELSE Max0(line - viewport_height)

scroll_to_line(line) ==
  LET max_off == total - viewport_height
      target == Least(Max0(line - viewport_height \div 2), max_off)
  IN  IF total <= viewport_height \/ target = max_off THEN None ELSE target

SearchKey ==
  /\ search.typing
  /\ \/ search' = NoSearch /\ Jumps(FALSE) /\ UNCHANGED user_scroll            \* Escape
     \/ \E text \in BOOLEAN : search' = [search EXCEPT !.text = text]           \* a character
                              /\ Jumps(FALSE) /\ UNCHANGED user_scroll
     \/ LET hits == IF search.text THEN {n \in Hits[active] : n < total} ELSE {} \* Enter
        IN  IF hits = {} THEN search' = NoSearch /\ Jumps(FALSE) /\ UNCHANGED user_scroll
            ELSE /\ search' = [search EXCEPT !.typing = FALSE, !.idx = 1,
                                             !.matches = Ascending(hits)]
                 /\ user_scroll' = scroll_to_line(match_line')
                 /\ Jumps(TRUE)
  /\ changed' = TRUE
  /\ UNCHANGED <<active, nlines, status>>

StartSearch ==
  /\ ~search.typing
  /\ search' = [NoSearch EXCEPT !.typing = TRUE]
  /\ changed' = TRUE /\ Jumps(FALSE)
  /\ UNCHANGED <<active, nlines, user_scroll, status>>

ClearSearch ==
  /\ ~search.typing /\ HasMatches
  /\ search' = NoSearch
  /\ changed' = TRUE /\ Jumps(FALSE)
  /\ UNCHANGED <<active, nlines, user_scroll, status>>

(* n and N                                                                 *)
JumpMatch ==
  /\ ~search.typing /\ HasMatches
  /\ \E step \in {1, -1} :
       search' = [search EXCEPT !.idx = ((@ - 1 + step) % Len(search.matches)) + 1]
  /\ user_scroll' = scroll_to_line(search.matches[search'.idx])
  /\ changed' = TRUE /\ Jumps(TRUE)
  /\ UNCHANGED <<active, nlines, status>>

(* Ctrl+W: the status line says where the file is, or why it could not be  *)
(* written.  SaveRaises of SplitView is what the try does not cover.       *)
SaveBuffer ==
  /\ ~search.typing
  /\ status' = "saved"
  /\ changed' = TRUE /\ Jumps(FALSE)
  /\ UNCHANGED <<active, nlines, user_scroll, search>>

(* _apply_content_scroll                                                   *)
(* Mutant: nothing stops the offset at the first line.                     *)
ScrolledPast(delta) ==
  LET max_off == total - viewport_height
      from == IF user_scroll = None THEN max_off ELSE user_scroll
      to == Least(from + delta, max_off)
  IN  IF to >= max_off THEN None ELSE to

Scrolled(delta) ==
  LET max_off == total - viewport_height
      from == IF user_scroll = None THEN max_off ELSE user_scroll
      to == Least(Max0(from + delta), max_off)
  IN  IF to >= max_off THEN None ELSE to

Scrolls == total > viewport_height

ScrollKey ==
  /\ ~search.typing /\ Scrolls
  /\ user_scroll' \in {Scrolled(d) : d \in {1, -1, viewport_height, -viewport_height}} \cup {0, None}
  /\ changed' = TRUE /\ Jumps(FALSE)
  /\ UNCHANGED <<active, nlines, search, status>>

(* The wheel assigns content_changed where the keys add to it.             *)
Wheel ==
  /\ user_scroll' \in IF Scrolls THEN {Scrolled(3), Scrolled(-3)} ELSE {user_scroll}
  /\ changed' = Scrolls
  /\ seen' = [seen EXCEPT !.jumped = FALSE, !.dropped = @ \/ (changed /\ ~Scrolls)]
  /\ UNCHANGED <<active, nlines, search, status>>

PaneKey ==
  /\ SearchKey \/ StartSearch \/ ClearSearch \/ JumpMatch \/ SaveBuffer \/ ScrollKey
  /\ dirty' = (dirty \/ status' # status)
  /\ UNCHANGED <<runner, rows, rendered>>

PaneWheel == Wheel /\ UNCHANGED <<runner, dirty, rows, rendered>>

EndInput ==
  /\ dirty' = (dirty \/ changed) /\ changed' = FALSE
  /\ UNCHANGED <<pane, runner, rows, rendered, seen>>

(* Another view, or the tree was opened or closed: the cache is cleared,   *)
(* see SplitView.                                                          *)
ClearCache ==
  /\ rendered' = [k \in 0 .. Height |-> <<>>]
  /\ dirty' = TRUE
  /\ seen' = [bars |-> {}, jumped |-> FALSE, dropped |-> FALSE, plain |-> FALSE]

ShowView(v) ==
  /\ active' = v /\ user_scroll' = None
  /\ ClearCache
  /\ UNCHANGED <<nlines, search, status, runner, rows>>

-----------------------------------------------------------------------------
(* The runner.                                                             *)

(* add_content, or allocate_lines and set_line, which redraws afterwards.  *)
AddContent ==
  /\ runner = "idle" /\ runner' \in {"idle", "redraw"}
  /\ nlines' \in {nlines, [nlines EXCEPT ![Summary] = @ + 1]}
  /\ nlines'[Summary] <= MaxLines
  /\ dirty' = TRUE
  /\ Jumps(FALSE)
  /\ UNCHANGED <<active, user_scroll, search, status, changed, rows, rendered>>

(* set_test_output: the views that contain the test get its lines.         *)
AddOutput(views, n) ==
  /\ runner = "idle"
  /\ nlines' = [v \in Views |-> IF v \in views THEN nlines[v] + n ELSE nlines[v]]
  /\ dirty' = (dirty \/ active \in views)
  /\ Jumps(FALSE)
  /\ UNCHANGED <<active, user_scroll, search, status, runner, changed, rows, rendered>>

(* redraw(): beside the tree it leaves the drawing to the refresh thread.  *)
RunnerRedraws(beside) ==
  /\ runner = "redraw" /\ runner' = "idle"
  /\ IF beside THEN dirty' = TRUE /\ UNCHANGED <<rows, rendered, seen>>
     ELSE RedrawBuffer(user_scroll, runner_status, None) /\ UNCHANGED dirty
  /\ UNCHANGED <<pane, changed>>

(* wait_and_leave                                                          *)
TestsComplete ==
  /\ runner = "idle" /\ runner' = "finished"
  /\ status' = "complete"
  /\ dirty' = TRUE
  /\ Jumps(FALSE)
  /\ UNCHANGED <<active, nlines, user_scroll, search, changed, rows, rendered>>

PaneInit ==
  /\ active = Summary /\ nlines = [v \in Views |-> IF v = Summary THEN HeaderLines ELSE 0]
  /\ user_scroll = None /\ search = NoSearch /\ status = "none"
  /\ runner = "idle" /\ dirty = TRUE /\ changed = FALSE
  /\ rows = [r \in 0 .. Height - 1 |-> <<>>]
  /\ rendered = [k \in 0 .. Height |-> <<>>]
  /\ seen = [bars |-> {}, jumped |-> FALSE, dropped |-> FALSE, plain |-> FALSE]

-----------------------------------------------------------------------------
(* Properties.                                                             *)

(* Types of the variables.                                                 *)
PaneTypeInv ==
  /\ active \in Views /\ nlines \in [Views -> Nat]
  /\ user_scroll = None \/ user_scroll \in Nat
  /\ search.idx \in (IF HasMatches THEN DOMAIN search.matches ELSE {0})
  /\ status \in {"none", "saved", "complete"}
  /\ runner \in {"idle", "redraw", "finished"}
  /\ {dirty, changed} \subseteq BOOLEAN
  /\ DOMAIN rows = 0 .. Height - 1 /\ DOMAIN rendered = 0 .. Height

Drawn == ~dirty /\ ~changed /\ ~seen.dropped

Intended ==
  IF seen.plain THEN Wanted(user_scroll, runner_status, None)
                ELSE Wanted(user_scroll, effective_status, highlight_line)

(* When nothing is left to draw every row shows what it should, those that *)
(* the cache skipped included: the lines of the view at the offset with    *)
(* the matches highlighted, or plain when the runner drew them.  Only the  *)
(* row of the bar may be wrong, once a bar came or went (redraw_buffer).   *)
RowsRight ==
  Drawn => \A r \in DOMAIN rows :
             rows[r] = Intended[r] \/ (r = Height - 2 /\ Cardinality(seen.bars) = 2)

(* "When status_text / hint_text are provided they are rendered on the     *)
(* bottom rows": also after bars have come and gone.                       *)
RowsAlwaysRight == Drawn => rows = Intended

(* "Scroll the content pane so the given line is visible": after a jump to *)
(* a match the line is in the viewport, except the first line of a buffer  *)
(* that only just fits without the search bar.                             *)
Visible(n) ==
  LET vp == viewport(effective_status)
      offset == scroll_offset(user_scroll, vp)
  IN  offset <= n /\ n < offset + vp

MatchVisible ==
  seen.jumped /\ match_line < total =>
    Visible(match_line) \/ (status = "none" /\ total = viewport_height /\ match_line = 0)

(* The same without the exception.                                         *)
MatchAlwaysVisible == seen.jumped => Visible(match_line)

(* The highlighting and the search bar are there when nothing is left to   *)
(* draw.                                                                   *)
HighlightStays == Drawn /\ HasMatches => ~seen.plain

(* The matches are lines of the view that is shown.                        *)
MatchesOfView == \A k \in DOMAIN search.matches : search.matches[k] \in Hits[active]
=============================================================================

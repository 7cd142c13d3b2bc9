---------------------------- MODULE LiveReporter ----------------------------
(***************************************************************************)
(* _LiveReporter: worker threads and the main thread report how far the    *)
(* items of a group are, each call under one lock.  On a terminal ("live") *)
(* it prints one line per file and a progress line below them, and later   *)
(* rewrites lines with relative cursor movements.  Without a terminal      *)
(* ("dumb") it prints the line of a file when all its tests are done.  In  *)
(* passive and TeamCity mode ("quiet") it only keeps the states.           *)
(*                                                                         *)
(* A line is the file and the states of its items; paths, colours, widths  *)
(* and truncation are left out.                                            *)
(***************************************************************************)
EXTENDS Integers, Sequences, FiniteSets, SequencesExt

CONSTANTS Items,
          file_order,   \* _file_order: the files, in collection order
          file,         \* [Items -> files]
          workers,      \* how many tests are in the workers at most
          Modes,        \* what kinds of output there may be
          Height,       \* rows of the terminal
          Outcomes      \* what may come out of a test, see below

(* What a worker shows when the call returned ("none" if it was never      *)
(* made) and what the report of the item shows in the end: a skip or an    *)
(* xfail raises in the call like a failure, a strict xpass does not.       *)
AllOutcomes == [call : {".", "F", "none"}, report : {".", "F", "E", "s", "x", "X"}]

Letters == {".", "F", "E", "s", "x", "X"}

ASSUME LiveAssumption ==
  /\ IsFiniteSet(Items) /\ Items # {}
  /\ file_order \in Seq(Range(file_order)) /\ IsInjective(file_order)
  /\ file \in [Items -> Range(file_order)]
  /\ \A f \in Range(file_order) : \E i \in Items : file[i] = f
  /\ workers \in Nat \ {0} /\ Height \in Nat \ {0}
  /\ Modes \subseteq {"live", "dumb", "quiet"} /\ Modes # {}
  /\ Outcomes \subseteq AllOutcomes /\ Outcomes # {}

VARIABLES mode,         \* _live and _passive, decided by __init__
          item_state,   \* [Items -> <<state, letter>>]
          reported,     \* _reported, the numerator of the progress
          term,         \* the terminal: its rows and the row of the cursor
          printed,      \* the lines of dumb mode: [file, line, progress]
          mpc,          \* the main thread: "pre_print", "run", "finished"
          next_line,    \* how many lines pre_print has written
          stage,        \* where the group has each item
          outcome       \* what came out of it

vars == <<mode, item_state, reported, term, printed, mpc, next_line, stage,
          outcome>>

total == Cardinality(Items)

Line(f, st) == [i \in {j \in Items : file[j] = f} |-> st[i]]

Progress(n) == <<"progress", n>>

-----------------------------------------------------------------------------
(* The terminal: "\n" scrolls on the last row, "\r\033[K" with a text      *)
(* replaces the row of the cursor, which moves no further than the edges.  *)

Blank == <<>>

NewLine(t) ==
  IF t.row < Height
  THEN [t EXCEPT !.row = @ + 1]
  ELSE [t EXCEPT !.rows = [r \in 1 .. Height |-> IF r < Height THEN @[r + 1] ELSE Blank]]

Put(t, what) == [t EXCEPT !.rows[t.row] = what]

Up(t, n) == [t EXCEPT !.row = IF @ > n THEN @ - n ELSE 1]

Down(t, n) == [t EXCEPT !.row = IF @ + n < Height THEN @ + n ELSE Height]

-----------------------------------------------------------------------------
(* _update_file_line and _maybe_flush_file, with the new states and count. *)

(* Mutant: counted from the last file instead of from the progress line.   *)
LinesUpFromLast(f) == Len(file_order) - CHOOSE k \in DOMAIN file_order : file_order[k] = f

lines_up(f) == Len(file_order) - (CHOOSE k \in DOMAIN file_order : file_order[k] = f) + 1

UpdateFileLine(f, st, n) ==
  LET there == Put(Up(term, lines_up(f)), <<f, Line(f, st)>>)
  IN  term' = Put(Down(there, lines_up(f)), Progress(n))

MaybeFlushFile(f, st, n) ==
  IF \A i \in Items : file[i] = f => st[i][1] = "done"
  THEN printed' = Append(printed, [file |-> f, line |-> Line(f, st), progress |-> n])
  ELSE printed' = printed

Display(i, st, n) ==
  CASE mode = "live" -> UpdateFileLine(file[i], st, n) /\ UNCHANGED printed
    [] mode = "dumb" -> MaybeFlushFile(file[i], st, n) /\ UNCHANGED term
    [] mode = "quiet" -> UNCHANGED <<term, printed>>

Init ==
  /\ mode \in Modes
  /\ item_state = [i \in Items |-> <<"scheduled", ".">>]
  /\ reported = 0
  /\ \E r \in 1 .. Height : term = [row |-> r, rows |-> [k \in 1 .. Height |-> Blank]]
  /\ printed = <<>>
  /\ mpc = "pre_print" /\ next_line = 0
  /\ stage = [i \in Items |-> "queued"]
  /\ outcome = [i \in Items |-> CHOOSE o \in Outcomes : TRUE]

(* pre_print, a line at a time, the progress line at last.                 *)
PrePrint ==
  /\ mpc = "pre_print" /\ mode = "live"
  /\ next_line <= Len(file_order)
  /\ LET text == IF next_line = 0 THEN term
                 ELSE LET f == file_order[next_line]
                      IN  Put(term, <<f, Line(f, item_state)>>)
     IN  term' = NewLine(text)
  /\ next_line' = next_line + 1
  /\ UNCHANGED <<mode, item_state, reported, printed, mpc, stage, outcome>>

PrePrintDone ==
  /\ mpc = "pre_print"
  /\ mode = "live" => next_line > Len(file_order)
  /\ term' = IF mode = "live" THEN Put(term, Progress(reported)) ELSE term
  /\ mpc' = "run"
  /\ UNCHANGED <<mode, item_state, reported, printed, next_line, stage, outcome>>

-----------------------------------------------------------------------------
(* A worker: mark_running, the call, mark_call_done; or a setup that fails *)
(* and no call.  The result is queued after that.                          *)

InWorkers == {i \in Items : stage[i] \in {"running", "called"}}

MarkRunning(i) ==
  /\ mpc = "run"
  /\ stage[i] = "queued" /\ Cardinality(InWorkers) < workers
  /\ \E o \in {p \in Outcomes : p.call # "none"} : outcome' = [outcome EXCEPT ![i] = o]
  /\ item_state' = [item_state EXCEPT ![i] = <<"running", "*">>]
  /\ IF mode = "live" THEN UpdateFileLine(file[i], item_state', reported)
                      ELSE UNCHANGED term
  /\ stage' = [stage EXCEPT ![i] = "running"]
  /\ UNCHANGED <<mode, reported, printed, mpc, next_line>>

(* Mutant: the test is counted by main only.                               *)
MarkCallDoneUncounted(i) ==
  /\ stage[i] = "running"
  /\ item_state' = [item_state EXCEPT ![i] = <<"done", outcome[i].call>>]
  /\ reported' = reported
  /\ Display(i, item_state', reported')
  /\ stage' = [stage EXCEPT ![i] = "called"]
  /\ UNCHANGED <<mode, mpc, next_line, outcome>>

MarkCallDone(i) ==
  /\ stage[i] = "running"
  /\ item_state' = [item_state EXCEPT ![i] = <<"done", outcome[i].call>>]
  /\ reported' = reported + 1
  /\ Display(i, item_state', reported')
  /\ stage' = [stage EXCEPT ![i] = "called"]
  /\ UNCHANGED <<mode, mpc, next_line, outcome>>

QueueResult(i) ==
  /\ stage[i] = "called"
  /\ stage' = [stage EXCEPT ![i] = "result"]
  /\ UNCHANGED <<mode, item_state, reported, term, printed, mpc, next_line, outcome>>

(* The setup failed, or phase 1 skipped the item.                          *)
NoCall(i) ==
  /\ mpc = "run" /\ stage[i] = "queued"
  /\ \E o \in {p \in Outcomes : p.call = "none"} : outcome' = [outcome EXCEPT ![i] = o]
  /\ stage' = [stage EXCEPT ![i] = "result"]
  /\ UNCHANGED <<mode, item_state, reported, term, printed, mpc, next_line>>

Worker(i) == MarkRunning(i) \/ MarkCallDone(i) \/ QueueResult(i) \/ NoCall(i)

-----------------------------------------------------------------------------
(* The main thread: mark_done with the letter of the report, and finish.   *)

(* Mutant: what the worker has shown is not corrected.                     *)
AlreadyDone(i) == item_state[i][1] = "done"

AlreadyShown(i) == item_state[i] = <<"done", outcome[i].report>>

(* Mutant: the item is counted by its worker and again by main.            *)
MarkDoneAgain(i) ==
  /\ mpc = "run" /\ stage[i] = "result"
  /\ stage' = [stage EXCEPT ![i] = "reported"]
  /\ IF AlreadyShown(i)
     THEN UNCHANGED <<item_state, reported, term, printed>>
     ELSE /\ reported' = reported + 1
          /\ item_state' = [item_state EXCEPT ![i] = <<"done", outcome[i].report>>]
          /\ Display(i, item_state', reported')
  /\ UNCHANGED <<mode, mpc, next_line, outcome>>

MarkDone(i) ==
  /\ mpc = "run" /\ stage[i] = "result"
  /\ stage' = [stage EXCEPT ![i] = "reported"]
  /\ IF AlreadyShown(i)
     THEN UNCHANGED <<item_state, reported, term, printed>>
     ELSE /\ reported' = IF item_state[i][1] = "done" THEN reported ELSE reported + 1
          /\ item_state' = [item_state EXCEPT ![i] = <<"done", outcome[i].report>>]
          /\ Display(i, item_state', reported')
  /\ UNCHANGED <<mode, mpc, next_line, outcome>>

Finish ==
  /\ mpc = "run" /\ \A i \in Items : stage[i] = "reported"
  /\ term' = IF mode = "live" THEN Up(NewLine(term), 1) ELSE term
  /\ mpc' = "finished"
  /\ UNCHANGED <<mode, item_state, reported, printed, next_line, stage, outcome>>

Terminated == mpc = "finished" /\ UNCHANGED vars

Next == \/ PrePrint \/ PrePrintDone
        \/ \E i \in Items : Worker(i) \/ MarkDone(i)
        \/ Finish \/ Terminated

Spec == Init /\ [][Next]_vars

-----------------------------------------------------------------------------
(* Properties.                                                             *)

Content == {Blank} \cup {Progress(n) : n \in 0 .. total}
             \cup {<<f, l>> : f \in Range(file_order), l \in UNION {
                    [S -> {"scheduled", "running", "done"} \X (Letters \cup {"*"})]
                    : S \in {{i \in Items : file[i] = g} : g \in Range(file_order)}}}

(* The cursor stays on the terminal and every row holds a line.            *)
TypeInv ==
  /\ mode \in Modes
  /\ item_state \in [Items -> {"scheduled", "running", "done"} \X (Letters \cup {"*"})]
  /\ reported \in 0 .. total
  /\ term.row \in 1 .. Height /\ \A r \in 1 .. Height : term.rows[r] \in Content
  /\ mpc \in {"pre_print", "run", "finished"}
  /\ next_line \in 0 .. Len(file_order) + 1
  /\ stage \in [Items -> {"queued", "running", "called", "result", "reported"}]
  /\ outcome \in [Items -> Outcomes]

(* Each item is counted once, whether its worker, main, or both of them    *)
(* mark it done: the progress line never runs ahead or falls behind.       *)
CountsEachItem ==
  reported = Cardinality({i \in Items : item_state[i][1] = "done"})

(* Between two calls the terminal shows what is known: the line of each    *)
(* file with the current states of its tests, the progress line below      *)
(* them, and the cursor there, wherever the block began on the screen.     *)
ScreenIsCurrent ==
  mpc = "run" /\ mode = "live" =>
    /\ term.rows[term.row] = Progress(reported)
    /\ \A k \in DOMAIN file_order :
         term.rows[term.row - lines_up(file_order[k])] =
           <<file_order[k], Line(file_order[k], item_state)>>

FinalLine(f) == [i \in {j \in Items : file[j] = f} |-> <<"done", outcome[i].report>>]

(* In dumb mode the last line of each file has the final letters, although *)
(* workers first print a skip or an xfail as a failure; the last line of   *)
(* all says 100%.                                                          *)
LinesFinallyRight ==
  mpc = "finished" /\ mode = "dumb" =>
    /\ \A f \in Range(file_order) :
         \E k \in DOMAIN printed :
           /\ printed[k].file = f /\ printed[k].line = FinalLine(f)
           /\ \A n \in k + 1 .. Len(printed) : printed[n].file # f
    /\ Last(printed).progress = total

-----------------------------------------------------------------------------
(* What the repository says, and the code does not do: the first as soon   *)
(* as a test skips in its body, the second when the block of lines is      *)
(* taller than the terminal.                                               *)

(* "Each file appears exactly once - no duplicates."                       *)
FileLineOnce ==
  \A k, n \in DOMAIN printed : printed[k].file = printed[n].file => k = n

(* "Rewrite a single file line and progress using cursor movement": once   *)
(* the block is printed, the row of a file is not taken over by another.   *)
RewritesOwnLine ==
  [][mpc = "run" /\ mpc' = "run" =>
       \A r \in 1 .. Height : \A f \in Range(file_order) :
         term.rows[r] # Blank /\ term.rows[r][1] = f
           => term'.rows[r][1] = f]_vars
=============================================================================

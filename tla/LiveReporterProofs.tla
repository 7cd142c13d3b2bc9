-------------------------- MODULE LiveReporterProofs --------------------------
(***************************************************************************)
(* Proofs about LiveReporter, for any items, files, outcomes and number of *)
(* workers; those about the terminal need it to be taller than the block   *)
(* of file lines, which TallEnough says.                                   *)
(***************************************************************************)
EXTENDS LiveReporter, TLAPS, FiniteSetTheorems

TallEnough == Height > Len(file_order)

States == {"scheduled", "running", "done"} \X (Letters \cup {"*"})

DoneItems == {i \in Items : item_state[i][1] = "done"}

(* What the reporter knows of an item is what the group has done with it;  *)
(* a result without a call left it scheduled.                              *)
StateOf(i) ==
  CASE stage[i] = "queued"   -> <<"scheduled", ".">>
    [] stage[i] = "running"  -> <<"running", "*">>
    [] stage[i] = "called"   -> <<"done", outcome[i].call>>
    [] stage[i] = "result"   -> IF outcome[i].call = "none" THEN <<"scheduled", ".">>
                                ELSE <<"done", outcome[i].call>>
    [] stage[i] = "reported" -> <<"done", outcome[i].report>>

KnowsStages ==
  /\ \A i \in Items : item_state[i] = StateOf(i)
  /\ \A i \in Items : stage[i] \in {"running", "called"} => outcome[i].call # "none"
  /\ mpc = "pre_print" => \A i \in Items : stage[i] = "queued"
  /\ mpc = "finished" => \A i \in Items : stage[i] = "reported"

(* The block of lines above the cursor: the first n files while it is      *)
(* printed, all of them afterwards.                                        *)
Block(n) ==
  \A k \in 1 .. n - 1 :
    term.rows[term.row - (n - k)] = <<file_order[k], Line(file_order[k], item_state)>>

BlockInv ==
  mode = "live" /\ TallEnough =>
    /\ mpc = "pre_print" => term.row >= next_line /\ Block(next_line)
    /\ mpc = "run" => /\ term.row > Len(file_order) /\ Block(Len(file_order) + 1)
                      /\ term.rows[term.row] = Progress(reported)

(* The lines of dumb mode: the last line of a file whose tests are all     *)
(* done shows their states, and the last line of all the full count.       *)
AllDone(f) == \A i \in Items : file[i] = f => item_state[i][1] = "done"

LastLineOf(f) ==
  \E k \in DOMAIN printed :
    /\ printed[k].file = f /\ printed[k].line = Line(f, item_state)
    /\ \A n \in k + 1 .. Len(printed) : printed[n].file # f

PrintedInv ==
  mode = "dumb" =>
    /\ \A f \in Range(file_order) : AllDone(f) => LastLineOf(f)
    /\ reported = total => printed # <<>> /\ printed[Len(printed)].progress = total

Screens == [row : 1 .. Height, rows : [1 .. Height -> Content]]

PrintedLines == [file : Range(file_order), line : UNION {[S -> States] : S \in SUBSET Items},
                 progress : 0 .. total]

ReporterTypes == TypeInv /\ term \in Screens /\ printed \in Seq(PrintedLines)

ReporterInv == ReporterTypes /\ KnowsStages /\ CountsEachItem /\ BlockInv /\ PrintedInv

-----------------------------------------------------------------------------
(* The terminal.                                                           *)

LEMMA TotalIsNat == total \in Nat \ {0} /\ Len(file_order) \in Nat
  <1>1. total \in Nat /\ (total = 0 <=> Items = {})
    BY FS_CardinalityType, FS_EmptySet, LiveAssumption DEF total
  <1> QED BY <1>1, LiveAssumption

(* Every operation leaves the cursor on the terminal.                      *)
LEMMA ScreenOps ==
  ASSUME NEW t \in Screens, NEW c \in Content, NEW n \in Nat
  PROVE  /\ NewLine(t) \in Screens /\ Put(t, c) \in Screens
         /\ Up(t, n) \in Screens /\ Down(t, n) \in Screens
  <1>1. Height \in Nat \ {0} /\ t.row \in 1 .. Height /\ t.rows \in [1 .. Height -> Content]
    BY LiveAssumption DEF Screens
  <1>2. Blank \in Content
    BY DEF Content
  <1>3. NewLine(t) \in Screens
    <2>1. CASE t.row < Height
      BY <1>1, <2>1 DEF NewLine, Screens
    <2>2. CASE ~(t.row < Height)
      <3>1. [r \in 1 .. Height |-> IF r < Height THEN t.rows[r + 1] ELSE Blank]
              \in [1 .. Height -> Content]
        BY <1>1, <1>2
      <3> QED BY <1>1, <2>2, <3>1 DEF NewLine, Screens
    <2> QED BY <2>1, <2>2
  <1>4. Put(t, c) \in Screens
    BY <1>1 DEF Put, Screens
  <1>5. Up(t, n) \in Screens /\ Down(t, n) \in Screens
    BY <1>1 DEF Up, Down, Screens
  <1> QED BY <1>3, <1>4, <1>5

(* What is written are lines of a file and progress lines.                 *)
LEMMA WrittenIsContent ==
  ASSUME NEW f \in Range(file_order), NEW st \in [Items -> States], NEW n \in 0 .. total
  PROVE  <<f, Line(f, st)>> \in Content /\ Progress(n) \in Content
  <1> DEFINE S == {i \in Items : file[i] = f}
  <1>1. Line(f, st) \in [S -> States]
    BY DEF Line
  <1> QED BY <1>1 DEF Content, States

(* The line of the k-th file is Len(file_order) - k + 1 rows up.           *)
LEMMA LinesUp ==
  ASSUME NEW k \in DOMAIN file_order
  PROVE  /\ lines_up(file_order[k]) = Len(file_order) - k + 1
         /\ k \in 1 .. Len(file_order) /\ file_order[k] \in Range(file_order)
  <1>1. \A n \in DOMAIN file_order : file_order[n] = file_order[k] => n = k
    BY LiveAssumption DEF IsInjective
  <1>2. (CHOOSE n \in DOMAIN file_order : file_order[n] = file_order[k]) = k
    BY <1>1
  <1>3. lines_up(file_order[k]) = Len(file_order) - k + 1
    BY <1>2 DEF lines_up
  <1>4. k \in 1 .. Len(file_order) /\ file_order[k] \in Range(file_order)
    <2>1. DOMAIN file_order = 1 .. Len(file_order)
      BY LiveAssumption
    <2> QED BY <2>1 DEF Range
  <1> QED BY <1>3, <1>4

(* The line and the progress are replaced, and on a terminal that is tall  *)
(* enough nothing else is.                                                 *)
LEMMA UpdateTypes ==
  ASSUME term \in Screens, NEW f \in Range(file_order), NEW st \in [Items -> States],
         NEW n \in 0 .. total, UpdateFileLine(f, st, n)
  PROVE  term' \in Screens
  <1>1. PICK k \in DOMAIN file_order : f = file_order[k]
    BY DEF Range
  <1>2. lines_up(f) \in Nat
    BY <1>1, LinesUp, TotalIsNat
  <1>3. <<f, Line(f, st)>> \in Content /\ Progress(n) \in Content
    BY WrittenIsContent
  <1> DEFINE up == Up(term, lines_up(f))
             there == Put(up, <<f, Line(f, st)>>)
             down == Down(there, lines_up(f))
  <1>4. up \in Screens
    BY <1>2, <1>3, ScreenOps
  <1>5. there \in Screens
    BY <1>2, <1>3, <1>4, ScreenOps
  <1>6. down \in Screens
    BY <1>2, <1>3, <1>5, ScreenOps
  <1>7. term' = Put(down, Progress(n))
    BY DEF UpdateFileLine
  <1> QED BY <1>2, <1>3, <1>6, <1>7, ScreenOps

LEMMA UpdateRows ==
  ASSUME term \in Screens, TallEnough, term.row > Len(file_order),
         NEW k \in DOMAIN file_order, NEW st, NEW n, UpdateFileLine(file_order[k], st, n)
  PROVE  /\ term'.row = term.row
         /\ term'.rows[term.row] = Progress(n)
         /\ term'.rows[term.row - lines_up(file_order[k])]
              = <<file_order[k], Line(file_order[k], st)>>
         /\ \A r \in 1 .. Height :
              r \notin {term.row, term.row - lines_up(file_order[k])} =>
                term'.rows[r] = term.rows[r]
  <1> DEFINE u == lines_up(file_order[k])
             up == Up(term, u)
             line == <<file_order[k], Line(file_order[k], st)>>
             there == Put(up, line)
             down == Down(there, u)
  <1>1. /\ u = Len(file_order) - k + 1 /\ k \in 1 .. Len(file_order)
        /\ Len(file_order) \in Nat /\ Height \in Nat
        /\ term.row \in 1 .. Height
        /\ term.rows \in [1 .. Height -> Content]
    BY LinesUp, TotalIsNat, LiveAssumption DEF Screens
  <1>2. u \in 1 .. Len(file_order)
    BY <1>1
  <1> HIDE DEF u, line
  <1>3. up.row = term.row - u /\ up.rows = term.rows
    BY <1>1, <1>2 DEF Up, Screens
  <1>4. there.row = term.row - u /\ there.rows = [term.rows EXCEPT ![term.row - u] = line]
    BY <1>3 DEF Put, Up, Screens
  <1>5. down.row = term.row /\ down.rows = there.rows
    BY <1>1, <1>2, <1>4 DEF Down, Put, Up, Screens
  <1>6. term' = Put(down, Progress(n))
    BY DEF UpdateFileLine, u, line
  <1>7. term'.row = term.row
        /\ term'.rows = [there.rows EXCEPT ![term.row] = Progress(n)]
    BY <1>5, <1>6 DEF Put, Down, Up, Screens
  <1>8. /\ term.row - u \in 1 .. Height /\ term.row - u # term.row
    BY <1>1, <1>2
  <1> HIDE DEF there
  <1> QED BY <1>1, <1>4, <1>7, <1>8 DEF u, line

-----------------------------------------------------------------------------
(* Counting.                                                               *)

LEMMA DoneIsFinite ==
  /\ IsFiniteSet(DoneItems) /\ Cardinality(DoneItems) \in 0 .. total
  /\ Cardinality(DoneItems) = total => DoneItems = Items
  <1>1. DoneItems \subseteq Items /\ IsFiniteSet(Items)
    BY LiveAssumption DEF DoneItems
  <1>2. IsFiniteSet(DoneItems) /\ Cardinality(DoneItems) <= Cardinality(Items)
        /\ (Cardinality(DoneItems) = Cardinality(Items) => DoneItems = Items)
    BY <1>1, FS_Subset
  <1>3. Cardinality(DoneItems) \in Nat /\ Cardinality(Items) \in Nat
    BY <1>1, <1>2, FS_CardinalityType
  <1> QED BY <1>2, <1>3 DEF total

(* One more item is done, or as many as before. *)
LEMMA DoneChanges ==
  ASSUME item_state \in [Items -> States], NEW i \in Items, NEW st \in States,
         item_state' = [item_state EXCEPT ![i] = st]
  PROVE  /\ st[1] = "done" /\ item_state[i][1] # "done" =>
              /\ Cardinality(DoneItems') = Cardinality(DoneItems) + 1
              /\ Cardinality(DoneItems) + 1 <= total
         /\ (st[1] = "done" <=> item_state[i][1] = "done") => DoneItems' = DoneItems
  <1>1. \A j \in Items : item_state'[j] = IF j = i THEN st ELSE item_state[j]
    OBVIOUS
  <1>2. ASSUME st[1] = "done", item_state[i][1] # "done"
        PROVE  /\ Cardinality(DoneItems') = Cardinality(DoneItems) + 1
               /\ Cardinality(DoneItems) + 1 <= total
    <2>1. DoneItems' = DoneItems \cup {i} /\ i \notin DoneItems
      BY <1>1, <1>2 DEF DoneItems
    <2>2. Cardinality(DoneItems \cup {i}) = Cardinality(DoneItems) + 1
      BY <2>1, DoneIsFinite, FS_AddElement
    <2>3. Cardinality(DoneItems) # total
      BY <2>1, DoneIsFinite
    <2> QED BY <2>1, <2>2, <2>3, DoneIsFinite, TotalIsNat
  <1>3. ASSUME st[1] = "done" <=> item_state[i][1] = "done" PROVE DoneItems' = DoneItems
    BY <1>1, <1>3 DEF DoneItems
  <1> QED BY <1>2, <1>3

-----------------------------------------------------------------------------
(* The reporter knows the stages.                                          *)

LEMMA OutcomeTypes ==
  ASSUME TypeInv, NEW i \in Items
  PROVE  /\ outcome[i].report \in Letters
         /\ outcome[i].call # "none" => outcome[i].call \in Letters
         /\ \A o \in Outcomes : o.call # "none" => o.call \in Letters
  <1>1. \A o \in Outcomes : o.report \in Letters /\ (o.call # "none" => o.call \in Letters)
    BY LiveAssumption DEF AllOutcomes, Letters
  <1> QED BY <1>1 DEF TypeInv

LEMMA KnowsStagesAtStart == Init => KnowsStages
  BY DEF Init, KnowsStages, StateOf

LEMMA KnowsStagesKept == ReporterTypes /\ KnowsStages /\ [Next]_vars => KnowsStages'
  <1> SUFFICES ASSUME TypeInv, KnowsStages, [Next]_vars PROVE KnowsStages'
    BY DEF ReporterTypes
  <1>1. /\ item_state \in [Items -> States] /\ outcome \in [Items -> Outcomes]
        /\ stage \in [Items -> {"queued", "running", "called", "result", "reported"}]
    BY DEF TypeInv, States
  <1>2. CASE PrePrint \/ PrePrintDone \/ Finish \/ Terminated
    BY <1>2 DEF KnowsStages, StateOf, PrePrint, PrePrintDone, Finish, Terminated, vars
  <1>3. ASSUME NEW i \in Items, MarkRunning(i) PROVE KnowsStages'
    BY <1>1, <1>3 DEF KnowsStages, StateOf, MarkRunning
  <1>4. ASSUME NEW i \in Items, MarkCallDone(i) PROVE KnowsStages'
    BY <1>1, <1>4 DEF KnowsStages, StateOf, MarkCallDone
  <1>5. ASSUME NEW i \in Items, QueueResult(i) PROVE KnowsStages'
    BY <1>1, <1>5 DEF KnowsStages, StateOf, QueueResult
  <1>6. ASSUME NEW i \in Items, NoCall(i) PROVE KnowsStages'
    BY <1>1, <1>6 DEF KnowsStages, StateOf, NoCall
  <1>7. ASSUME NEW i \in Items, MarkDone(i) PROVE KnowsStages'
    BY <1>1, <1>7 DEF KnowsStages, StateOf, MarkDone, AlreadyShown
  <1>8. CASE UNCHANGED vars
    BY <1>8 DEF KnowsStages, StateOf, vars
  <1> QED BY <1>2, <1>3, <1>4, <1>5, <1>6, <1>7, <1>8 DEF Next, Worker

-----------------------------------------------------------------------------
(* What an action shows: the item i in the state st, and n tests counted.  *)

Shown(i, st, n) ==
  /\ item_state' = [item_state EXCEPT ![i] = st]
  /\ reported' = n
  /\ mode' = mode /\ mpc' = mpc /\ next_line' = next_line
  /\ mode = "live" => UpdateFileLine(file[i], item_state', n)
  /\ mode # "live" => term' = term

(* A step shows one item - running, or done, whether it was done before or *)
(* not - or nothing changes of what is known of the items.                 *)
LEMMA WhatIsShown ==
  ASSUME ReporterTypes, KnowsStages, CountsEachItem, [Next]_vars
  PROVE  \/ \E i \in Items, st \in States, n \in 0 .. total :
              /\ mpc = "run" /\ Shown(i, st, n)
              /\ \/ /\ st[1] # "done" /\ item_state[i][1] # "done" /\ n = reported
                    /\ printed' = printed
                 \/ /\ st[1] = "done" /\ item_state[i][1] # "done" /\ n = reported + 1
                    /\ mode = "dumb" => MaybeFlushFile(file[i], item_state', n)
                    /\ mode # "dumb" => printed' = printed
                 \/ /\ st[1] = "done" /\ item_state[i][1] = "done" /\ n = reported
                    /\ mode = "dumb" => MaybeFlushFile(file[i], item_state', n)
                    /\ mode # "dumb" => printed' = printed
         \/ UNCHANGED <<item_state, reported, printed, mode>>
  <1>1. /\ item_state \in [Items -> States] /\ outcome \in [Items -> Outcomes]
        /\ stage \in [Items -> {"queued", "running", "called", "result", "reported"}]
        /\ reported \in 0 .. total /\ reported = Cardinality(DoneItems)
    BY DEF ReporterTypes, TypeInv, States, CountsEachItem, DoneItems
  <1>2. ASSUME NEW i \in Items, item_state[i][1] # "done" PROVE reported + 1 \in 0 .. total
    <2>1. DoneItems # Items
      BY <1>2 DEF DoneItems
    <2> QED BY <1>1, <2>1, DoneIsFinite, TotalIsNat
  <1>3. ASSUME NEW i \in Items, MarkRunning(i)
        PROVE  \E st \in States, n \in 0 .. total :
                 /\ mpc = "run" /\ Shown(i, st, n)
                 /\ st[1] # "done" /\ item_state[i][1] # "done" /\ n = reported
                 /\ printed' = printed
    <2>1. item_state[i] = <<"scheduled", ".">>
      BY <1>3 DEF KnowsStages, StateOf, MarkRunning
    <2>2. Shown(i, <<"running", "*">>, reported) /\ <<"running", "*">> \in States
      BY <1>3 DEF MarkRunning, Shown, States
    <2> QED BY <1>1, <1>3, <2>1, <2>2 DEF MarkRunning
  <1>4. ASSUME NEW i \in Items, MarkCallDone(i)
        PROVE  \E st \in States, n \in 0 .. total :
                 /\ mpc = "run" /\ Shown(i, st, n)
                 /\ st[1] = "done" /\ item_state[i][1] # "done" /\ n = reported + 1
                 /\ mode = "dumb" => MaybeFlushFile(file[i], item_state', n)
                 /\ mode # "dumb" => printed' = printed
    <2>1. item_state[i] = <<"running", "*">> /\ outcome[i].call # "none" /\ mpc = "run"
      BY <1>1, <1>4 DEF KnowsStages, StateOf, MarkCallDone, ReporterTypes, TypeInv
    <2>2. <<"done", outcome[i].call>> \in States
      BY <2>1, OutcomeTypes DEF States, ReporterTypes
    <2>3. Shown(i, <<"done", outcome[i].call>>, reported + 1)
      BY <1>4, LiveAssumption DEF MarkCallDone, Shown, Display, ReporterTypes, TypeInv
    <2>4. /\ mode = "dumb" => MaybeFlushFile(file[i], item_state', reported + 1)
          /\ mode # "dumb" => printed' = printed
      BY <1>4, LiveAssumption DEF MarkCallDone, Display, ReporterTypes, TypeInv
    <2> QED BY <1>2, <2>1, <2>2, <2>3, <2>4
  <1>5. ASSUME NEW i \in Items, MarkDone(i), ~AlreadyShown(i)
        PROVE  \E st \in States, n \in 0 .. total :
                 /\ mpc = "run" /\ Shown(i, st, n)
                 /\ st[1] = "done"
                 /\ \/ item_state[i][1] # "done" /\ n = reported + 1
                    \/ item_state[i][1] = "done" /\ n = reported
                 /\ mode = "dumb" => MaybeFlushFile(file[i], item_state', n)
                 /\ mode # "dumb" => printed' = printed
    <2> DEFINE m == IF item_state[i][1] = "done" THEN reported ELSE reported + 1
    <2>1. m \in 0 .. total /\ mpc = "run"
      BY <1>1, <1>2, <1>5 DEF MarkDone
    <2>2. <<"done", outcome[i].report>> \in States
      BY OutcomeTypes DEF States, ReporterTypes
    <2>3. /\ item_state' = [item_state EXCEPT ![i] = <<"done", outcome[i].report>>]
          /\ reported' = m /\ Display(i, item_state', m)
          /\ mode' = mode /\ mpc' = mpc /\ next_line' = next_line
      BY <1>5 DEF MarkDone
    <2> HIDE DEF m
    <2>4. Shown(i, <<"done", outcome[i].report>>, m)
      BY <2>3, LiveAssumption DEF Shown, Display, ReporterTypes, TypeInv
    <2>5. /\ mode = "dumb" => MaybeFlushFile(file[i], item_state', m)
          /\ mode # "dumb" => printed' = printed
      BY <2>3, LiveAssumption DEF Display, ReporterTypes, TypeInv
    <2> QED BY <2>1, <2>2, <2>4, <2>5 DEF m
  <1>6. ASSUME NEW i \in Items, MarkDone(i), AlreadyShown(i)
        PROVE  UNCHANGED <<item_state, reported, printed, mode>>
    BY <1>6 DEF MarkDone
  <1>7. CASE \/ PrePrint \/ PrePrintDone \/ Finish \/ Terminated \/ UNCHANGED vars
             \/ \E i \in Items : QueueResult(i) \/ NoCall(i)
    BY <1>7 DEF PrePrint, PrePrintDone, Finish, Terminated, vars, QueueResult, NoCall
  <1> QED BY <1>3, <1>4, <1>5, <1>6, <1>7 DEF Next, Worker

-----------------------------------------------------------------------------
(* Types and the count.                                                    *)

LEMMA TypesAtStart == Init => ReporterTypes /\ CountsEachItem
  <1> SUFFICES ASSUME Init PROVE ReporterTypes /\ CountsEachItem
    OBVIOUS
  <1>1. item_state \in [Items -> States] /\ \A i \in Items : item_state[i][1] # "done"
    BY DEF Init, States, Letters
  <1>2. CountsEachItem
    <2>1. {i \in Items : item_state[i][1] = "done"} = {}
      BY <1>1
    <2>2. reported = 0
      BY DEF Init
    <2> QED BY <2>1, <2>2, FS_EmptySet DEF CountsEachItem
  <1>3. term \in Screens
    BY LiveAssumption DEF Init, Screens, Content, Blank
  <1>4. outcome \in [Items -> Outcomes]
    <2>1. (CHOOSE o \in Outcomes : TRUE) \in Outcomes
      BY LiveAssumption
    <2> QED BY <2>1 DEF Init
  <1>5. 0 \in 0 .. total /\ 0 \in 0 .. Len(file_order) + 1
    BY TotalIsNat
  <1>6. printed \in Seq(PrintedLines)
    BY DEF Init
  <1> QED BY <1>1, <1>2, <1>3, <1>4, <1>5, <1>6
          DEF Init, ReporterTypes, TypeInv, Screens, States

LEMMA CountKept ==
  ReporterTypes /\ KnowsStages /\ CountsEachItem /\ [Next]_vars => CountsEachItem'
  <1> SUFFICES ASSUME ReporterTypes, KnowsStages, CountsEachItem, [Next]_vars
               PROVE  reported' = Cardinality(DoneItems')
    BY DEF CountsEachItem, DoneItems
  <1>1. /\ item_state \in [Items -> States] /\ reported = Cardinality(DoneItems)
    BY DEF ReporterTypes, TypeInv, States, CountsEachItem, DoneItems
  <1>2. CASE UNCHANGED <<item_state, reported, printed, mode>>
    BY <1>1, <1>2 DEF DoneItems
  <1>3. ASSUME NEW i \in Items, NEW st \in States, NEW n \in 0 .. total, Shown(i, st, n),
               \/ st[1] # "done" /\ item_state[i][1] # "done" /\ n = reported
               \/ st[1] = "done" /\ item_state[i][1] # "done" /\ n = reported + 1
               \/ st[1] = "done" /\ item_state[i][1] = "done" /\ n = reported
        PROVE  reported' = Cardinality(DoneItems')
    <2>1. item_state' = [item_state EXCEPT ![i] = st] /\ reported' = n
      BY <1>3 DEF Shown
    <2> QED BY <1>1, <1>3, <2>1, DoneChanges
  <1> QED BY <1>2, <1>3, WhatIsShown

(* The line that dumb mode prints. *)
LEMMA FlushedLine ==
  ASSUME printed \in Seq(PrintedLines), NEW f \in Range(file_order),
         NEW st \in [Items -> States], NEW n \in 0 .. total, MaybeFlushFile(f, st, n)
  PROVE  printed' \in Seq(PrintedLines)
  <1>1. Line(f, st) \in UNION {[S -> States] : S \in SUBSET Items}
    <2>1. {i \in Items : file[i] = f} \in SUBSET Items
      OBVIOUS
    <2>2. Line(f, st) \in [{i \in Items : file[i] = f} -> States]
      BY DEF Line
    <2> QED BY <2>1, <2>2
  <1>2. [file |-> f, line |-> Line(f, st), progress |-> n] \in PrintedLines
    BY <1>1 DEF PrintedLines
  <1> QED BY <1>2 DEF MaybeFlushFile

LEMMA TypesKept ==
  ReporterTypes /\ KnowsStages /\ CountsEachItem /\ [Next]_vars => ReporterTypes'
  <1> SUFFICES ASSUME ReporterTypes, KnowsStages, CountsEachItem, [Next]_vars
               PROVE  ReporterTypes'
    OBVIOUS
  <1>1. /\ item_state \in [Items -> States] /\ outcome \in [Items -> Outcomes]
        /\ stage \in [Items -> {"queued", "running", "called", "result", "reported"}]
        /\ mode \in Modes /\ mpc \in {"pre_print", "run", "finished"}
        /\ next_line \in 0 .. Len(file_order) + 1 /\ reported \in 0 .. total
        /\ term \in Screens /\ printed \in Seq(PrintedLines)
    BY DEF ReporterTypes, TypeInv, States
  <1>2. /\ outcome' \in [Items -> Outcomes]
        /\ stage' \in [Items -> {"queued", "running", "called", "result", "reported"}]
        /\ mode' \in Modes /\ mpc' \in {"pre_print", "run", "finished"}
    <2>1. CASE PrePrint \/ PrePrintDone \/ Finish \/ Terminated \/ UNCHANGED vars
      BY <1>1, <2>1 DEF PrePrint, PrePrintDone, Finish, Terminated, vars
    <2>2. ASSUME NEW i \in Items, Worker(i) \/ MarkDone(i)
          PROVE  /\ outcome' \in [Items -> Outcomes]
                 /\ stage' \in [Items -> {"queued", "running", "called", "result", "reported"}]
                 /\ mode' = mode /\ mpc' = mpc
      BY <1>1, <2>2 DEF Worker, MarkRunning, MarkCallDone, QueueResult, NoCall, MarkDone
    <2> QED BY <1>1, <2>1, <2>2 DEF Next
  <1>3. next_line' \in 0 .. Len(file_order) + 1
    <2>1. CASE PrePrint
      BY <1>1, <2>1, TotalIsNat DEF PrePrint
    <2>2. CASE PrePrintDone \/ Finish \/ Terminated \/ UNCHANGED vars
      BY <1>1, <2>2 DEF PrePrintDone, Finish, Terminated, vars
    <2>3. ASSUME NEW i \in Items, Worker(i) \/ MarkDone(i) PROVE next_line' = next_line
      BY <2>3 DEF Worker, MarkRunning, MarkCallDone, QueueResult, NoCall, MarkDone
    <2> QED BY <1>1, <2>1, <2>2, <2>3 DEF Next
  <1>4. /\ item_state' \in [Items -> States] /\ reported' \in 0 .. total
        /\ printed' \in Seq(PrintedLines)
    <2>1. CASE UNCHANGED <<item_state, reported, printed, mode>>
      BY <1>1, <2>1
    <2>2. ASSUME NEW i \in Items, NEW st \in States, NEW n \in 0 .. total, Shown(i, st, n),
                 MaybeFlushFile(file[i], item_state', n) \/ printed' = printed
          PROVE  /\ item_state' \in [Items -> States] /\ reported' \in 0 .. total
                 /\ printed' \in Seq(PrintedLines)
      <3>1. item_state' \in [Items -> States] /\ reported' \in 0 .. total
        BY <1>1, <2>2 DEF Shown
      <3>2. file[i] \in Range(file_order)
        BY LiveAssumption
      <3>3. PICK sts \in [Items -> States] : sts = item_state'
        BY <3>1
      <3>4. CASE MaybeFlushFile(file[i], item_state', n)
        <4>1. MaybeFlushFile(file[i], sts, n)
          BY <3>3, <3>4
        <4> QED BY <1>1, <3>1, <3>2, <4>1, FlushedLine
      <3> QED BY <1>1, <2>2, <3>1, <3>4
    <2> QED BY <2>1, <2>2, WhatIsShown
  <1>5. term' \in Screens
    <2>1. Blank \in Content /\ \A n \in 0 .. total : Progress(n) \in Content
      BY DEF Content
    <2>2. CASE PrePrint
      <3>1. CASE next_line = 0
        BY <1>1, <2>1, <2>2, <3>1, ScreenOps DEF PrePrint
      <3>2. CASE next_line # 0
        <4> DEFINE f == file_order[next_line]
        <4>1. next_line \in DOMAIN file_order
          BY <1>1, <2>2, <3>2, LiveAssumption, TotalIsNat DEF PrePrint
        <4>2. <<f, Line(f, item_state)>> \in Content
          BY <1>1, <4>1, LinesUp, WrittenIsContent, TotalIsNat
        <4>3. Put(term, <<f, Line(f, item_state)>>) \in Screens
          BY <1>1, <4>2, ScreenOps
        <4>4. term' = NewLine(Put(term, <<f, Line(f, item_state)>>))
          BY <2>2, <3>2 DEF PrePrint
        <4> QED BY <2>1, <4>3, <4>4, ScreenOps
      <3> QED BY <3>1, <3>2
    <2>3. CASE PrePrintDone
      <3>1. Put(term, Progress(reported)) \in Screens
        BY <1>1, <2>1, ScreenOps
      <3> QED BY <1>1, <2>3, <3>1 DEF PrePrintDone
    <2>4. CASE Finish
      <3>1. NewLine(term) \in Screens
        BY <1>1, <2>1, ScreenOps
      <3>2. Up(NewLine(term), 1) \in Screens
        BY <2>1, <3>1, ScreenOps
      <3> QED BY <1>1, <2>4, <3>2 DEF Finish
    <2>5. CASE Terminated \/ UNCHANGED vars
      BY <1>1, <2>5 DEF Terminated, vars
    <2>6. ASSUME NEW i \in Items, Worker(i) \/ MarkDone(i) PROVE term' \in Screens
      <3>1. file[i] \in Range(file_order)
        BY LiveAssumption
      <3>2. ASSUME UpdateFileLine(file[i], item_state', reported') PROVE term' \in Screens
        <4>1. PICK sts \in [Items -> States], n \in 0 .. total :
                     sts = item_state' /\ n = reported'
          BY <1>4
        <4>2. UpdateFileLine(file[i], sts, n)
          BY <3>2, <4>1
        <4> QED BY <1>1, <3>1, <4>2, UpdateTypes
      <3>3. CASE MarkRunning(i)
        <4>1. reported' = reported
          BY <3>3 DEF MarkRunning
        <4>2. UpdateFileLine(file[i], item_state', reported') \/ term' = term
          BY <3>3, <4>1 DEF MarkRunning
        <4> QED BY <1>1, <3>2, <4>2
      <3>4. CASE MarkCallDone(i) \/ MarkDone(i)
        <4>1. UpdateFileLine(file[i], item_state', reported') \/ term' = term
          BY <1>1, <3>4, LiveAssumption DEF MarkCallDone, MarkDone, Display
        <4> QED BY <1>1, <3>2, <4>1
      <3>5. CASE QueueResult(i) \/ NoCall(i)
        BY <1>1, <3>5 DEF QueueResult, NoCall
      <3> QED BY <2>6, <3>3, <3>4, <3>5 DEF Worker
    <2> QED BY <2>2, <2>3, <2>4, <2>5, <2>6 DEF Next
  <1> QED BY <1>2, <1>3, <1>4, <1>5 DEF ReporterTypes, TypeInv, States, Screens

-----------------------------------------------------------------------------
(* The block of lines.                                                     *)

LEMMA BlockAtStart == Init => BlockInv
  <1> SUFFICES ASSUME Init PROVE term.row >= next_line /\ Block(next_line)
    BY DEF Init, BlockInv
  <1>1. next_line = 0 /\ term.row \in 1 .. Height
    BY DEF Init
  <1>2. 1 .. next_line - 1 = {}
    BY <1>1
  <1> QED BY <1>1, <1>2 DEF Block

(* pre_print writes the line of the file n and goes to the next row, which *)
(* scrolls the block when the cursor is on the last row.                   *)
LEMMA BlockGrows ==
  ASSUME ReporterTypes, TallEnough, mpc = "pre_print", mode = "live",
         term.row >= next_line, Block(next_line), PrePrint
  PROVE  term'.row >= next_line' /\ Block(next_line)'
  <1>1. /\ Height \in Nat \ {0} /\ term \in Screens /\ Len(file_order) < Height
        /\ Len(file_order) \in Nat /\ next_line \in 0 .. Len(file_order)
        /\ next_line' = next_line + 1 /\ item_state' = item_state
        /\ term.row \in 1 .. Height /\ term.rows \in [1 .. Height -> Content]
    BY LiveAssumption, TotalIsNat DEF ReporterTypes, TypeInv, PrePrint, TallEnough, Screens
  <1>2. CASE next_line = 0
    <2>1. term' = NewLine(term)
      BY <1>2 DEF PrePrint
    <2>2. term'.row >= 1
      BY <1>1, <2>1 DEF NewLine, Screens
    <2>3. 1 .. next_line' - 1 = {}
      BY <1>1, <1>2
    <2> QED BY <1>1, <1>2, <2>2, <2>3 DEF Block
  <1>3. CASE next_line # 0
    <2> PICK n \in 1 .. Len(file_order) : n = next_line
      BY <1>1, <1>3
    <2> DEFINE line == <<file_order[n], Line(file_order[n], item_state)>>
               text == Put(term, line)
    <2>1. term' = NewLine(text)
      BY <1>3 DEF PrePrint
    <2> HIDE DEF line
    <2>2. text.row = term.row /\ text.rows = [term.rows EXCEPT ![term.row] = line]
      BY <1>1 DEF Put, Screens
    <2>3. \A k \in 1 .. n : text.rows[term.row - (n - k)]
                              = <<file_order[k], Line(file_order[k], item_state)>>
      <3>1. ASSUME NEW k \in 1 .. n, k # n
            PROVE  text.rows[term.row - (n - k)]
                     = <<file_order[k], Line(file_order[k], item_state)>>
        <4>1. k \in 1 .. n - 1 /\ term.row - (n - k) \in 1 .. Height
              /\ term.row - (n - k) # term.row
          BY <1>1, <3>1
        <4>2. text.rows[term.row - (n - k)] = term.rows[term.row - (n - k)]
          BY <1>1, <2>2, <4>1
        <4> QED BY <4>1, <4>2 DEF Block
      <3>2. text.rows[term.row - (n - n)] = line
        BY <1>1, <2>2
      <3> QED BY <3>1, <3>2 DEF line
    <2>4. CASE term.row < Height
      <3>1. term'.row = term.row + 1 /\ term'.rows = text.rows
        BY <1>1, <2>1, <2>2, <2>4 DEF NewLine, Put, Screens
      <3>2. \A k \in 1 .. n : term'.row - (n + 1 - k) = term.row - (n - k)
        BY <1>1, <3>1
      <3>3. \A k \in 1 .. n : term'.rows[term'.row - (n + 1 - k)]
                                = <<file_order[k], Line(file_order[k], item_state)>>
        BY <2>3, <3>1, <3>2
      <3>4. n + 1 - 1 = n /\ next_line' = n + 1 /\ term'.row >= n + 1
        BY <1>1, <3>1
      <3> QED BY <1>1, <3>3, <3>4 DEF Block
    <2>5. CASE ~(term.row < Height)
      <3>1. term.row = Height
        BY <1>1, <2>5
      <3>2. /\ term'.row = Height
            /\ term'.rows = [r \in 1 .. Height |-> IF r < Height THEN text.rows[r + 1]
                                                                  ELSE Blank]
        BY <1>1, <2>1, <2>2, <3>1 DEF NewLine, Put, Screens
      <3>3. ASSUME NEW k \in 1 .. n
            PROVE  term'.rows[term'.row - (n + 1 - k)]
                     = <<file_order[k], Line(file_order[k], item_state)>>
        <4>1. /\ Height - (n + 1 - k) \in 1 .. Height /\ Height - (n + 1 - k) < Height
              /\ Height - (n + 1 - k) + 1 = term.row - (n - k)
          BY <1>1, <3>1
        <4>2. term'.rows[Height - (n + 1 - k)] = text.rows[term.row - (n - k)]
          BY <3>2, <4>1
        <4> QED BY <2>3, <3>2, <4>2
      <3>4. n + 1 - 1 = n /\ next_line' = n + 1 /\ term'.row >= n + 1
        BY <1>1, <3>2
      <3> QED BY <1>1, <3>3, <3>4 DEF Block
    <2> QED BY <2>4, <2>5
  <1> QED BY <1>2, <1>3

(* A rewritten line is that of its own file. *)
LEMMA BlockRewritten ==
  ASSUME ReporterTypes, TallEnough, mode = "live",
         term.row > Len(file_order), Block(Len(file_order) + 1),
         NEW i \in Items, NEW st \in States, NEW n \in 0 .. total, Shown(i, st, n)
  PROVE  /\ term'.row > Len(file_order) /\ Block(Len(file_order) + 1)'
         /\ term'.rows[term'.row] = Progress(reported')
  <1>1. /\ Height \in Nat /\ term \in Screens /\ Len(file_order) < Height
        /\ Len(file_order) \in Nat /\ term.row \in 1 .. Height
        /\ item_state \in [Items -> States]
    BY LiveAssumption, TotalIsNat DEF ReporterTypes, TypeInv, TallEnough, Screens, States
  <1>2. PICK m \in DOMAIN file_order : file[i] = file_order[m]
    BY LiveAssumption DEF Range
  <1>3. /\ item_state' = [item_state EXCEPT ![i] = st] /\ reported' = n
        /\ UpdateFileLine(file_order[m], item_state', n)
    BY <1>2 DEF Shown
  <1>4. PICK sts \in [Items -> States] : sts = item_state'
    BY <1>1, <1>3
  <1>5. /\ term'.row = term.row
        /\ term'.rows[term.row] = Progress(n)
        /\ term'.rows[term.row - lines_up(file_order[m])]
             = <<file_order[m], Line(file_order[m], sts)>>
        /\ \A r \in 1 .. Height :
             r \notin {term.row, term.row - lines_up(file_order[m])} =>
               term'.rows[r] = term.rows[r]
    <2>1. UpdateFileLine(file_order[m], sts, n)
      BY <1>3, <1>4
    <2> QED BY <1>1, <2>1, UpdateRows
  <1>6. lines_up(file_order[m]) = Len(file_order) - m + 1 /\ m \in 1 .. Len(file_order)
    BY LinesUp
  <1>7. ASSUME NEW k \in 1 .. Len(file_order)
        PROVE  term'.rows[term.row - (Len(file_order) + 1 - k)]
                 = <<file_order[k], Line(file_order[k], item_state')>>
    <2>1. CASE k = m
      <3>1. Len(file_order) + 1 - k = lines_up(file_order[m])
        BY <1>1, <1>6, <2>1
      <3> QED BY <1>4, <1>5, <2>1, <3>1
    <2>2. CASE k # m
      <3>1. /\ term.row - (Len(file_order) + 1 - k) \in 1 .. Height
            /\ term.row - (Len(file_order) + 1 - k) # term.row
        BY <1>1
      <3>2. term.row - (Len(file_order) + 1 - k) # term.row - lines_up(file_order[m])
        BY <1>1, <1>6, <2>2
      <3>3. term'.rows[term.row - (Len(file_order) + 1 - k)]
              = term.rows[term.row - (Len(file_order) + 1 - k)]
        BY <1>5, <3>1, <3>2
      <3>4. term.rows[term.row - (Len(file_order) + 1 - k)]
              = <<file_order[k], Line(file_order[k], item_state)>>
        <4>1. k \in 1 .. Len(file_order) + 1 - 1
          BY <1>1
        <4> QED BY <4>1 DEF Block
      <3>5. Line(file_order[k], item_state') = Line(file_order[k], item_state)
        <4>1. k \in DOMAIN file_order
          BY LiveAssumption
        <4>2. file[i] # file_order[k]
          BY <1>2, <2>2, <4>1, LiveAssumption DEF IsInjective
        <4>3. \A j \in Items : file[j] = file_order[k] => item_state'[j] = item_state[j]
          BY <1>1, <1>3, <4>2
        <4> QED BY <4>3 DEF Line
      <3> QED BY <3>3, <3>4, <3>5
    <2> QED BY <2>1, <2>2
  <1>8. Block(Len(file_order) + 1)'
    <2>1. ASSUME NEW k \in 1 .. Len(file_order) + 1 - 1
          PROVE  term'.rows[term'.row - (Len(file_order) + 1 - k)]
                   = <<file_order[k], Line(file_order[k], item_state')>>
      <3>1. k \in 1 .. Len(file_order)
        BY <1>1
      <3> QED BY <1>5, <1>7, <3>1
    <2> QED BY <2>1 DEF Block
  <1> QED BY <1>1, <1>3, <1>5, <1>8

LEMMA BlockKept ==
  ReporterTypes /\ KnowsStages /\ CountsEachItem /\ BlockInv /\ [Next]_vars => BlockInv'
  <1> SUFFICES ASSUME ReporterTypes, KnowsStages, CountsEachItem, BlockInv, [Next]_vars,
                      mode' = "live", TallEnough
               PROVE  /\ mpc' = "pre_print" => term'.row >= next_line' /\ Block(next_line)'
                      /\ mpc' = "run" => /\ term'.row > Len(file_order)
                                         /\ Block(Len(file_order) + 1)'
                                         /\ term'.rows[term'.row] = Progress(reported')
    BY DEF BlockInv, TallEnough
  <1>1. mode = "live"
    BY DEF Next, PrePrint, PrePrintDone, Finish, Terminated, vars, Worker, MarkRunning,
           MarkCallDone, QueueResult, NoCall, MarkDone
  <1>2. CASE PrePrint
    <2>1. mpc = "pre_print" /\ mpc' = "pre_print"
      BY <1>2 DEF PrePrint
    <2> QED BY <1>1, <1>2, <2>1, BlockGrows DEF BlockInv
  <1>3. CASE PrePrintDone
    <2>1. /\ mpc = "pre_print" /\ mpc' = "run" /\ next_line = Len(file_order) + 1
          /\ term' = Put(term, Progress(reported))
          /\ item_state' = item_state /\ reported' = reported
      BY <1>1, <1>3, TotalIsNat DEF PrePrintDone, ReporterTypes, TypeInv
    <2>2. /\ Height \in Nat /\ Len(file_order) \in Nat /\ term.row \in 1 .. Height
          /\ term.row >= Len(file_order) + 1 /\ Block(Len(file_order) + 1)
      BY <1>1, <2>1, LiveAssumption, TotalIsNat DEF BlockInv, ReporterTypes, Screens
    <2>3. /\ term'.row = term.row
          /\ term'.rows = [term.rows EXCEPT ![term.row] = Progress(reported)]
          /\ term.rows \in [1 .. Height -> Content]
      BY <2>1 DEF Put, ReporterTypes, Screens
    <2>4. ASSUME NEW k \in 1 .. Len(file_order) + 1 - 1
          PROVE  term'.rows[term.row - (Len(file_order) + 1 - k)]
                   = <<file_order[k], Line(file_order[k], item_state)>>
      <3>1. k \in 1 .. Len(file_order)
        BY <2>2
      <3>2. /\ term.row - (Len(file_order) + 1 - k) \in 1 .. Height
            /\ term.row - (Len(file_order) + 1 - k) # term.row
        BY <2>2, <3>1
      <3>3. term'.rows[term.row - (Len(file_order) + 1 - k)]
              = term.rows[term.row - (Len(file_order) + 1 - k)]
        BY <2>3, <3>2
      <3> QED BY <2>2, <3>3 DEF Block
    <2>5. Block(Len(file_order) + 1)'
      <3>1. ASSUME NEW k \in 1 .. Len(file_order) + 1 - 1
            PROVE  term'.rows[term'.row - (Len(file_order) + 1 - k)]
                     = <<file_order[k], Line(file_order[k], item_state')>>
        BY <2>1, <2>3, <2>4
      <3> QED BY <3>1 DEF Block
    <2>6. term'.row > Len(file_order) /\ term'.rows[term'.row] = Progress(reported')
      BY <2>1, <2>2, <2>3
    <2> QED BY <2>1, <2>5, <2>6
  <1>4. CASE Finish
    BY <1>4 DEF Finish
  <1>5. ASSUME NEW i \in Items, QueueResult(i) \/ NoCall(i) \/ (MarkDone(i) /\ AlreadyShown(i))
        PROVE  UNCHANGED <<term, item_state, reported, mpc, next_line>>
    BY <1>5 DEF QueueResult, NoCall, MarkDone
  <1>6. CASE UNCHANGED <<term, item_state, reported, mpc, next_line>>
    BY <1>1, <1>6 DEF BlockInv, Block
  <1>7. CASE Terminated \/ UNCHANGED vars
    BY <1>6, <1>7 DEF Terminated, vars
  <1>8. ASSUME NEW i \in Items,
               MarkRunning(i) \/ MarkCallDone(i) \/ (MarkDone(i) /\ ~AlreadyShown(i))
        PROVE  \E j \in Items, st \in States, n \in 0 .. total :
                 mpc = "run" /\ Shown(j, st, n)
    <2>1. ~(UNCHANGED item_state)
      <3>1. /\ item_state \in [Items -> States]
            /\ stage \in [Items -> {"queued", "running", "called", "result", "reported"}]
        BY DEF ReporterTypes, TypeInv, States
      <3>2. CASE MarkRunning(i)
        BY <3>1, <3>2 DEF MarkRunning, KnowsStages, StateOf
      <3>3. CASE MarkCallDone(i)
        BY <3>1, <3>3 DEF MarkCallDone, KnowsStages, StateOf
      <3>4. CASE MarkDone(i) /\ ~AlreadyShown(i)
        BY <3>1, <3>4 DEF MarkDone, AlreadyShown
      <3> QED BY <1>8, <3>2, <3>3, <3>4
    <2> QED BY <2>1, WhatIsShown
  <1>9. ASSUME NEW j \in Items, NEW st \in States, NEW n \in 0 .. total,
               mpc = "run", Shown(j, st, n)
        PROVE  /\ mpc' = "run" /\ term'.row > Len(file_order) /\ Block(Len(file_order) + 1)'
               /\ term'.rows[term'.row] = Progress(reported')
    <2>1. mpc' = "run"
      BY <1>9 DEF Shown
    <2> QED BY <1>1, <1>9, <2>1, BlockRewritten DEF BlockInv
  <1> QED BY <1>2, <1>3, <1>4, <1>5, <1>6, <1>7, <1>8, <1>9 DEF Next, Worker

-----------------------------------------------------------------------------
(* The lines of dumb mode.                                                 *)

LEMMA AllItemsCounted ==
  ASSUME NEW S \in SUBSET Items, Cardinality(S) = total
  PROVE  S = Items
  BY FS_Subset, LiveAssumption DEF total

LEMMA PrintedAtStart == Init => PrintedInv
  <1> SUFFICES ASSUME Init PROVE PrintedInv
    OBVIOUS
  <1>1. reported # total
    BY TotalIsNat DEF Init
  <1>2. \A f \in Range(file_order) : ~AllDone(f)
    <2>1. \A i \in Items : item_state[i][1] # "done"
      BY DEF Init
    <2> QED BY <2>1, LiveAssumption DEF AllDone
  <1> QED BY <1>1, <1>2 DEF PrintedInv

(* The line of a file stays its last one when another file's is printed.   *)
LEMMA OtherFileKept ==
  ASSUME printed \in Seq(PrintedLines), NEW f, LastLineOf(f),
         \/ printed' = printed
         \/ \E x \in PrintedLines : x.file # f /\ printed' = Append(printed, x),
         Line(f, item_state') = Line(f, item_state)
  PROVE  LastLineOf(f)'
  <1>1. PICK k \in DOMAIN printed :
          /\ printed[k].file = f /\ printed[k].line = Line(f, item_state)
          /\ \A n \in k + 1 .. Len(printed) : printed[n].file # f
    BY DEF LastLineOf
  <1>2. CASE printed' = printed
    BY <1>1, <1>2 DEF LastLineOf
  <1>3. CASE \E x \in PrintedLines : x.file # f /\ printed' = Append(printed, x)
    <2>1. PICK x \in PrintedLines : x.file # f /\ printed' = Append(printed, x)
      BY <1>3
    <2>2. /\ Len(printed) \in Nat /\ Len(printed') = Len(printed) + 1
          /\ DOMAIN printed' = 1 .. Len(printed) + 1 /\ DOMAIN printed = 1 .. Len(printed)
          /\ \A n \in 1 .. Len(printed) : printed'[n] = printed[n]
          /\ printed'[Len(printed) + 1] = x
      BY <2>1
    <2>3. k \in DOMAIN printed' /\ printed'[k] = printed[k]
      BY <2>2
    <2>4. ASSUME NEW n \in k + 1 .. Len(printed') PROVE printed'[n].file # f
      <3>1. CASE n = Len(printed) + 1
        BY <2>1, <2>2, <3>1
      <3>2. CASE n # Len(printed) + 1
        <4>1. n \in k + 1 .. Len(printed) /\ n \in 1 .. Len(printed)
          BY <2>2, <3>2
        <4> QED BY <1>1, <2>2, <4>1
      <3> QED BY <3>1, <3>2
    <2> QED BY <1>1, <2>3, <2>4 DEF LastLineOf
  <1> QED BY <1>2, <1>3

(* A line that is printed is the last one of its file. *)
LEMMA NewLineIsLast ==
  ASSUME printed \in Seq(PrintedLines), NEW x, printed' = Append(printed, x),
         x.line = Line(x.file, item_state')
  PROVE  /\ LastLineOf(x.file)'
         /\ printed' # <<>> /\ printed'[Len(printed')] = x
  <1>1. /\ Len(printed) \in Nat /\ Len(printed') = Len(printed) + 1
        /\ DOMAIN printed' = 1 .. Len(printed) + 1
        /\ printed'[Len(printed) + 1] = x
    OBVIOUS
  <1>2. Len(printed') \in DOMAIN printed' /\ printed'[Len(printed')] = x
    BY <1>1
  <1>3. \A n \in Len(printed') + 1 .. Len(printed') : printed'[n].file # x.file
    BY <1>1
  <1> QED BY <1>2, <1>3 DEF LastLineOf

LEMMA PrintedKept ==
  /\ ReporterTypes /\ KnowsStages /\ CountsEachItem /\ PrintedInv
  /\ [Next]_vars /\ ReporterTypes' /\ CountsEachItem'
  => PrintedInv'
  <1> SUFFICES ASSUME ReporterTypes, KnowsStages, CountsEachItem, PrintedInv, [Next]_vars,
                      ReporterTypes', CountsEachItem', mode' = "dumb"
               PROVE  /\ \A f \in Range(file_order) : AllDone(f)' => LastLineOf(f)'
                      /\ reported' = total => /\ printed' # <<>>
                                              /\ printed'[Len(printed')].progress = total
    BY DEF PrintedInv, total
  <1>1. /\ item_state \in [Items -> States] /\ item_state' \in [Items -> States]
        /\ printed \in Seq(PrintedLines) /\ printed' \in Seq(PrintedLines)
        /\ reported = Cardinality(DoneItems) /\ reported' = Cardinality(DoneItems')
    BY DEF ReporterTypes, TypeInv, States, CountsEachItem, DoneItems
  <1>2. CASE UNCHANGED <<item_state, reported, printed, mode>>
    BY <1>2 DEF PrintedInv, AllDone, LastLineOf, Line
  <1>3. ASSUME NEW i \in Items, NEW st \in States, NEW n \in 0 .. total, Shown(i, st, n),
               \/ st[1] # "done" /\ item_state[i][1] # "done" /\ printed' = printed
               \/ st[1] = "done" /\ MaybeFlushFile(file[i], item_state', n)
        PROVE  /\ \A f \in Range(file_order) : AllDone(f)' => LastLineOf(f)'
               /\ reported' = total => /\ printed' # <<>>
                                       /\ printed'[Len(printed')].progress = total
    <2> DEFINE line == [file |-> file[i], line |-> Line(file[i], item_state'),
                        progress |-> n]
    <2>1. /\ item_state' = [item_state EXCEPT ![i] = st] /\ reported' = n
          /\ mode = "dumb"
      BY <1>3 DEF Shown
    <2>2. \/ ~AllDone(file[i])' /\ printed' = printed
          \/ AllDone(file[i])' /\ printed' = Append(printed, line)
      <3>1. CASE st[1] # "done" /\ printed' = printed
        BY <1>1, <2>1, <3>1 DEF AllDone
      <3>2. CASE MaybeFlushFile(file[i], item_state', n)
        BY <3>2 DEF MaybeFlushFile, AllDone
      <3> QED BY <1>3, <3>1, <3>2
    <2>3. ASSUME AllDone(file[i])'
          PROVE  /\ LastLineOf(file[i])' /\ printed' # <<>>
                 /\ printed'[Len(printed')].progress = n
      <3>1. printed' = Append(printed, line) /\ line.line = Line(line.file, item_state')
        BY <2>2, <2>3
      <3>2. line.file = file[i] /\ line.progress = n
        OBVIOUS
      <3> HIDE DEF line
      <3> QED BY <1>1, <3>1, <3>2, NewLineIsLast
    <2>4. ASSUME NEW f \in Range(file_order), AllDone(f)' PROVE LastLineOf(f)'
      <3>1. CASE f = file[i]
        BY <2>3, <2>4, <3>1
      <3>2. CASE f # file[i]
        <4>1. \A j \in Items : file[j] = f => item_state'[j] = item_state[j]
          BY <1>1, <2>1, <3>2
        <4>2. Line(f, item_state') = Line(f, item_state)
          BY <4>1 DEF Line
        <4>3. AllDone(f)
          BY <2>4, <4>1 DEF AllDone
        <4>4. LastLineOf(f)
          BY <2>1, <4>3 DEF PrintedInv
        <4>5. \/ printed' = printed
              \/ \E x \in PrintedLines : x.file # f /\ printed' = Append(printed, x)
          <5>1. ASSUME printed' = Append(printed, line) PROVE line \in PrintedLines
            <6>1. /\ Len(printed) \in Nat /\ printed'[Len(printed) + 1] = line
                  /\ Len(printed) + 1 \in DOMAIN printed'
              BY <1>1, <5>1
            <6> QED BY <1>1, <6>1
          <5> QED BY <2>2, <3>2, <5>1
        <4> QED BY <1>1, <4>2, <4>4, <4>5, OtherFileKept
      <3> QED BY <3>1, <3>2
    <2>5. ASSUME reported' = total PROVE AllDone(file[i])'
      <3>1. DoneItems' = Items
        <4>1. DoneItems' \in SUBSET Items
          BY DEF DoneItems
        <4> QED BY <1>1, <2>5, <4>1, AllItemsCounted
      <3> QED BY <3>1 DEF DoneItems, AllDone
    <2> QED BY <2>1, <2>3, <2>4, <2>5
  <1> QED BY <1>2, <1>3, WhatIsShown DEF Shown

LEMMA ReporterInvariant == Spec => []ReporterInv
  <1>1. Init => ReporterInv
    BY TypesAtStart, KnowsStagesAtStart, BlockAtStart, PrintedAtStart DEF ReporterInv
  <1>2. ReporterInv /\ [Next]_vars => ReporterInv'
    BY TypesKept, KnowsStagesKept, CountKept, BlockKept, PrintedKept DEF ReporterInv
  <1> QED BY <1>1, <1>2, PTL DEF Spec

(* Variables have their types; the cursor stays on the terminal, and every *)
(* row of it holds a line of the reporter or nothing, however small it is. *)
THEOREM ReporterTypeCorrect == Spec => []TypeInv
  <1>1. ReporterInv => TypeInv
    BY DEF ReporterInv, ReporterTypes
  <1> QED BY <1>1, ReporterInvariant, PTL

(* Each item is counted once, whether its worker (mark_call_done), main    *)
(* (mark_done) or both of them mark it done.                               *)
THEOREM EachItemCountedOnce == Spec => []CountsEachItem
  <1>1. ReporterInv => CountsEachItem
    BY DEF ReporterInv
  <1> QED BY <1>1, ReporterInvariant, PTL

(* When the terminal has a row more than there are files, it shows between *)
(* two calls the current line of every file, and the progress line below   *)
(* them at the cursor, wherever on the screen pre_print began.             *)
THEOREM ScreenShowsStates ==
  ASSUME TallEnough
  PROVE  Spec => []ScreenIsCurrent
  <1>1. ReporterInv => ScreenIsCurrent
    <2> SUFFICES ASSUME ReporterInv, mpc = "run", mode = "live", NEW k \in DOMAIN file_order
                 PROVE  /\ term.rows[term.row] = Progress(reported)
                        /\ term.rows[term.row - lines_up(file_order[k])] =
                             <<file_order[k], Line(file_order[k], item_state)>>
      BY DEF ScreenIsCurrent, ReporterInv, BlockInv
    <2>1. term.rows[term.row] = Progress(reported) /\ Block(Len(file_order) + 1)
      BY DEF ReporterInv, BlockInv
    <2>2. /\ lines_up(file_order[k]) = Len(file_order) + 1 - k
          /\ k \in 1 .. Len(file_order) + 1 - 1
      BY LinesUp, TotalIsNat
    <2> QED BY <2>1, <2>2 DEF Block
  <1> QED BY <1>1, ReporterInvariant, PTL

(* In dumb mode the last line of each file has the final letters, although *)
(* workers print a skip or an xfail as a failure first, and the last line  *)
(* of all says that every test is done.                                    *)
THEOREM DumbLinesFinallyRight == Spec => []LinesFinallyRight
  <1>1. ReporterInv => LinesFinallyRight
    <2> SUFFICES ASSUME ReporterInv, mpc = "finished", mode = "dumb"
                 PROVE  /\ \A f \in Range(file_order) :
                             \E k \in DOMAIN printed :
                               /\ printed[k].file = f /\ printed[k].line = FinalLine(f)
                               /\ \A n \in k + 1 .. Len(printed) : printed[n].file # f
                        /\ Last(printed).progress = total
      BY DEF LinesFinallyRight
    <2>1. \A i \in Items : item_state[i] = <<"done", outcome[i].report>>
      BY DEF ReporterInv, KnowsStages, StateOf
    <2>2. ASSUME NEW f \in Range(file_order)
          PROVE  AllDone(f) /\ Line(f, item_state) = FinalLine(f)
      BY <2>1 DEF AllDone, Line, FinalLine
    <2>3. reported = total
      <3>1. {i \in Items : item_state[i][1] = "done"} = Items
        BY <2>1
      <3> QED BY <3>1 DEF ReporterInv, CountsEachItem, total
    <2> QED BY <2>2, <2>3 DEF ReporterInv, PrintedInv, LastLineOf, Last
  <1> QED BY <1>1, ReporterInvariant, PTL
===============================================================================

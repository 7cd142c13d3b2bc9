---------------------------- MODULE LiveViewProofs ----------------------------
(***************************************************************************)
(* Proofs about LiveView, for any tests, groups and branches, any number   *)
(* of reports and keys, and terminals of either width.                     *)
(***************************************************************************)
EXTENDS LiveView, TLAPS, FiniteSetTheorems

Places == Reporting \cup {"add", "overlay?", "rebuild", "finish", "wait", "join", "leave",
                          "left", "idle", "input", "consume", "pane", "content", "ended"}

Contents == [tests : SUBSET Tests, updates : Nat]

Flags == [stored : SUBSET Tests, opened : SUBSET Tests, interrupted : BOOLEAN,
          crashed : BOOLEAN, gave_up : BOOLEAN, late : BOOLEAN, overdrawn : BOOLEAN]

(* The types of what the threads share and of what each keeps.             *)
ViewTypes ==
  /\ pc \in [Threads -> Places] /\ loc \in [Threads -> Buffer]
  /\ tree \subseteq Tests /\ (overlay = None \/ overlay \subseteq tree)
  /\ active \subseteq Tests /\ summary \in Nat \ {0} /\ dirty \subseteq Regions
  /\ buffers \in [(SUBSET Tests) \ {{}} -> {None} \cup SUBSET Tests]

RunTypes ==
  /\ group \in 1 .. Len(groups) /\ test \in Tests \cup {None}
  /\ reporter \in Runners \cup {None}
  /\ consumed \subseteq Regions /\ stop \in BOOLEAN /\ narrow \in BOOLEAN

DisplayTypes ==
  /\ in_alt \in BOOLEAN
  /\ screen \in [content : Contents \cup {None}, offset : {0, 1},
                 pane : {None} \cup SUBSET Tests]
  /\ seen \in Flags

(* A runner that draws holds the reporter's lock, and main draws a test.   *)
Drawing == {"redraw", "buffer", "get", "fill", "alt", "draw"}

LockInv ==
  /\ pc["main"] \in Drawing => reporter = "main"
  /\ pc["worker"] \in Drawing \cup {"idle"}
  /\ pc["worker"] # "idle" => reporter = "worker"
  /\ pc["main"] \in Drawing \cup {"store", "active?", "copy", "show"} => test \in Tests

(* A worker that draws before an interrupt reports a test that main has    *)
(* not begun to report, so that main does not come to the end.             *)
WorkerInv ==
  pc["worker"] # "idle" /\ ~seen.interrupted =>
    /\ pc["main"] \in Reporting
    /\ \E t \in groups[group] \ {test} : ~Stored(t)

(* Main has waited for the refresh thread when it leaves the screen.       *)
LeaveInv ==
  /\ ~in_alt => pc["main"] = "left"
  /\ pc["main"] \in {"leave", "left"} /\ ~seen.gave_up => pc["refresh"] = "ended"
  /\ seen.gave_up => pc["main"] \in {"leave", "left"}

(* A single test that is shown, or whose view is rebuilt, was opened.      *)
OpenedInv ==
  \A t \in Tests :
    /\ active = {t} => t \in seen.opened
    /\ \A p \in Threads : loc[p].key = {t} => t \in seen.opened

LiveViewInv ==
  /\ ViewTypes /\ RunTypes /\ DisplayTypes
  /\ LockInv /\ WorkerInv /\ LeaveInv /\ OpenedInv
  /\ OutputLostOnlyIfOpened /\ NothingDrawnAfterLeave

-----------------------------------------------------------------------------
(* Types.                                                                  *)

LEMMA ThreadNames == "main" \in Threads /\ "worker" \in Threads /\ "refresh" \in Threads
  BY DEF Threads, Runners

LEMMA TypesAtStart == Init => ViewTypes /\ RunTypes /\ DisplayTypes
  <1> SUFFICES ASSUME Init PROVE ViewTypes /\ RunTypes /\ DisplayTypes
    OBVIOUS
  <1>1. pc \in [Threads -> Places]
    BY DEF Init, Threads, Runners, Places, Reporting
  <1>2. loc \in [Threads -> Buffer]
    BY DEF Init, Buffer, NoBuffer
  <1>3. ViewTypes
    BY <1>1, <1>2 DEF Init, ViewTypes, Regions
  <1>4. Len(groups) \in Nat \ {0}
    BY ViewAssumption
  <1>5. 1 \in 1 .. Len(groups)
    BY <1>4
  <1>6. RunTypes
    BY <1>5 DEF Init, RunTypes
  <1>7. DisplayTypes
    BY DEF Init, DisplayTypes, Flags
  <1> QED BY <1>3, <1>6, <1>7

(* A thread that goes somewhere, and one that keeps a buffer. *)
LEMMA GoTypes ==
  ASSUME ViewTypes, NEW p \in Threads, NEW place \in Places, Go(p, place)
  PROVE  pc' \in [Threads -> Places]
  BY DEF ViewTypes, Go

LEMMA KeepTypes ==
  ASSUME ViewTypes, NEW p \in Threads, NEW b \in Buffer, loc' = [loc EXCEPT ![p] = b]
  PROVE  loc' \in [Threads -> Buffer]
  BY DEF ViewTypes

LEMMA SomeBuffers ==
  /\ NoBuffer \in Buffer
  /\ [NoBuffer EXCEPT !.summary = TRUE] \in Buffer
  /\ \A lines \in SUBSET Tests : [NoBuffer EXCEPT !.tests = lines] \in Buffer
  /\ \A key \in SUBSET Tests : [NoBuffer EXCEPT !.key = key, !.todo = key] \in Buffer
  BY DEF NoBuffer, Buffer

LEMMA SomePlaces ==
  /\ Reporting \subseteq Places
  /\ {"alt", "get", "fill", "copy", "show", "draw", "redraw", "store", "next"} \subseteq Places
  /\ {"add", "overlay?", "rebuild", "finish", "wait", "join", "leave", "left"} \subseteq Places
  /\ {"idle", "input", "consume", "buffer", "pane", "content", "ended", "active?"} \subseteq Places
  BY DEF Places, Reporting

(* _active_buffer, in whichever thread. *)
LEMMA BufferTypes ==
  ASSUME ViewTypes, NEW p \in Threads, ActiveBuffer(p)
  PROVE  ViewTypes'
  <1> "alt" \in Places /\ "get" \in Places /\ "fill" \in Places
    BY SomePlaces
  <1>1. CASE IsSummary(p)
    <2>1. pc' \in [Threads -> Places]
      BY <1>1, GoTypes DEF IsSummary
    <2>2. loc' \in [Threads -> Buffer]
      BY <1>1, SomeBuffers, KeepTypes DEF IsSummary, ViewTypes
    <2> QED BY <1>1, <2>1, <2>2 DEF ViewTypes, IsSummary, view
  <1>2. CASE GetBuffer(p)
    <2>1. active # {} /\ buffers[active] # None => buffers[active] \in SUBSET Tests
      BY DEF ViewTypes
    <2>2. pc' \in [Threads -> Places]
      BY <1>2, GoTypes DEF GetBuffer
    <2>3. loc' \in [Threads -> Buffer]
      BY <1>2, <2>1, SomeBuffers, KeepTypes DEF GetBuffer
    <2> QED BY <1>2, <2>2, <2>3 DEF ViewTypes, GetBuffer, view
  <1>3. CASE FillBuffer(p)
    <2>1. pc' \in [Threads -> Places]
      BY <1>3, GoTypes DEF FillBuffer
    <2>2. active # {} => active \in (SUBSET Tests) \ {{}}
      BY DEF ViewTypes
    <2>3. buffers' \in [(SUBSET Tests) \ {{}} -> {None} \cup SUBSET Tests]
      BY <1>3, <2>2 DEF ViewTypes, FillBuffer
    <2> QED BY <1>3, <2>1, <2>3 DEF ViewTypes, FillBuffer
  <1> QED BY <1>1, <1>2, <1>3 DEF ActiveBuffer

(* _rebuild_group, in main or in the refresh thread. *)
LEMMA RebuildTypes ==
  ASSUME ViewTypes, NEW p \in Threads, NEW next \in Places, RebuildGroup(p, next)
  PROVE  ViewTypes'
  <1>1. ASSUME NEW t \in loc[p].todo,
               loc' = [loc EXCEPT ![p].todo = @ \ {t},
                                  ![p].tests = IF buffers[{t}] = None THEN @
                                               ELSE @ \cup buffers[{t}]],
               UNCHANGED <<pc, buffers>>
        PROVE  ViewTypes'
    <2>1. loc[p] \in Buffer /\ {t} \in (SUBSET Tests) \ {{}}
      BY DEF ViewTypes, Buffer
    <2>2. (IF buffers[{t}] = None THEN loc[p].tests ELSE loc[p].tests \cup buffers[{t}])
            \in SUBSET Tests
      BY <2>1 DEF ViewTypes, Buffer
    <2> DEFINE copied == IF buffers[{t}] = None THEN loc[p].tests
                         ELSE loc[p].tests \cup buffers[{t}]
               shorter == [loc EXCEPT ![p].todo = @ \ {t}]
    <2>3. shorter \in [Threads -> Buffer] /\ shorter[p].tests = loc[p].tests
      BY <2>1 DEF ViewTypes, Buffer
    <2>4. loc' = [shorter EXCEPT ![p].tests = copied]
      BY <1>1
    <2> HIDE DEF shorter, copied
    <2>5. loc' \in [Threads -> Buffer]
      BY <2>2, <2>3, <2>4 DEF Buffer, copied
    <2> QED BY <1>1, <2>5 DEF ViewTypes, RebuildGroup
  <1>2. CASE StoreGroup(p) /\ Go(p, next) /\ UNCHANGED loc
    <2>1. loc[p].tests \in SUBSET Tests
      BY DEF ViewTypes, Buffer
    <2>2. buffers' \in [(SUBSET Tests) \ {{}} -> {None} \cup SUBSET Tests]
      BY <1>2, <2>1 DEF ViewTypes, StoreGroup
    <2>3. pc' \in [Threads -> Places]
      BY <1>2 DEF ViewTypes, Go
    <2> QED BY <1>2, <2>2, <2>3 DEF ViewTypes, RebuildGroup
  <1> QED BY <1>1, <1>2 DEF RebuildGroup

(* A step that changes neither the buffers nor a local to anything but an  *)
(* empty one.                                                              *)
LEMMA SimpleViewTypes ==
  ASSUME ViewTypes, NEW p \in Threads, NEW place \in Places,
         pc' = pc \/ Go(p, place),
         loc' = loc \/ loc' = [loc EXCEPT ![p] = NoBuffer],
         buffers' = buffers, tree' = tree, overlay' \in {overlay, tree, None},
         active' \subseteq Tests, summary' \in {summary, summary + 1},
         dirty' \subseteq Regions
  PROVE  ViewTypes'
  <1>1. pc' \in [Threads -> Places]
    BY GoTypes DEF ViewTypes
  <1>2. loc' \in [Threads -> Buffer]
    BY SomeBuffers, KeepTypes DEF ViewTypes
  <1> QED BY <1>1, <1>2 DEF ViewTypes

LEMMA RunnerViewTypes ==
  ASSUME ViewTypes, NEW p \in Runners, SetLine(p) \/ Report(p)
  PROVE  ViewTypes'
  <1> p \in Threads /\ {"redraw", "buffer", "draw", "store", "idle"} \subseteq Places
    BY DEF Threads, Places, Reporting
  <1>1. dirty \cup {"content"} \subseteq Regions /\ dirty \subseteq Regions
    BY DEF ViewTypes, Regions
  <1>2. CASE SetLine(p)
    BY <1>1, <1>2, SimpleViewTypes DEF SetLine, Mark, ViewTypes
  <1>3. ASSUME Release(p), UNCHANGED <<tree, overlay, active, buffers, summary>>,
               dirty' \subseteq Regions
        PROVE  ViewTypes'
    <2>1. PICK place \in Places : Go(p, place)
      BY <1>3 DEF Release
    <2> QED BY <1>1, <1>3, <2>1, SimpleViewTypes DEF Release, ViewTypes
  <1>4. CASE Redraw(p)
    <2>1. CASE overlay # None
      BY <1>1, <1>3, <1>4, <2>1 DEF Redraw, Mark
    <2>2. CASE overlay = None
      BY <1>1, <1>4, <2>2, SimpleViewTypes DEF Redraw, ViewTypes
    <2> QED BY <2>1, <2>2
  <1>5. CASE TestInAlt(p)
    <2>1. CASE in_alt
      BY <1>1, <1>5, <2>1, SimpleViewTypes DEF TestInAlt, ViewTypes, view
    <2>2. CASE ~in_alt
      BY <1>1, <1>3, <1>5, <2>2 DEF TestInAlt, view
    <2> QED BY <2>1, <2>2
  <1>6. CASE RunnerDraws(p)
    BY <1>1, <1>3, <1>6 DEF RunnerDraws, view
  <1>7. CASE ActiveBuffer(p)
    BY <1>7, BufferTypes
  <1> QED BY <1>2, <1>4, <1>5, <1>6, <1>7 DEF Report

LEMMA GroupOfTests ==
  ASSUME RunTypes
  PROVE  groups[group] \subseteq Tests
  BY ViewAssumption DEF RunTypes

LEMMA MainViewTypes ==
  ASSUME ViewTypes, RunTypes, LockInv, MainRuns \/ MainIsInterrupted
  PROVE  ViewTypes'
  <1> "main" \in Threads /\ "main" \in Runners
    BY ThreadNames DEF Runners
  <1> /\ "next" \in Places /\ "overlay?" \in Places /\ "rebuild" \in Places
      /\ "finish" \in Places /\ "store" \in Places /\ "active?" \in Places
      /\ "show" \in Places /\ "copy" \in Places /\ "wait" \in Places /\ "join" \in Places
      /\ "leave" \in Places /\ "left" \in Places /\ "add" \in Places
    BY SomePlaces
  <1>a. dirty \subseteq Regions /\ active \subseteq Tests
    BY DEF ViewTypes
  <1>b. dirty \cup {"content"} \subseteq Regions /\ dirty \cup {"overlay"} \subseteq Regions
    BY <1>a DEF Regions
  <1>1. CASE AddTestItems
    <2>1. pc' \in [Threads -> Places]
      BY <1>1, GoTypes DEF AddTestItems
    <2> QED BY <1>1, <2>1, GroupOfTests DEF AddTestItems, ViewTypes
  <1>2. CASE TestOverlay
    BY <1>2, <1>a, SimpleViewTypes DEF TestOverlay, view
  <1>3. CASE RebuildOverlay
    <2>1. CASE overlay # None
      BY <1>3, <2>1, <1>a, <1>b, SimpleViewTypes DEF RebuildOverlay, Mark
    <2>2. CASE overlay = None
      BY <1>3, <2>2, <1>a, SimpleViewTypes DEF RebuildOverlay
    <2> QED BY <2>1, <2>2
  <1>4. CASE NextTest
    <2>1. CASE SetLine("main")
      BY <2>1, RunnerViewTypes
    <2>2. CASE UNCHANGED <<loc, view>> /\ Go("main", "store")
      BY <2>2, <1>a, SimpleViewTypes DEF view
    <2>3. CASE UNCHANGED <<loc, view>> /\ (Go("main", "add") \/ Go("main", "finish"))
      BY <2>3, <1>a, SimpleViewTypes DEF view
    <2> QED BY <1>4, <2>1, <2>2, <2>3 DEF NextTest
  <1>5. CASE StoreOutput
    <2>1. pc' \in [Threads -> Places]
      BY <1>5, GoTypes DEF StoreOutput
    <2>2. test \in Tests
      BY <1>5 DEF StoreOutput, LockInv
    <2>3. {test} \in SUBSET Tests
      BY <2>2
    <2>4. buffers' \in [(SUBSET Tests) \ {{}} -> {None} \cup SUBSET Tests]
      BY <1>5, <2>3 DEF StoreOutput, ViewTypes
    <2> QED BY <1>5, <2>1, <2>4 DEF StoreOutput, ViewTypes
  <1>6. CASE OutputIsShown
    <2>1. CASE UNCHANGED <<loc, view>> /\ (Go("main", "next") \/ Go("main", "show"))
      BY <2>1, <1>a, SimpleViewTypes DEF view
    <2>2. CASE StartRebuild("main", active) /\ UNCHANGED view
      <3>1. pc' \in [Threads -> Places]
        BY <2>2, GoTypes DEF StartRebuild
      <3>2. loc' \in [Threads -> Buffer]
        BY <2>2, <1>a, SomeBuffers, KeepTypes DEF StartRebuild
      <3> QED BY <2>2, <3>1, <3>2 DEF ViewTypes, view
    <2> QED BY <1>6, <2>1, <2>2 DEF OutputIsShown
  <1>7. CASE MarkOutput
    <2>1. loc' = [loc EXCEPT !["main"] = NoBuffer]
      BY <1>7 DEF MarkOutput
    <2> QED BY <1>7, <2>1, <1>a, <1>b, SimpleViewTypes DEF MarkOutput, Mark
  <1>8. CASE Report("main")
    BY <1>8, RunnerViewTypes
  <1>9. CASE RebuildGroup("main", "show")
    BY <1>9, RebuildTypes
  <1>10. CASE TestsComplete
    BY <1>10, <1>a, <1>b, SimpleViewTypes DEF TestsComplete, Mark
  <1>11. CASE (Join \/ Leave) /\ UNCHANGED <<loc, view>>
    BY <1>11, <1>a, SimpleViewTypes DEF Join, Leave, view
  <1>12. CASE Interrupt
    <2>1. loc' = [loc EXCEPT !["main"] = NoBuffer]
      BY <1>12 DEF Interrupt
    <2> QED BY <1>12, <2>1, <1>a, SimpleViewTypes DEF Interrupt, view
  <1>13. CASE StopRefresh /\ UNCHANGED <<loc, view>>
    BY <1>13, <1>a, SimpleViewTypes DEF StopRefresh, view
  <1> QED
    BY <1>1, <1>2, <1>3, <1>4, <1>5, <1>6, <1>7, <1>8, <1>9, <1>10, <1>11, <1>12, <1>13
    DEF MainRuns, Runs, Ends, MainIsInterrupted

LEMMA RefreshViewTypes ==
  ASSUME ViewTypes, RunTypes, Refresh
  PROVE  ViewTypes'
  <1> "refresh" \in Threads
    BY ThreadNames
  <1> /\ "ended" \in Places /\ "input" \in Places /\ "consume" \in Places
      /\ "copy" \in Places /\ "show" \in Places /\ "buffer" \in Places /\ "wait" \in Places
      /\ "pane" \in Places /\ "content" \in Places /\ "draw" \in Places
    BY SomePlaces
  <1>a. dirty \subseteq Regions /\ active \subseteq Tests /\ tree \subseteq Tests
    BY DEF ViewTypes
  <1>b. /\ dirty \cup {"content"} \subseteq Regions /\ dirty \cup Regions \subseteq Regions
        /\ {} \subseteq Regions
    BY <1>a DEF Regions
  <1>1. CASE Wakes
    BY <1>1, <1>a, SimpleViewTypes DEF Wakes, view
  <1>2. CASE PressTab
    BY <1>2, <1>a, <1>b, SimpleViewTypes DEF PressTab, Mark
  <1>3. CASE PressClose
    BY <1>3, <1>a, <1>b, SimpleViewTypes DEF PressClose, Mark
  <1>4. CASE PressJump
    <2>1. active' \subseteq Tests
      BY <1>4 DEF PressJump, ViewTypes
    <2> QED BY <1>4, <2>1, <1>b, SimpleViewTypes DEF PressJump, Mark
  <1>5. CASE PressBranch
    <2>1. PICK b \in Branches : StartRebuild("refresh", b \cap tree)
      BY <1>5 DEF PressBranch
    <2>2. pc' \in [Threads -> Places]
      BY <2>1, GoTypes DEF StartRebuild
    <2>3. b \cap tree \in SUBSET Tests
      BY <1>a
    <2>4. loc' \in [Threads -> Buffer]
      BY <2>1, <2>3, SomeBuffers, KeepTypes DEF StartRebuild
    <2> QED BY <1>5, <2>2, <2>4 DEF PressBranch, ViewTypes, view
  <1>6. CASE ShowGroup
    <2>1. active' \subseteq Tests
      BY <1>6 DEF ShowGroup, ViewTypes, Buffer
    <2>2. loc' = [loc EXCEPT !["refresh"] = NoBuffer]
      BY <1>6 DEF ShowGroup
    <2> QED BY <1>6, <2>1, <2>2, <1>b, SimpleViewTypes DEF ShowGroup, Mark
  <1>7. CASE NoMoreInput
    BY <1>7, <1>a, SimpleViewTypes DEF NoMoreInput, view
  <1>8. CASE RebuildGroup("refresh", "show")
    BY <1>8, RebuildTypes
  <1>9. CASE ConsumeDirty /\ UNCHANGED <<loc, tree, overlay, active, buffers, summary>>
    BY <1>9, <1>a, <1>b, SimpleViewTypes DEF ConsumeDirty
  <1>10. CASE ActiveBuffer("refresh")
    BY <1>10, BufferTypes
  <1>11. CASE RefreshWaits /\ UNCHANGED <<tree, overlay, active, buffers, summary>>
    <2>1. loc' = [loc EXCEPT !["refresh"] = NoBuffer]
      BY <1>11 DEF RefreshWaits
    <2> QED BY <1>11, <2>1, <1>a, SimpleViewTypes DEF RefreshWaits
  <1>12. ASSUME RefreshTests, UNCHANGED <<tree, overlay, active, buffers, summary>>
         PROVE  ViewTypes'
    <2>1. CASE (Go("refresh", "pane") \/ Go("refresh", "draw")) /\ UNCHANGED <<loc, dirty>>
      BY <1>12, <2>1, <1>a, SimpleViewTypes
    <2> QED BY <1>11, <1>12, <2>1 DEF RefreshTests
  <1>13. CASE RefreshDrawsPane /\ UNCHANGED <<tree, overlay, active, buffers, summary>>
    BY <1>13, <1>a, SimpleViewTypes DEF RefreshDrawsPane
  <1>14. CASE RefreshDraws /\ UNCHANGED <<tree, overlay, active, buffers, summary>>
    BY <1>11, <1>14 DEF RefreshDraws
  <1> QED
    BY <1>1, <1>2, <1>3, <1>4, <1>5, <1>6, <1>7, <1>8, <1>9, <1>10, <1>12, <1>13, <1>14
    DEF Refresh, Input

(* What a call of the reporter does to its lock. *)
LEMMA LockTypes ==
  ASSUME RunTypes, NEW p \in Runners, SetLine(p) \/ Report(p)
  PROVE  reporter' \in Runners \cup {None}
  BY DEF RunTypes, SetLine, Report, Redraw, TestInAlt, RunnerDraws, Release

LEMMA RunTypesKept ==
  ASSUME ViewTypes, RunTypes, [Next]_vars
  PROVE  RunTypes'
  <1> "main" \in Runners /\ "worker" \in Runners
    BY DEF Runners
  <1> USE DEF RunTypes
  <1>1. CASE (AddTestItems \/ TestOverlay \/ RebuildOverlay \/ StoreOutput \/ OutputIsShown
              \/ MarkOutput)
             /\ UNCHANGED <<group, test, reporter, stop, disp>> /\ UNCHANGED <<consumed, narrow, left>>
    BY <1>1
  <1>2. CASE NextTest /\ UNCHANGED <<stop, disp>> /\ UNCHANGED <<consumed, narrow, left>>
    <2>1. group' \in 1 .. Len(groups)
      BY <1>2, ViewAssumption DEF NextTest
    <2>2. test' \in Tests \cup {None}
      BY <1>2, GroupOfTests DEF NextTest
    <2>3. reporter' \in Runners \cup {None}
      BY <1>2, LockTypes DEF NextTest
    <2> QED BY <1>2, <2>1, <2>2, <2>3
  <1>3. CASE Report("main") /\ UNCHANGED <<group, test, stop>> /\ UNCHANGED <<consumed, narrow, left>>
    BY <1>3, LockTypes
  <1>4. CASE RebuildGroup("main", "show") /\ UNCHANGED <<reporter, group, test, stop, disp, seen>>
             /\ UNCHANGED <<consumed, narrow, left>>
    BY <1>4
  <1>5. CASE Ends /\ UNCHANGED <<consumed, narrow, left>>
    BY <1>5 DEF Ends
  <1>6. CASE MainIsInterrupted
    BY <1>6 DEF MainIsInterrupted, Interrupt, StopRefresh
  <1>7. CASE Worker
    BY <1>7, LockTypes DEF Worker
  <1>8. CASE Refresh
    <2>1. consumed' \subseteq Regions
      BY <1>8
      DEF Refresh, ViewTypes, ConsumeDirty, RefreshTests, RefreshWaits, RefreshDrawsPane, RefreshDraws
    <2> QED BY <1>8, <2>1 DEF Refresh
  <1>9. CASE UNCHANGED vars
    BY <1>9 DEF vars
  <1> QED BY <1>1, <1>2, <1>3, <1>4, <1>5, <1>6, <1>7, <1>8, <1>9
          DEF Next, MainRuns, Runs, Done

(* What a drawing leaves on the screen and notes. *)
LEMMA DrawnTypes ==
  ASSUME ViewTypes, DisplayTypes, NEW b \in Buffer, NEW offset \in {0, 1},
         DrawBuffer(b, offset), in_alt' = in_alt
  PROVE  DisplayTypes'
  <1>1. Lines(b) \in Contents
    BY DEF Lines, Contents, Buffer, ViewTypes
  <1>2. screen' \in [content : Contents \cup {None}, offset : {0, 1},
                     pane : {None} \cup SUBSET Tests]
    BY <1>1 DEF DrawBuffer, DisplayTypes
  <1>3. seen' \in Flags
    BY DEF DrawBuffer, DisplayTypes, Flags
  <1> QED BY <1>2, <1>3 DEF DisplayTypes

LEMMA PaneTypes ==
  ASSUME ViewTypes, DisplayTypes, DrawPane, in_alt' = in_alt
  PROVE  DisplayTypes'
  <1>1. overlay \in {None} \cup SUBSET Tests
    BY DEF ViewTypes
  <1>2. screen' \in [content : Contents \cup {None}, offset : {0, 1},
                     pane : {None} \cup SUBSET Tests]
    BY <1>1 DEF DrawPane, DisplayTypes
  <1>3. seen' \in Flags
    BY DEF DrawPane, DisplayTypes, Flags
  <1> QED BY <1>2, <1>3 DEF DisplayTypes

LEMMA ReportDisplayTypes ==
  ASSUME ViewTypes, DisplayTypes, NEW p \in Runners, Report(p)
  PROVE  DisplayTypes'
  <1>1. loc[p] \in Buffer
    BY DEF ViewTypes, Threads
  <1>2. CASE RunnerDraws(p)
    BY <1>1, <1>2, DrawnTypes DEF RunnerDraws
  <1>3. CASE UNCHANGED <<disp, seen>>
    BY <1>3 DEF DisplayTypes, disp
  <1> QED BY <1>2, <1>3 DEF Report, Redraw, TestInAlt

LEMMA DisplayTypesKept ==
  ASSUME ViewTypes, RunTypes, DisplayTypes, LockInv, [Next]_vars
  PROVE  DisplayTypes'
  <1> "main" \in Runners /\ "worker" \in Runners
    BY DEF Runners
  <1>1. ASSUME UNCHANGED disp, seen' \in Flags
        PROVE  DisplayTypes'
    BY <1>1 DEF DisplayTypes, disp
  <1>2. ASSUME UNCHANGED <<disp, seen>>
        PROVE  DisplayTypes'
    BY <1>2 DEF DisplayTypes, disp
  <1>3. CASE RebuildOverlay /\ UNCHANGED disp
    <2>1. seen' \in Flags
      BY <1>3 DEF RebuildOverlay, DisplayTypes, Flags
    <2> QED BY <1>1, <1>3, <2>1
  <1>4. CASE StoreOutput /\ UNCHANGED disp
    <2>1. test \in Tests
      BY <1>4 DEF StoreOutput, LockInv
    <2>2. seen' \in Flags
      BY <1>4, <2>1 DEF StoreOutput, DisplayTypes, Flags
    <2> QED BY <1>1, <1>4, <2>2
  <1>5. CASE (AddTestItems \/ TestOverlay \/ OutputIsShown \/ MarkOutput \/ NextTest)
             /\ UNCHANGED disp
    BY <1>2, <1>5 DEF AddTestItems, TestOverlay, OutputIsShown, MarkOutput, NextTest
  <1>6. CASE Report("main") \/ Report("worker")
    BY <1>6, ReportDisplayTypes
  <1>7. CASE TestsComplete /\ UNCHANGED <<stop, disp, seen>>
    BY <1>2, <1>7
  <1>8. CASE Join /\ UNCHANGED <<loc, view, stop, disp>>
    <2>1. seen' \in Flags
      BY <1>8 DEF Join, DisplayTypes, Flags
    <2> QED BY <1>1, <1>8, <2>1
  <1>9. CASE Leave /\ UNCHANGED <<loc, view, stop, seen>>
    BY <1>9 DEF Leave, DisplayTypes
  <1>10. CASE Interrupt
    <2>1. seen' \in Flags
      BY <1>10 DEF Interrupt, DisplayTypes, Flags
    <2> QED BY <1>1, <1>10, <2>1 DEF Interrupt
  <1>11. CASE StopRefresh /\ UNCHANGED <<loc, group, test, reporter, view, disp, seen>>
    BY <1>2, <1>11
  <1>12. CASE Worker
    BY <1>2, <1>6, <1>12 DEF Worker
  <1>13. CASE Refresh
    <2>1. in_alt' = in_alt
      BY <1>13 DEF Refresh
    <2>2. CASE RefreshDraws
      <3>1. loc["refresh"] \in Buffer /\ (IF overlay = None THEN 0 ELSE 1) \in {0, 1}
        BY ThreadNames DEF ViewTypes
      <3> QED BY <2>1, <2>2, <3>1, DrawnTypes DEF RefreshDraws
    <2>3. CASE RefreshDrawsPane
      BY <2>1, <2>3, PaneTypes DEF RefreshDrawsPane
    <2>4. ASSUME UNCHANGED screen, seen' \in Flags
          PROVE  DisplayTypes'
      BY <2>1, <2>4 DEF DisplayTypes
    <2>5. seen \in Flags
      BY DEF DisplayTypes
    <2>6. CASE PressJump /\ UNCHANGED screen
      <3>1. PICK t \in overlay : seen' = [seen EXCEPT !.opened = @ \cup {t}]
        BY <2>6 DEF PressJump
      <3>2. overlay \subseteq Tests
        BY <2>6 DEF PressJump, ViewTypes
      <3>3. t \in Tests
        BY <3>2
      <3>4. seen' \in Flags
        BY <2>5, <3>1, <3>3 DEF Flags
      <3> QED BY <2>4, <2>6, <3>4
    <2>7. CASE PressBranch /\ UNCHANGED screen
      <3>1. PICK b \in Branches :
              seen' = [seen EXCEPT !.opened = @ \cup
                         (IF Cardinality(b \cap tree) = 1 THEN b \cap tree ELSE {})]
        BY <2>7 DEF PressBranch
      <3>2. (IF Cardinality(b \cap tree) = 1 THEN b \cap tree ELSE {}) \subseteq Tests
        BY DEF ViewTypes
      <3>3. seen' \in Flags
        BY <2>5, <3>1, <3>2 DEF Flags
      <3> QED BY <2>4, <2>7, <3>3
    <2>8. CASE UNCHANGED <<screen, seen>>
      BY <2>4, <2>5, <2>8
    <2> QED
      BY <1>13, <2>2, <2>3, <2>6, <2>7, <2>8
      DEF Refresh, Wakes, Input, PressTab, PressClose, ShowGroup, NoMoreInput, RefreshTests
  <1>14. CASE UNCHANGED vars
    BY <1>2, <1>14 DEF vars
  <1>15. CASE RebuildGroup("main", "show") /\ UNCHANGED <<reporter, group, test, stop, disp, seen>>
    BY <1>2, <1>15
  <1> QED
    BY <1>3, <1>4, <1>5, <1>6, <1>7, <1>8, <1>9, <1>10, <1>11, <1>12, <1>13, <1>14, <1>15
    DEF Next, MainRuns, Runs, Ends, MainIsInterrupted, Done

-----------------------------------------------------------------------------
(* Where a step leaves the threads.                                        *)

LEMMA GoFrame ==
  ASSUME ViewTypes, NEW p \in Threads, NEW place, Go(p, place)
  PROVE  pc'[p] = place /\ \A q \in Threads \ {p} : pc'[q] = pc[q]
  BY DEF ViewTypes, Go

LEMMA BufferFrame ==
  ASSUME ViewTypes, NEW p \in Threads, ActiveBuffer(p)
  PROVE  /\ pc[p] \in {"buffer", "get", "fill"} /\ pc'[p] \in {"get", "fill", "alt"}
         /\ \A q \in Threads \ {p} : pc'[q] = pc[q] /\ loc'[q] = loc[q]
  <1>1. \A q \in Threads \ {p} : loc'[q] = loc[q]
    BY DEF ActiveBuffer, IsSummary, GetBuffer, FillBuffer, ViewTypes
  <1>2. PICK place \in {"get", "fill", "alt"} : Go(p, place)
    BY DEF ActiveBuffer, IsSummary, GetBuffer, FillBuffer
  <1>3. pc[p] \in {"buffer", "get", "fill"}
    BY DEF ActiveBuffer, IsSummary, GetBuffer, FillBuffer
  <1> QED BY <1>1, <1>2, <1>3, GoFrame

(* A call of the reporter goes on, or gives the lock back. *)
LEMMA ReportFrame ==
  ASSUME ViewTypes, NEW p \in Runners, Report(p)
  PROVE  /\ pc[p] \in Drawing
         /\ \/ pc'[p] \in Drawing /\ reporter' = reporter
            \/ pc'[p] = (IF p = "main" THEN "store" ELSE "idle") /\ reporter' = None
         /\ \A q \in Threads \ {p} : pc'[q] = pc[q]
  <1> p \in Threads
    BY DEF Threads
  <1>1. CASE ActiveBuffer(p) /\ UNCHANGED reporter
    BY <1>1, BufferFrame DEF Drawing
  <1>2. ASSUME Release(p), pc[p] \in Drawing
        PROVE  /\ pc'[p] = (IF p = "main" THEN "store" ELSE "idle") /\ reporter' = None
               /\ \A q \in Threads \ {p} : pc'[q] = pc[q]
    BY <1>2, GoFrame DEF Release
  <1>3. ASSUME pc[p] \in Drawing, NEW place \in Drawing, Go(p, place), reporter' = reporter
        PROVE  /\ pc'[p] \in Drawing /\ reporter' = reporter
               /\ \A q \in Threads \ {p} : pc'[q] = pc[q]
    BY <1>3, GoFrame
  <1>4. "redraw" \in Drawing /\ "buffer" \in Drawing /\ "alt" \in Drawing /\ "draw" \in Drawing
    BY DEF Drawing
  <1>5. CASE Redraw(p)
    BY <1>2, <1>3, <1>4, <1>5 DEF Redraw
  <1>6. CASE TestInAlt(p)
    BY <1>2, <1>3, <1>4, <1>6 DEF TestInAlt
  <1>7. CASE RunnerDraws(p)
    BY <1>2, <1>4, <1>7 DEF RunnerDraws
  <1> QED BY <1>1, <1>5, <1>6, <1>7 DEF Report

LEMMA SetLineFrame ==
  ASSUME ViewTypes, NEW p \in Runners, SetLine(p)
  PROVE  /\ pc'[p] = "redraw" /\ reporter = None /\ reporter' = p
         /\ \A q \in Threads \ {p} : pc'[q] = pc[q]
  BY GoFrame DEF SetLine, Threads

LEMMA RebuildFrame ==
  ASSUME ViewTypes, NEW p \in Threads, RebuildGroup(p, "show")
  PROVE  /\ pc[p] = "copy" /\ pc'[p] \in {"copy", "show"} /\ loc'[p].key = loc[p].key
         /\ \A q \in Threads \ {p} : pc'[q] = pc[q] /\ loc'[q] = loc[q]
  <1>1. pc[p] = "copy"
    BY DEF RebuildGroup
  <1>2. loc'[p].key = loc[p].key /\ \A q \in Threads \ {p} : loc'[q] = loc[q]
    <2>1. ASSUME NEW t \in loc[p].todo, NEW copied,
                 loc' = [loc EXCEPT ![p].todo = @ \ {t}, ![p].tests = copied]
          PROVE  loc'[p].key = loc[p].key /\ \A q \in Threads \ {p} : loc'[q] = loc[q]
      <3> DEFINE shorter == [loc EXCEPT ![p].todo = @ \ {t}]
      <3>1. /\ shorter \in [Threads -> Buffer] /\ shorter[p].key = loc[p].key
            /\ \A q \in Threads \ {p} : shorter[q] = loc[q]
        BY DEF ViewTypes, Buffer
      <3>2. loc' = [shorter EXCEPT ![p].tests = copied]
        BY <2>1
      <3> HIDE DEF shorter
      <3> QED BY <3>1, <3>2 DEF Buffer
    <2>2. CASE UNCHANGED loc
      BY <2>2
    <2> QED BY <2>1, <2>2 DEF RebuildGroup
  <1>3. CASE UNCHANGED pc
    BY <1>1, <1>2, <1>3
  <1>4. CASE Go(p, "show")
    BY <1>1, <1>2, <1>4, GoFrame
  <1> QED BY <1>3, <1>4 DEF RebuildGroup

(* What main does does not move the others. *)
LEMMA MainFrame ==
  ASSUME ViewTypes, MainRuns \/ MainIsInterrupted
  PROVE  \A q \in {"worker", "refresh"} : pc'[q] = pc[q]
  <1> "main" \in Threads /\ "main" \in Runners
    BY ThreadNames DEF Runners
  <1>1. {"worker", "refresh"} \subseteq Threads \ {"main"}
    BY DEF Threads, Runners
  <1>2. ASSUME NEW place, Go("main", place)
        PROVE  \A q \in {"worker", "refresh"} : pc'[q] = pc[q]
    BY <1>1, <1>2, GoFrame
  <1>3. CASE Report("main") \/ SetLine("main")
    BY <1>1, <1>3, ReportFrame, SetLineFrame
  <1>4. CASE RebuildGroup("main", "show")
    BY <1>1, <1>4, RebuildFrame
  <1>5. CASE NextTest
    BY <1>2, <1>3, <1>5 DEF NextTest
  <1>6. CASE AddTestItems \/ TestOverlay \/ RebuildOverlay \/ StoreOutput \/ OutputIsShown
             \/ MarkOutput
    BY <1>2, <1>6
    DEF AddTestItems, TestOverlay, RebuildOverlay, StoreOutput, OutputIsShown, MarkOutput,
        StartRebuild
  <1>7. CASE TestsComplete \/ Join \/ Leave \/ Interrupt \/ StopRefresh
    BY <1>2, <1>7 DEF TestsComplete, Join, Leave, Interrupt, StopRefresh
  <1> QED BY <1>3, <1>4, <1>5, <1>6, <1>7 DEF MainRuns, Runs, Ends, MainIsInterrupted

(* And the refresh thread only itself; it does nothing once it has ended.  *)
LEMMA RefreshFrame ==
  ASSUME ViewTypes, Refresh
  PROVE  pc["refresh"] # "ended" /\ \A q \in Runners : pc'[q] = pc[q]
  <1> "refresh" \in Threads
    BY ThreadNames
  <1>1. Runners = Threads \ {"refresh"}
    BY DEF Threads, Runners
  <1>2. ASSUME NEW place, Go("refresh", place)
        PROVE  \A q \in Runners : pc'[q] = pc[q]
    BY <1>1, <1>2, GoFrame
  <1>3. CASE ActiveBuffer("refresh")
    BY <1>1, <1>3, BufferFrame
  <1>4. CASE RebuildGroup("refresh", "show")
    BY <1>1, <1>4, RebuildFrame
  <1>5. CASE PressTab \/ PressClose \/ PressJump \/ PressBranch \/ ShowGroup \/ NoMoreInput
    BY <1>2, <1>5
    DEF PressTab, PressClose, PressJump, PressBranch, ShowGroup, NoMoreInput, Key, StartRebuild
  <1>6. CASE Wakes \/ ConsumeDirty \/ RefreshDrawsPane
    BY <1>2, <1>6 DEF Wakes, ConsumeDirty, RefreshDrawsPane
  <1>7. CASE RefreshTests
    BY <1>2, <1>7 DEF RefreshTests, RefreshWaits
  <1>8. CASE RefreshDraws
    BY <1>2, <1>8 DEF RefreshDraws, RefreshWaits
  <1> QED BY <1>3, <1>4, <1>5, <1>6, <1>7, <1>8 DEF Refresh, Input

-----------------------------------------------------------------------------
(* The lock, and what it means for main.                                   *)

LEMMA LockKept ==
  ASSUME ViewTypes, RunTypes, LockInv, [Next]_vars
  PROVE  LockInv'
  <1> "main" \in Runners /\ "worker" \in Runners /\ "main" \in Threads \ {"worker"}
      /\ "worker" \in Threads \ {"main"} /\ None \notin Runners
    BY ViewAssumption DEF Runners, Threads
  <1> DEFINE Tested == Drawing \cup {"store", "active?", "copy", "show"}
  <1>1. CASE Worker
    <2>1. test' = test
      BY <1>1 DEF Worker
    <2>2. CASE SetLine("worker")
      <3>1. pc'["main"] = pc["main"] /\ pc'["worker"] = "redraw" /\ reporter = None
            /\ reporter' = "worker"
        BY <2>2, SetLineFrame
      <3>2. pc["main"] \notin Drawing
        BY <3>1 DEF LockInv
      <3> QED BY <2>1, <3>1, <3>2 DEF LockInv, Drawing
    <2>3. CASE Report("worker")
      <3>1. pc'["main"] = pc["main"] /\ pc["worker"] \in Drawing
        BY <2>3, ReportFrame
      <3>2. reporter = "worker" /\ pc["main"] \notin Drawing
        BY <3>1 DEF LockInv, Drawing
      <3>3. \/ pc'["worker"] \in Drawing /\ reporter' = reporter
            \/ pc'["worker"] = "idle"
        BY <2>3, ReportFrame
      <3> QED BY <2>1, <3>1, <3>2, <3>3 DEF LockInv
    <2> QED BY <1>1, <2>2, <2>3 DEF Worker
  <1>2. CASE Refresh
    <2>1. pc'["main"] = pc["main"] /\ pc'["worker"] = pc["worker"]
      BY <1>2, RefreshFrame
    <2>2. reporter' = reporter /\ test' = test
      BY <1>2 DEF Refresh
    <2> QED BY <2>1, <2>2 DEF LockInv
  <1>3. CASE UNCHANGED vars
    BY <1>3 DEF LockInv, vars
  <1>4. ASSUME MainRuns \/ MainIsInterrupted
        PROVE  LockInv'
    <2>1. pc'["worker"] = pc["worker"]
      BY <1>4, MainFrame
    <2>2. ASSUME NEW place, Go("main", place), place \notin Drawing, reporter' = reporter,
                 test' = test, place \in Tested => test \in Tests
          PROVE  LockInv'
      <3>1. pc'["main"] = place
        BY <2>2, GoFrame
      <3> QED BY <2>1, <2>2, <3>1 DEF LockInv
    <2>3. CASE Report("main")
      <3>1. pc["main"] \in Drawing
        BY <2>3, ReportFrame
      <3>2. reporter = "main" /\ test \in Tests /\ pc["worker"] = "idle"
        BY <3>1 DEF LockInv
      <3>3. \/ pc'["main"] \in Drawing /\ reporter' = reporter
            \/ pc'["main"] = "store"
        BY <2>3, ReportFrame
      <3>4. test' = test
        BY <1>4, <3>1
        DEF MainRuns, Runs, Ends, MainIsInterrupted, Interrupt, StopRefresh, NextTest, Drawing
      <3>5. "store" \notin Drawing
        BY DEF Drawing
      <3> QED BY <2>1, <3>2, <3>3, <3>4, <3>5 DEF LockInv
    <2>4. CASE NextTest
      <3>1. ASSUME SetLine("main"), test' \in Tests
            PROVE  LockInv'
        <4>1. pc'["main"] = "redraw" /\ reporter = None /\ reporter' = "main"
          BY <3>1, SetLineFrame
        <4>2. pc["worker"] = "idle"
          BY <4>1 DEF LockInv
        <4> QED BY <2>1, <3>1, <4>1, <4>2 DEF LockInv
      <3>2. ASSUME NEW place \in {"store", "add", "finish"}, Go("main", place),
                   reporter' = reporter, place = "store" => test' \in Tests
            PROVE  LockInv'
        <4>1. pc'["main"] = place
          BY <3>2, GoFrame
        <4> QED BY <2>1, <3>2, <4>1 DEF LockInv, Drawing
      <3> QED BY <2>4, <3>1, <3>2, GroupOfTests DEF NextTest
    <2>5. CASE RebuildGroup("main", "show") /\ UNCHANGED <<reporter, test>>
      <3>1. pc["main"] = "copy" /\ pc'["main"] \in {"copy", "show"}
        BY <2>5, RebuildFrame
      <3>2. test \in Tests
        BY <3>1 DEF LockInv
      <3> QED BY <2>1, <2>5, <3>1, <3>2 DEF LockInv, Drawing
    <2>6. CASE (AddTestItems \/ TestOverlay \/ RebuildOverlay \/ StoreOutput \/ OutputIsShown
                \/ MarkOutput)
               /\ UNCHANGED <<group, test, reporter, stop, disp>>
      <3>1. {"store", "active?", "show"} \cap {pc["main"]} # {} => test \in Tests
        BY DEF LockInv
      <3> QED
        BY <2>2, <2>6, <3>1
        DEF AddTestItems, TestOverlay, RebuildOverlay, StoreOutput, OutputIsShown, MarkOutput,
            StartRebuild, Drawing
    <2>7. CASE (TestsComplete \/ Join \/ Leave \/ StopRefresh)
               /\ UNCHANGED <<group, test, reporter>>
      BY <2>2, <2>7 DEF TestsComplete, Join, Leave, StopRefresh, Drawing
    <2>8. CASE Interrupt
      <3>1. pc'["main"] = "finish"
        BY <2>8, GoFrame DEF Interrupt
      <3>2. pc["worker"] # "idle" => reporter' = "worker"
        BY <2>8 DEF Interrupt, LockInv
      <3> QED BY <2>1, <3>1, <3>2 DEF LockInv, Drawing
    <2> QED
      BY <1>4, <2>3, <2>4, <2>5, <2>6, <2>7, <2>8
      DEF MainRuns, Runs, Ends, MainIsInterrupted
  <1> QED BY <1>1, <1>2, <1>3, <1>4 DEF Next, Done

(* Main cannot finish the group while a worker draws for one of its tests. *)
LEMMA WorkerKept ==
  ASSUME ViewTypes, RunTypes, LockInv, WorkerInv, DisplayTypes, [Next]_vars
  PROVE  WorkerInv'
  <1> "main" \in Runners /\ "worker" \in Runners /\ "main" \in Threads \ {"worker"}
      /\ "worker" \in Threads \ {"main"} /\ "main" \in Threads /\ None \notin Runners
    BY ViewAssumption DEF Runners, Threads
  <1>1. CASE Worker
    <2>1. pc'["main"] = pc["main"]
      BY <1>1, SetLineFrame, ReportFrame DEF Worker
    <2>2. seen'.interrupted = seen.interrupted /\ seen'.stored = seen.stored
      BY <1>1
      DEF Worker, Report, Redraw, TestInAlt, RunnerDraws, DrawBuffer, DisplayTypes, Flags
    <2>3. group' = group /\ test' = test
      BY <1>1 DEF Worker
    <2>4. CASE SetLine("worker") /\ ~seen.interrupted
      <3>1. pc["main"] \in Reporting /\ \E t \in groups[group] \ {test} : ~Stored(t)
        BY <1>1, <2>4, ReportFrame, SetLineFrame DEF Worker, WorkerInv, Drawing
      <3> QED BY <2>1, <2>2, <2>3, <3>1 DEF WorkerInv, Stored
    <2>5. CASE Report("worker")
      <3>1. pc["worker"] # "idle"
        BY <2>5, ReportFrame DEF Drawing
      <3> QED BY <2>1, <2>2, <2>3, <3>1 DEF WorkerInv, Stored
    <2>6. CASE seen.interrupted
      BY <2>2, <2>6 DEF WorkerInv
    <2> QED BY <1>1, <2>4, <2>5, <2>6 DEF Worker
  <1>2. CASE Refresh
    <2>1. pc'["main"] = pc["main"] /\ pc'["worker"] = pc["worker"]
      BY <1>2, RefreshFrame
    <2>2. group' = group /\ test' = test
      BY <1>2 DEF Refresh
    <2>3. seen'.interrupted = seen.interrupted /\ seen'.stored = seen.stored
      BY <1>2
      DEF Refresh, Wakes, Input, PressTab, PressClose, PressJump, PressBranch, ShowGroup,
          NoMoreInput, RefreshTests, RefreshDrawsPane, RefreshDraws, DrawPane, DrawBuffer,
          DisplayTypes, Flags
    <2> QED BY <2>1, <2>2, <2>3 DEF WorkerInv, Stored
  <1>3. CASE UNCHANGED vars
    BY <1>3 DEF WorkerInv, Stored, vars
  <1>4. ASSUME MainRuns \/ MainIsInterrupted
        PROVE  WorkerInv'
    <2>1. pc'["worker"] = pc["worker"]
      BY <1>4, MainFrame
    <2> SUFFICES ASSUME pc["worker"] # "idle", ~seen.interrupted, ~seen'.interrupted
                 PROVE  /\ pc'["main"] \in Reporting
                        /\ \E t \in groups[group'] \ {test'} : t \notin seen'.stored
      BY <2>1, <1>4
      DEF WorkerInv, Stored, MainRuns, MainIsInterrupted, Runs, Ends, AddTestItems, TestOverlay,
          RebuildOverlay, StoreOutput, OutputIsShown, MarkOutput, NextTest, Report, Redraw,
          TestInAlt, RunnerDraws, DrawBuffer, TestsComplete, Join, Leave, Interrupt, StopRefresh,
          DisplayTypes, Flags
    <2>2. reporter = "worker" /\ pc["main"] \in Reporting \ Drawing
      BY DEF LockInv, WorkerInv
    <2>3. PICK t \in groups[group] \ {test} : t \notin seen.stored
      BY DEF WorkerInv, Stored
    <2>4. ASSUME NEW place \in Reporting, Go("main", place), UNCHANGED <<group, test, seen>>
          PROVE  pc'["main"] \in Reporting /\ \E u \in groups[group'] \ {test'} : u \notin seen'.stored
      BY <2>3, <2>4, GoFrame
    <2>5. {"next", "store", "active?", "copy", "show"} \subseteq Reporting
      BY DEF Reporting
    <2>6. CASE NextTest
      BY <2>2, <2>3, <2>6 DEF NextTest, SetLine, Stored
    <2>7. CASE Report("main")
      BY <2>2, <2>7, ReportFrame
    <2>8. CASE RebuildGroup("main", "show") /\ UNCHANGED <<group, test, seen>>
      BY <2>3, <2>5, <2>8, RebuildFrame
    <2>9. CASE StoreOutput /\ UNCHANGED <<group, test>>
      <3>1. pc'["main"] = "active?"
        BY <2>9, GoFrame DEF StoreOutput
      <3>2. seen'.stored = seen.stored \cup {test}
        BY <2>9 DEF StoreOutput, DisplayTypes, Flags
      <3> QED BY <2>3, <2>5, <2>9, <3>1, <3>2
    <2>10. CASE (OutputIsShown \/ MarkOutput) /\ UNCHANGED <<group, test>>
      BY <2>4, <2>5, <2>10 DEF OutputIsShown, MarkOutput, StartRebuild
    <2>11. CASE AddTestItems \/ TestOverlay \/ RebuildOverlay \/ Interrupt \/ StopRefresh \/ Ends
      <3>1. CASE Interrupt
        BY <3>1 DEF Interrupt, DisplayTypes, Flags
      <3>2. pc["main"] \notin {"add", "overlay?", "rebuild", "finish", "wait", "join", "leave"}
        BY <2>2 DEF Reporting
      <3> QED
        BY <2>11, <3>1, <3>2
        DEF AddTestItems, TestOverlay, RebuildOverlay, StopRefresh, Ends, TestsComplete, Join, Leave
    <2> QED
      BY <1>4, <2>6, <2>7, <2>8, <2>9, <2>10, <2>11 DEF MainRuns, Runs, MainIsInterrupted
  <1> QED BY <1>1, <1>2, <1>3, <1>4 DEF Next, Done

-----------------------------------------------------------------------------
(* Nothing is drawn after the screen was left.                             *)

LEMMA LeaveKept ==
  ASSUME ViewTypes, DisplayTypes, RunTypes, LockInv, LeaveInv, [Next]_vars
  PROVE  LeaveInv'
  <1> /\ "main" \in Runners /\ "worker" \in Runners /\ "main" \in Threads
      /\ "main" \in Threads \ {"worker"} /\ "refresh" \in Threads \ {"worker"}
    BY DEF Runners, Threads
  <1>1. CASE Worker
    <2>1. pc'["main"] = pc["main"] /\ pc'["refresh"] = pc["refresh"]
      BY <1>1, SetLineFrame, ReportFrame DEF Worker
    <2>2. seen'.gave_up = seen.gave_up /\ in_alt' = in_alt
      BY <1>1
      DEF Worker, Report, Redraw, TestInAlt, RunnerDraws, DrawBuffer, disp, DisplayTypes, Flags
    <2> QED BY <2>1, <2>2 DEF LeaveInv
  <1>2. CASE Refresh
    <2>1. pc'["main"] = pc["main"] /\ pc["refresh"] # "ended"
      BY <1>2, RefreshFrame
    <2>2. seen'.gave_up = seen.gave_up
      BY <1>2
      DEF Refresh, Wakes, Input, PressTab, PressClose, PressJump, PressBranch, ShowGroup,
          NoMoreInput, RefreshTests, RefreshDrawsPane, RefreshDraws, DrawPane, DrawBuffer,
          DisplayTypes, Flags
    <2>3. in_alt' = in_alt
      BY <1>2 DEF Refresh
    <2> QED BY <2>1, <2>2, <2>3 DEF LeaveInv
  <1>3. CASE UNCHANGED vars
    BY <1>3 DEF LeaveInv, vars, disp
  <1>4. ASSUME MainRuns \/ MainIsInterrupted
        PROVE  LeaveInv'
    <2>1. pc'["refresh"] = pc["refresh"]
      BY <1>4, MainFrame
    <2>2. CASE Join /\ UNCHANGED disp
      <3>1. pc'["main"] = "leave" /\ pc["main"] = "join"
        BY <2>2, GoFrame DEF Join
      <3>2. ~seen'.gave_up => pc["refresh"] = "ended"
        BY <2>2 DEF Join, DisplayTypes, Flags
      <3> QED BY <2>1, <2>2, <3>1, <3>2 DEF LeaveInv, disp
    <2>3. CASE Leave /\ UNCHANGED seen
      <3>1. pc'["main"] = "left" /\ pc["main"] = "leave"
        BY <2>3, GoFrame DEF Leave
      <3> QED BY <2>1, <2>3, <3>1 DEF LeaveInv
    <2>4. ASSUME pc["main"] \notin {"leave", "left"}, pc'["main"] \notin {"leave", "left"},
                 in_alt' = in_alt, seen'.gave_up = seen.gave_up
          PROVE  LeaveInv'
      BY <2>4 DEF LeaveInv
    <2>5. CASE Report("main")
      <3>1. pc["main"] \in Drawing /\ pc'["main"] \in Drawing \cup {"store"}
        BY <2>5, ReportFrame
      <3>2. in_alt' = in_alt
        BY <2>5 DEF Report, Redraw, TestInAlt, RunnerDraws, disp
      <3>3. seen'.gave_up = seen.gave_up
        BY <2>5
        DEF Report, Redraw, TestInAlt, RunnerDraws, DrawBuffer, DisplayTypes, Flags
      <3> QED BY <2>4, <3>1, <3>2, <3>3 DEF Drawing
    <2>6. CASE NextTest /\ UNCHANGED disp
      <3>1. CASE SetLine("main")
        BY <2>4, <2>6, <3>1, SetLineFrame DEF NextTest, disp
      <3>2. CASE Go("main", "store") \/ Go("main", "add") \/ Go("main", "finish")
        BY <2>4, <2>6, <3>2, GoFrame DEF NextTest, disp
      <3> QED BY <2>6, <3>1, <3>2 DEF NextTest
    <2>7. CASE RebuildGroup("main", "show") /\ UNCHANGED <<disp, seen>>
      BY <2>4, <2>7, RebuildFrame DEF disp
    <2>8. ASSUME NEW place \in {"add", "overlay?", "rebuild", "next", "finish", "store", "active?",
                                "show", "copy", "wait", "join"},
                 Go("main", place), pc["main"] \notin {"leave", "left"}, UNCHANGED disp,
                 seen'.gave_up = seen.gave_up
          PROVE  LeaveInv'
      BY <2>4, <2>8, GoFrame DEF disp
    <2>9. CASE (AddTestItems \/ TestOverlay \/ RebuildOverlay \/ StoreOutput \/ OutputIsShown
                \/ MarkOutput)
               /\ UNCHANGED disp
      <3>1. seen'.gave_up = seen.gave_up
        BY <2>9
        DEF AddTestItems, TestOverlay, RebuildOverlay, StoreOutput, OutputIsShown, MarkOutput,
            DisplayTypes, Flags
      <3> QED
        BY <2>8, <2>9, <3>1
        DEF AddTestItems, TestOverlay, RebuildOverlay, StoreOutput, OutputIsShown, MarkOutput,
            StartRebuild
    <2>10. CASE (TestsComplete \/ StopRefresh) /\ UNCHANGED <<disp, seen>>
      BY <2>8, <2>10 DEF TestsComplete, StopRefresh
    <2>11. CASE Interrupt
      <3>1. seen'.gave_up = seen.gave_up
        BY <2>11 DEF Interrupt, DisplayTypes, Flags
      <3> QED BY <2>8, <2>11, <3>1 DEF Interrupt
    <2> QED
      BY <1>4, <2>2, <2>3, <2>5, <2>6, <2>7, <2>9, <2>10, <2>11
      DEF MainRuns, Runs, Ends, MainIsInterrupted
  <1> QED BY <1>1, <1>2, <1>3, <1>4 DEF Next, Done

(* A drawing on the normal screen: by a worker, or by a refresh thread     *)
(* that has outlived the join.                                             *)
LEMMA LateKept ==
  ASSUME ViewTypes, DisplayTypes, RunTypes, LockInv, WorkerInv, LeaveInv,
         NothingDrawnAfterLeave, [Next]_vars
  PROVE  NothingDrawnAfterLeave'
  <1> "main" \in Runners /\ "worker" \in Runners
    BY DEF Runners
  <1>1. ASSUME seen'.late => seen.late \/ seen.interrupted \/ seen.gave_up,
               seen.interrupted => seen'.interrupted, seen.gave_up => seen'.gave_up
        PROVE  NothingDrawnAfterLeave'
    BY <1>1 DEF NothingDrawnAfterLeave
  <1>2. CASE UNCHANGED seen
    BY <1>1, <1>2
  <1>3. ASSUME NEW p \in Runners, Report(p)
        PROVE  NothingDrawnAfterLeave'
    <2>1. CASE RunnerDraws(p)
      <3>1. ~in_alt => seen.interrupted
        <4>1. CASE p = "main"
          BY <2>1, <4>1 DEF RunnerDraws, LeaveInv
        <4>2. CASE p = "worker"
          BY <2>1, <4>2 DEF RunnerDraws, LeaveInv, WorkerInv, Reporting
        <4> QED BY <4>1, <4>2 DEF Runners
      <3>2. seen'.late = (seen.late \/ ~in_alt) /\ seen'.interrupted = seen.interrupted
              /\ seen'.gave_up = seen.gave_up
        BY <2>1 DEF RunnerDraws, DrawBuffer, DisplayTypes, Flags
      <3> QED BY <1>1, <3>1, <3>2
    <2>2. CASE UNCHANGED seen
      BY <1>2, <2>2
    <2> QED BY <1>3, <2>1, <2>2 DEF Report, Redraw, TestInAlt
  <1>4. CASE RefreshDraws \/ RefreshDrawsPane
    <2>1. ~in_alt => seen.gave_up
      BY <1>4 DEF RefreshDraws, RefreshDrawsPane, LeaveInv
    <2>2. seen'.late = (seen.late \/ ~in_alt) /\ seen'.interrupted = seen.interrupted
            /\ seen'.gave_up = seen.gave_up
      BY <1>4 DEF RefreshDraws, RefreshDrawsPane, DrawBuffer, DrawPane, DisplayTypes, Flags
    <2> QED BY <1>1, <2>1, <2>2
  <1>5. CASE RebuildOverlay \/ StoreOutput \/ Interrupt
    BY <1>1, <1>5 DEF RebuildOverlay, StoreOutput, Interrupt, DisplayTypes, Flags
  <1>6. CASE Join
    <2>1. ~seen.gave_up
      BY <1>6 DEF Join, LeaveInv
    <2> QED BY <1>1, <1>6, <2>1 DEF Join, DisplayTypes, Flags
  <1>7. CASE PressJump \/ PressBranch
    BY <1>1, <1>7 DEF PressJump, PressBranch, DisplayTypes, Flags
  <1> QED
    BY <1>2, <1>3, <1>4, <1>5, <1>6, <1>7
    DEF Next, MainRuns, Runs, Ends, MainIsInterrupted, Worker, Refresh, Wakes, Input, PressTab,
        PressClose, ShowGroup, NoMoreInput, RefreshTests, AddTestItems, TestOverlay,
        OutputIsShown, MarkOutput, NextTest, Done, vars

-----------------------------------------------------------------------------
(* The output of a test.                                                   *)

(* The key, if it is that of a single test, is of an opened one.           *)
Opens(key) == \A t \in Tests : key = {t} => t \in seen'.opened

LEMMA SeenGrows ==
  ASSUME DisplayTypes, [Next]_vars
  PROVE  /\ seen.opened \subseteq seen'.opened
         /\ seen'.stored = seen.stored \/ StoreOutput
  <1> DEFINE Grows == seen.opened \subseteq seen'.opened /\ seen'.stored = seen.stored
  <1>1. CASE UNCHANGED seen
    BY <1>1
  <1>2. CASE RebuildOverlay \/ Join \/ Interrupt
    BY <1>2 DEF RebuildOverlay, Join, Interrupt, DisplayTypes, Flags
  <1>3. CASE StoreOutput
    BY <1>3 DEF StoreOutput, DisplayTypes, Flags
  <1>4. ASSUME NEW p \in Runners, Report(p)
        PROVE  Grows
    BY <1>4 DEF Report, Redraw, TestInAlt, RunnerDraws, DrawBuffer, DisplayTypes, Flags
  <1>5. CASE RefreshDraws \/ RefreshDrawsPane
    BY <1>5 DEF RefreshDraws, RefreshDrawsPane, DrawBuffer, DrawPane, DisplayTypes, Flags
  <1>6. CASE PressJump
    BY <1>6 DEF PressJump, DisplayTypes, Flags
  <1>7. CASE PressBranch
    BY <1>7 DEF PressBranch, DisplayTypes, Flags
  <1>8. CASE MainRuns \/ MainIsInterrupted
    BY <1>1, <1>2, <1>3, <1>4, <1>8
    DEF MainRuns, MainIsInterrupted, Runs, Ends, AddTestItems, TestOverlay, OutputIsShown,
        MarkOutput, NextTest, Runners
  <1>9. CASE Worker
    BY <1>1, <1>4, <1>9 DEF Worker, Runners
  <1>10. CASE Refresh
    BY <1>1, <1>5, <1>6, <1>7, <1>10
    DEF Refresh, Input, Wakes, PressTab, PressClose, ShowGroup, NoMoreInput, RefreshTests
  <1>11. CASE UNCHANGED vars
    BY <1>1, <1>11 DEF vars
  <1> QED BY <1>8, <1>9, <1>10, <1>11 DEF Next, Done

(* A thread that keeps a key or drops it opens none. *)
LEMMA OpenedByKeys ==
  ASSUME ViewTypes, DisplayTypes, OpenedInv, seen.opened \subseteq seen'.opened,
         NEW p \in Threads, NEW b \in Buffer,
         UNCHANGED loc \/ loc' = [loc EXCEPT ![p] = b],
         b = NoBuffer \/ b.key = {} \/ Opens(b.key),
         UNCHANGED active \/ active' = {} \/ Opens(active')
  PROVE  OpenedInv'
  <1>1. \A t \in Tests : active' = {t} => t \in seen'.opened
    BY DEF OpenedInv, Opens
  <1>2. \A t \in Tests : b.key = {t} => t \in seen'.opened
    BY DEF Opens, NoBuffer
  <1>3. \A t \in Tests : \A q \in Threads : loc'[q].key = {t} => t \in seen'.opened
    BY <1>2 DEF OpenedInv, ViewTypes
  <1> QED BY <1>1, <1>3 DEF OpenedInv

LEMMA EmptyKeys ==
  /\ NoBuffer.key = {} /\ [NoBuffer EXCEPT !.summary = TRUE].key = {}
  /\ \A lines : [NoBuffer EXCEPT !.tests = lines].key = {}
  /\ \A key : [NoBuffer EXCEPT !.key = key, !.todo = key].key = key
  BY DEF NoBuffer

LEMMA OpenedKept ==
  ASSUME ViewTypes, RunTypes, DisplayTypes, OpenedInv, [Next]_vars
  PROVE  OpenedInv'
  <1> "main" \in Threads /\ "worker" \in Threads /\ "refresh" \in Threads
      /\ "main" \in Runners /\ "worker" \in Runners
    BY ThreadNames DEF Runners
  <1>0. seen.opened \subseteq seen'.opened /\ NoBuffer \in Buffer
    BY SeenGrows, SomeBuffers
  <1>1. ASSUME NEW p \in Threads, UNCHANGED loc \/ loc' = [loc EXCEPT ![p] = NoBuffer],
               UNCHANGED active \/ active' = {} \/ Opens(active')
        PROVE  OpenedInv'
    BY <1>0, <1>1, OpenedByKeys
  <1>2. ASSUME NEW p \in Threads, ActiveBuffer(p)
        PROVE  OpenedInv'
    <2>1. UNCHANGED active
      BY <1>2 DEF ActiveBuffer, IsSummary, GetBuffer, FillBuffer, view
    <2>2. CASE IsSummary(p)
      <3> DEFINE b == [NoBuffer EXCEPT !.summary = TRUE]
      <3>1. b \in Buffer /\ b.key = {}
        BY SomeBuffers, EmptyKeys
      <3>2. UNCHANGED loc \/ loc' = [loc EXCEPT ![p] = b]
        BY <2>2 DEF IsSummary
      <3> HIDE DEF b
      <3> QED BY <1>0, <2>1, <3>1, <3>2, OpenedByKeys
    <2>3. CASE GetBuffer(p)
      <3> DEFINE b == [NoBuffer EXCEPT !.tests = buffers[active]]
      <3>1. CASE active # {} /\ buffers[active] # None
        <4>1. buffers[active] \in SUBSET Tests
          BY <3>1 DEF ViewTypes
        <4>2. b \in Buffer /\ b.key = {}
          BY <4>1, SomeBuffers, EmptyKeys
        <4>3. loc' = [loc EXCEPT ![p] = b]
          BY <2>3, <3>1 DEF GetBuffer
        <4> HIDE DEF b
        <4> QED BY <1>0, <2>1, <4>2, <4>3, OpenedByKeys
      <3>2. CASE ~(active # {} /\ buffers[active] # None)
        BY <1>1, <2>1, <2>3, <3>2 DEF GetBuffer
      <3> QED BY <3>1, <3>2
    <2>4. CASE FillBuffer(p)
      BY <1>1, <2>1, <2>4 DEF FillBuffer
    <2> QED BY <1>2, <2>2, <2>3, <2>4 DEF ActiveBuffer
  <1>3. ASSUME NEW p \in Threads, RebuildGroup(p, "show")
        PROVE  OpenedInv'
    <2>1. \A q \in Threads : loc'[q].key = loc[q].key
      BY <1>3, RebuildFrame
    <2>2. UNCHANGED active
      BY <1>3 DEF RebuildGroup
    <2> QED BY <1>0, <2>1, <2>2 DEF OpenedInv
  <1>4. ASSUME NEW p \in Threads, NEW key \in SUBSET Tests, StartRebuild(p, key),
               UNCHANGED active, Opens(key)
        PROVE  OpenedInv'
    <2> DEFINE b == [NoBuffer EXCEPT !.key = key, !.todo = key]
    <2>1. b \in Buffer /\ b.key = key
      BY SomeBuffers, EmptyKeys
    <2>2. loc' = [loc EXCEPT ![p] = b]
      BY <1>4 DEF StartRebuild
    <2> HIDE DEF b
    <2> QED BY <1>0, <1>4, <2>1, <2>2, OpenedByKeys
  <1>5. ASSUME NEW p \in Runners, Report(p)
        PROVE  OpenedInv'
    <2>1. CASE ActiveBuffer(p)
      BY <1>2, <2>1 DEF Threads
    <2>2. CASE Redraw(p) \/ TestInAlt(p) \/ RunnerDraws(p)
      BY <1>1, <2>2 DEF Redraw, TestInAlt, RunnerDraws, Release, view, Threads
    <2> QED BY <1>5, <2>1, <2>2 DEF Report
  <1>6. ASSUME NEW p \in Runners, SetLine(p)
        PROVE  OpenedInv'
    BY <1>1, <1>6 DEF SetLine, Threads
  <1>7. CASE AddTestItems \/ TestOverlay \/ RebuildOverlay \/ StoreOutput \/ MarkOutput
             \/ Interrupt \/ (StopRefresh /\ UNCHANGED <<loc, view>>) \/ TestsComplete
             \/ ((Join \/ Leave) /\ UNCHANGED <<loc, view>>)
    BY <1>1, <1>7
    DEF AddTestItems, TestOverlay, RebuildOverlay, StoreOutput, MarkOutput, Interrupt,
        StopRefresh, TestsComplete, Join, Leave, view
  <1>8. CASE OutputIsShown
    <2>1. CASE UNCHANGED <<loc, view>>
      BY <1>1, <2>1 DEF view
    <2>2. CASE StartRebuild("main", active) /\ UNCHANGED view
      <3>1. Opens(active) /\ active \in SUBSET Tests
        BY <1>0 DEF Opens, OpenedInv, ViewTypes
      <3> QED BY <1>4, <2>2, <3>1 DEF view
    <2> QED BY <1>8, <2>1, <2>2 DEF OutputIsShown
  <1>9. CASE NextTest
    BY <1>1, <1>6, <1>9 DEF NextTest, view
  <1>10. CASE Wakes \/ PressTab \/ PressClose \/ NoMoreInput
    BY <1>1, <1>10 DEF Wakes, PressTab, PressClose, NoMoreInput, view
  <1>11. CASE PressJump
    <2>1. PICK t \in overlay : active' = {t} /\ seen' = [seen EXCEPT !.opened = @ \cup {t}]
      BY <1>11 DEF PressJump
    <2>2. t \in seen'.opened
      BY <2>1 DEF DisplayTypes, Flags
    <2>3. Opens(active')
      BY <2>1, <2>2 DEF Opens
    <2> QED BY <1>1, <1>11, <2>3 DEF PressJump
  <1>12. CASE PressBranch
    <2>1. PICK b \in Branches :
            /\ StartRebuild("refresh", b \cap tree)
            /\ seen' = [seen EXCEPT !.opened = @ \cup
                          (IF Cardinality(b \cap tree) = 1 THEN b \cap tree ELSE {})]
      BY <1>12 DEF PressBranch
    <2>2. ASSUME NEW t \in Tests, b \cap tree = {t}
          PROVE  t \in seen'.opened
      <3>1. Cardinality(b \cap tree) = 1
        BY <2>2, FS_Singleton
      <3> QED BY <2>1, <2>2, <3>1 DEF DisplayTypes, Flags
    <2>3. b \cap tree \in SUBSET Tests /\ Opens(b \cap tree)
      BY <2>2 DEF Opens, ViewTypes
    <2> QED BY <1>4, <1>12, <2>1, <2>3 DEF PressBranch, view
  <1>13. CASE ShowGroup
    <2>1. Opens(active')
      BY <1>0, <1>13 DEF ShowGroup, Opens, OpenedInv
    <2>2. loc' = [loc EXCEPT !["refresh"] = NoBuffer]
      BY <1>13 DEF ShowGroup
    <2> QED BY <1>1, <2>1, <2>2
  <1>14. CASE (ConsumeDirty /\ UNCHANGED <<loc, active>>)
              \/ ((RefreshTests \/ RefreshDrawsPane \/ RefreshDraws) /\ UNCHANGED active)
    <2>1. UNCHANGED loc \/ loc' = [loc EXCEPT !["refresh"] = NoBuffer]
      BY <1>14 DEF RefreshTests, RefreshDrawsPane, RefreshDraws, RefreshWaits
    <2> QED BY <1>1, <1>14, <2>1
  <1>15. CASE UNCHANGED vars
    BY <1>1, <1>15 DEF vars, view
  <1>16. CASE MainRuns \/ MainIsInterrupted
    BY <1>3, <1>5, <1>7, <1>8, <1>9, <1>16 DEF MainRuns, MainIsInterrupted, Runs, Ends
  <1>17. CASE Worker
    BY <1>5, <1>6, <1>17 DEF Worker
  <1>18. CASE Refresh
    BY <1>2, <1>3, <1>10, <1>11, <1>12, <1>13, <1>14, <1>18 DEF Refresh, Input
  <1> QED BY <1>15, <1>16, <1>17, <1>18 DEF Next, Done

(* What is written to the buffer of a single test that nobody opened is    *)
(* its output.                                                             *)
LEMMA OutputKeptUnlessOpened ==
  ASSUME ViewTypes, RunTypes, DisplayTypes, LockInv, OpenedInv, OutputLostOnlyIfOpened,
         [Next]_vars
  PROVE  OutputLostOnlyIfOpened'
  <1> "main" \in Threads /\ "worker" \in Threads /\ "refresh" \in Threads
      /\ "main" \in Runners /\ "worker" \in Runners
    BY ThreadNames DEF Runners
  <1>0. /\ seen.opened \subseteq seen'.opened
        /\ seen.stored \subseteq Tests
    BY SeenGrows DEF DisplayTypes, Flags
  <1>1. ASSUME ~StoreOutput,
               \A t \in Tests \ seen.opened : buffers'[{t}] = buffers[{t}]
        PROVE  OutputLostOnlyIfOpened'
    <2>1. seen'.stored = seen.stored
      BY <1>1, SeenGrows
    <2> QED BY <1>0, <1>1, <2>1 DEF OutputLostOnlyIfOpened
  <1>2. CASE StoreOutput
    <2>1. test \in Tests /\ seen'.stored = seen.stored \cup {test} /\ seen'.opened = seen.opened
      BY <1>2 DEF StoreOutput, LockInv, DisplayTypes, Flags
    <2>2. {test} \in (SUBSET Tests) \ {{}}
      BY <2>1
    <2>3. buffers'[{test}] = {test}
      BY <1>2, <2>2 DEF StoreOutput, ViewTypes
    <2>4. \A t \in Tests \ {test} : buffers'[{t}] = buffers[{t}]
      BY <1>2 DEF StoreOutput, ViewTypes
    <2> QED BY <1>0, <2>1, <2>3, <2>4 DEF OutputLostOnlyIfOpened
  <1>3. ASSUME UNCHANGED buffers, ~StoreOutput
        PROVE  OutputLostOnlyIfOpened'
    BY <1>1, <1>3
  <1>4. ASSUME NEW p \in Threads, ActiveBuffer(p), ~StoreOutput
        PROVE  OutputLostOnlyIfOpened'
    <2>1. CASE FillBuffer(p) /\ active # {}
      <3>1. \A t \in Tests \ seen.opened : active # {t}
        BY DEF OpenedInv
      <3>2. \A t \in Tests \ seen.opened : buffers'[{t}] = buffers[{t}]
        BY <2>1, <3>1 DEF FillBuffer, ViewTypes
      <3> QED BY <1>1, <1>4, <3>2
    <2>2. CASE UNCHANGED buffers
      BY <1>3, <1>4, <2>2
    <2> QED BY <1>4, <2>1, <2>2 DEF ActiveBuffer, IsSummary, GetBuffer, FillBuffer, view
  <1>5. ASSUME NEW p \in Threads, RebuildGroup(p, "show"), ~StoreOutput
        PROVE  OutputLostOnlyIfOpened'
    <2>1. CASE StoreGroup(p)
      <3>1. \A t \in Tests \ seen.opened : loc[p].key # {t}
        BY DEF OpenedInv
      <3>2. \A t \in Tests \ seen.opened : buffers'[{t}] = buffers[{t}]
        BY <2>1, <3>1 DEF StoreGroup, ViewTypes
      <3> QED BY <1>1, <1>5, <3>2
    <2> QED BY <1>3, <1>5, <2>1 DEF RebuildGroup
  <1>6. ASSUME NEW p \in Runners, Report(p), ~StoreOutput
        PROVE  OutputLostOnlyIfOpened'
    <2>1. CASE ActiveBuffer(p)
      BY <1>4, <1>6, <2>1 DEF Threads
    <2> QED BY <1>3, <1>6, <2>1 DEF Report, Redraw, TestInAlt, RunnerDraws, view
  <1>7. ASSUME MainRuns \/ MainIsInterrupted, ~StoreOutput
        PROVE  OutputLostOnlyIfOpened'
    <2>1. CASE AddTestItems \/ TestOverlay \/ RebuildOverlay \/ OutputIsShown \/ MarkOutput
               \/ NextTest \/ Interrupt \/ TestsComplete \/ UNCHANGED view
      BY <1>3, <1>7, <2>1
      DEF AddTestItems, TestOverlay, RebuildOverlay, OutputIsShown, MarkOutput, NextTest, SetLine,
          Interrupt, TestsComplete, view
    <2> QED
      BY <1>5, <1>6, <1>7, <2>1 DEF MainRuns, MainIsInterrupted, Runs, Ends
  <1>8. ASSUME Worker, ~StoreOutput
        PROVE  OutputLostOnlyIfOpened'
    BY <1>3, <1>6, <1>8 DEF Worker, SetLine
  <1>9. ASSUME Refresh, ~StoreOutput
        PROVE  OutputLostOnlyIfOpened'
    <2>1. CASE Wakes \/ PressTab \/ PressClose \/ PressJump \/ PressBranch \/ ShowGroup
               \/ NoMoreInput
      BY <1>3, <1>9, <2>1
      DEF Wakes, PressTab, PressClose, PressJump, PressBranch, ShowGroup, NoMoreInput, view
    <2> QED BY <1>3, <1>4, <1>5, <1>9, <2>1 DEF Refresh, Input
  <1>10. CASE UNCHANGED vars
    BY <1>10 DEF OutputLostOnlyIfOpened, vars, view
  <1> QED BY <1>2, <1>7, <1>8, <1>9, <1>10 DEF Next, Done

-----------------------------------------------------------------------------
(* The specification.                                                      *)

LEMMA LiveViewStarts == Init => LiveViewInv
  <1> SUFFICES ASSUME Init PROVE LiveViewInv
    OBVIOUS
  <1>1. ViewTypes /\ RunTypes /\ DisplayTypes
    BY TypesAtStart
  <1>2. LockInv /\ WorkerInv /\ LeaveInv
    BY DEF Init, LockInv, WorkerInv, LeaveInv, Drawing
  <1>3. OpenedInv
    BY DEF Init, OpenedInv, NoBuffer
  <1>4. OutputLostOnlyIfOpened /\ NothingDrawnAfterLeave
    BY DEF Init, OutputLostOnlyIfOpened, NothingDrawnAfterLeave
  <1> QED BY <1>1, <1>2, <1>3, <1>4 DEF LiveViewInv

LEMMA LiveViewSteps == LiveViewInv /\ [Next]_vars => LiveViewInv'
  <1> SUFFICES ASSUME LiveViewInv, [Next]_vars PROVE LiveViewInv'
    OBVIOUS
  <1> USE DEF LiveViewInv
  <1>1. ViewTypes'
    <2>1. CASE Worker
      BY <2>1, RunnerViewTypes DEF Worker, Runners
    <2>2. CASE UNCHANGED vars
      BY <2>2 DEF ViewTypes, vars, view
    <2> QED BY <2>1, <2>2, MainViewTypes, RefreshViewTypes DEF Next, Done
  <1>2. RunTypes'
    BY RunTypesKept
  <1>3. DisplayTypes'
    BY DisplayTypesKept
  <1>4. LockInv'
    BY LockKept
  <1>5. WorkerInv'
    BY WorkerKept
  <1>6. LeaveInv'
    BY LeaveKept
  <1>7. OpenedInv'
    BY OpenedKept
  <1>8. OutputLostOnlyIfOpened'
    BY OutputKeptUnlessOpened
  <1>9. NothingDrawnAfterLeave'
    BY LateKept
  <1> QED BY <1>1, <1>2, <1>3, <1>4, <1>5, <1>6, <1>7, <1>8, <1>9

LEMMA LiveViewInvariant == Spec => []LiveViewInv
  BY LiveViewStarts, LiveViewSteps, PTL DEF Spec

(* The variables of the live view keep their types, and a worker that      *)
(* draws holds the lock of the _LiveReporter unless a SIGINT has broken    *)
(* into the main thread.                                                   *)
THEOREM ViewTypeCorrect == Spec => []TypeInv
  <1>1. LiveViewInv => TypeInv
    BY DEF LiveViewInv, TypeInv, ViewTypes, RunTypes, DisplayTypes, LockInv
  <1> QED BY <1>1, LiveViewInvariant, PTL

(* The output that set_test_output stored for a test stays the output of   *)
(* that test, however the view is switched, rebuilt or filled with nothing *)
(* while the tests finish - as long as nobody opens the test alone.        *)
THEOREM OutputSurvivesOtherViews == Spec => []OutputLostOnlyIfOpened
  <1>1. LiveViewInv => OutputLostOnlyIfOpened
    BY DEF LiveViewInv
  <1> QED BY <1>1, LiveViewInvariant, PTL

(* wait_and_leave joins the refresh thread, and no worker of the pool is   *)
(* left: nothing is drawn on the normal screen, unless a SIGINT left a     *)
(* worker behind or the join gave up after its two seconds.                *)
THEOREM ScreenLeftAlone == Spec => []NothingDrawnAfterLeave
  <1>1. LiveViewInv => NothingDrawnAfterLeave
    BY DEF LiveViewInv
  <1> QED BY <1>1, LiveViewInvariant, PTL
===============================================================================

-------------------------- MODULE WorkerPoolProofs --------------------------
(***************************************************************************)
(* Proofs about WorkerPool, for any group, any pool and any faults.        *)
(***************************************************************************)
EXTENDS WorkerPool, FiniteSetTheorems, TLAPS

(* NumItems and NumPills are natural numbers, and there is an item.        *)
LEMMA SizesAreNat == NumItems \in Nat /\ NumPills \in Nat /\ NumItems > 0
  BY PoolAssumption, FS_CardinalityType DEF NumItems, NumPills

(* A worker changes nothing of what only the main thread writes. *)
LEMMA WorkerFrame == ASSUME NEW w \in Workers, Worker(w)
                     PROVE  UNCHANGED mainOnly
  BY DEF Worker, Get, CheckCancelled, EnterSetup, SetupPasses, SetupFails,
         MarkRunning, RunTest, MarkCallDone, RunFinalizers, MakeReport,
         MakeReportRaises, Rescue, CaptureOutput, PutResult, workerMoves

(* The types of the main thread hold while its variables do not change. *)
LEMMA MainTypeFrame == ASSUME MainTypeOK, ReportHasItem, UNCHANGED mainOnly
                       PROVE  MainTypeOK' /\ ReportHasItem'
  BY DEF MainTypeOK, ReportHasItem, Reporting, mainOnly, loop, stop, session

(* The assignments to the locals of a worker keep their type. *)
LEMMA LocalsUpdate ==
  ASSUME NEW f \in [Workers -> Locals], NEW w \in Workers
  PROVE  /\ [f EXCEPT ![w].setup = "ok"] \in [Workers -> Locals]
         /\ [f EXCEPT ![w].setup = "failed"] \in [Workers -> Locals]
         /\ [f EXCEPT ![w].call = "unexpected"] \in [Workers -> Locals]
         /\ [f EXCEPT ![w].call = "returned", ![w].out = TRUE]
                \in [Workers -> Locals]
         /\ [f EXCEPT ![w].td = TRUE] \in [Workers -> Locals]
         /\ [f EXCEPT ![w] = NoLocals] \in [Workers -> Locals]
  <1>1. f[w] \in Locals
    OBVIOUS
  <1>2. /\ [f[w] EXCEPT !.setup = "ok"] \in Locals
        /\ [f[w] EXCEPT !.setup = "failed"] \in Locals
        /\ [f[w] EXCEPT !.call = "unexpected"] \in Locals
        /\ [f[w] EXCEPT !.td = TRUE] \in Locals
        /\ [f[w] EXCEPT !.out = TRUE] \in Locals
        /\ NoLocals \in Locals
    BY <1>1 DEF Locals, NoLocals
  <1>3. [f[w] EXCEPT !.call = "returned", !.out = TRUE] \in Locals
    BY <1>1 DEF Locals
  <1>4. [f EXCEPT ![w].call = "returned", ![w].out = TRUE] \in [Workers -> Locals]
     BY <1>3
  <1> QED BY <1>2, <1>4

(* What a get takes from a queue and what it leaves. *)
LEMMA TailType == ASSUME NEW S, NEW q \in Seq(S), q # <<>>
                  PROVE  Head(q) \in S /\ Tail(q) \in Seq(S)
  OBVIOUS

(* A step of a worker preserves the types of what a worker may write. *)
LEMMA WorkerTypeStep ==
  ASSUME NEW w \in Workers, TypeInv, Worker(w)
  PROVE  QueueTypeOK' /\ WorkerTypeOK' /\ ResultTypeOK' /\ BusyHasItem'
  <1> USE PoolAssumption, SizesAreNat
      DEF TypeInv, TypeOK, QueueTypeOK, WorkerTypeOK, ResultTypeOK, BusyHasItem,
          Idle, Goto, mainOnly, workerMoves, queues, workers, shared, WorkerPlaces, Locals,
          NoLocals, ResultEntry
  <1>1. CASE Get(w)
    <2>1. /\ work_queue \in Seq(ParallelSet \cup {None})
          /\ wpc \in [Workers -> WorkerPlaces] /\ wpc[w] = "get"
          /\ work_item \in [Workers -> ParallelSet \cup {None}]
          /\ locals \in [Workers -> Locals]
          /\ work_queue # <<>> /\ work_queue' = Tail(work_queue)
          /\ UNCHANGED <<result_queue, shared, item_state, fixtures, mainOnly>>
      BY <1>1 DEF Get
    <2>2. /\ Tail(work_queue) \in Seq(ParallelSet \cup {None})
          /\ Head(work_queue) \in ParallelSet \cup {None}
      BY <2>1, TailType
    <2>3. QueueTypeOK' /\ ResultTypeOK'
      BY <2>1, <2>2
    <2>4. CASE Head(work_queue) = None
      <3>1. /\ wpc' = [wpc EXCEPT ![w] = "exited"]
            /\ UNCHANGED <<work_item, locals>>
        BY <1>1, <2>4 DEF Get
      <3> QED BY <2>1, <2>3, <3>1
    <2>5. CASE Head(work_queue) # None
      <3>1. /\ wpc' = [wpc EXCEPT ![w] = "taken"]
            /\ work_item' = [work_item EXCEPT ![w] = Head(work_queue)]
            /\ locals' = [locals EXCEPT ![w] = NoLocals]
        BY <1>1, <2>5 DEF Get
      <3>2. locals' \in [Workers -> Locals]
        BY <2>1, <3>1, LocalsUpdate
      <3> QED BY <2>1, <2>2, <2>3, <2>5, <3>1, <3>2
    <2> QED BY <2>4, <2>5
  <1>2. CASE CheckCancelled(w)
    BY <1>2 DEF CheckCancelled
  <1>3. CASE EnterSetup(w)
    BY <1>3 DEF EnterSetup
  <1>4. CASE SetupPasses(w)
    BY <1>4 DEF SetupPasses
  <1>5. CASE SetupFails(w)
    <2> USE <1>5 DEF SetupFails
    <2>1. locals' \in [Workers -> Locals]
      BY LocalsUpdate
    <2>2. PICK partial \in {"none", "up"} :
                 fixtures' = [fixtures EXCEPT ![work_item[w]] = partial]
      OBVIOUS
    <2> QED BY <2>1, <2>2
  <1>6. CASE MarkRunning(w)
    BY <1>6 DEF MarkRunning
  <1>7. CASE RunTest(w)
    <2> USE <1>7 DEF RunTest
    <2>1. locals' \in [Workers -> Locals]
      BY LocalsUpdate
    <2> QED BY <2>1
  <1>8. CASE MarkCallDone(w)
    BY <1>8 DEF MarkCallDone
  <1>9. CASE RunFinalizers(w)
    BY <1>9 DEF RunFinalizers
  <1>10. CASE MakeReport(w)
    BY <1>10 DEF MakeReport
  <1>11. CASE MakeReportRaises(w)
    BY <1>11 DEF MakeReportRaises
  <1>12. CASE Rescue(w)
    <2> USE <1>12 DEF Rescue
    <2>1. locals' \in [Workers -> Locals]
      BY LocalsUpdate
    <2>2. \/ wpc' = [wpc EXCEPT ![w] = "capture"]
          \/ wpc' = [wpc EXCEPT ![w] = "dying"]
      OBVIOUS
    <2>3. \/ setup_passed' = setup_passed
          \/ setup_passed' = [setup_passed EXCEPT ![work_item[w]] = "failed"]
      OBVIOUS
    <2>4. CASE wpc' = [wpc EXCEPT ![w] = "capture"]
      <3>1. WorkerTypeOK' /\ BusyHasItem'
        BY <2>1, <2>4
      <3> QED BY <2>3, <3>1
    <2>5. CASE wpc' = [wpc EXCEPT ![w] = "dying"]
      <3>1. WorkerTypeOK' /\ BusyHasItem'
        BY <2>1, <2>5
      <3> QED BY <2>3, <3>1
    <2> QED BY <2>2, <2>4, <2>5
  <1>13. CASE CaptureOutput(w)
    BY <1>13 DEF CaptureOutput
  <1>14. CASE PutResult(w)
    <2> USE <1>14 DEF PutResult
    <2>1. [item |-> work_item[w], call |-> locals[w].call # "none"] \in ResultEntry
      OBVIOUS
    <2>2. QueueTypeOK'
      BY <2>1
    <2>3. WorkerTypeOK' /\ BusyHasItem'
      OBVIOUS
    <2> QED BY <2>2, <2>3
  <1> QED BY <1>1, <1>2, <1>3, <1>4, <1>5, <1>6, <1>7, <1>8, <1>9, <1>10,
             <1>11, <1>12, <1>13, <1>14 DEF Worker

(* So does a step of the main thread, or the interrupt. *)
LEMMA MainTypeStep ==
  ASSUME TypeInv, Main \/ Interrupt
  PROVE  TypeInv'
  <1> USE PoolAssumption, SizesAreNat
      DEF TypeInv, TypeOK, QueueTypeOK, WorkerTypeOK, ResultTypeOK, MainTypeOK,
          BusyHasItem, ReportHasItem, Reporting, Idle, workerOnly, elsewhere, outside, queues,
          workers, shared, loop, session, stop, MainPlaces, NumItems,
          ResultEntry, LogEntry
  <1>1. CASE Spawn
    BY <1>1 DEF Spawn, WorkerPlaces
  <1>2. CASE Submit
    <2>1. /\ sent \in Nat /\ sent < NumItems /\ sent' = sent + 1
          /\ work_queue \in Seq(ParallelSet \cup {None})
          /\ work_queue' = Append(work_queue, parallel_items[sent + 1])
          /\ mpc = "submit" /\ mpc' \in {"submit", "collect"}
          /\ UNCHANGED <<result_queue, workerOnly, call_results, item_state,
                         resume, current, loop, reported, log, stop, session>>
      BY <1>2 DEF Submit
    <2>2. parallel_items[sent + 1] \in ParallelSet
      BY <2>1
    <2>3. work_queue' \in Seq(ParallelSet \cup {None})
      BY <2>1, <2>2
    <2>4. QueueTypeOK'
      BY <2>1, <2>3
    <2>5. MainTypeOK' /\ ReportHasItem'
      BY <2>1
    <2> QED BY <2>1, <2>4, <2>5
  <1>3. CASE Collect
    <2> USE <1>3 DEF Collect
    <2>1. /\ Tail(result_queue) \in Seq(ResultEntry)
          /\ Head(result_queue) \in ResultEntry
      BY TailType
    <2>2. Head(result_queue).item \in ParallelSet
      BY <2>1
    <2>3. QueueTypeOK'
      BY <2>1
    <2>4. ResultTypeOK' /\ WorkerTypeOK' /\ BusyHasItem'
      BY <2>2
    <2>5. CASE TcActive
      <3>1. /\ ready' = ready \cup {Head(result_queue).item}
            /\ collected' = collected + 1 /\ collected < NumItems
            /\ mpc' = "drain" /\ UNCHANGED <<current, resume>>
        BY <2>5
      <3>2. MainTypeOK' /\ ReportHasItem'
        BY <2>2, <3>1
      <3> QED BY <2>3, <2>4, <3>2
    <2>6. CASE ~TcActive
      <3>1. /\ current' = Head(result_queue).item
            /\ resume' = "collect" /\ mpc' = "report"
            /\ collected < NumItems /\ UNCHANGED <<ready, collected>>
        BY <2>6
      <3>2. MainTypeOK' /\ ReportHasItem'
        BY <2>2, <3>1
      <3> QED BY <2>3, <2>4, <3>2
    <2> QED BY <2>5, <2>6
  <1>4. CASE Drain
    BY <1>4 DEF Drain
  <1>5. CASE CollectDone
    BY <1>5 DEF CollectDone
  <1>6. CASE ReportSuppress
    BY <1>6 DEF ReportSuppress
  <1>7. CASE ReportLog
    <2> USE <1>7 DEF ReportLog
    <2>1. [item |-> current, call |-> /\ setup_passed[current] = "passed"
                                      /\ current \in call_results] \in LogEntry
      OBVIOUS
    <2>2. log' \in Seq(LogEntry)
      BY <2>1
    <2> QED BY <2>2
  <1>8. CASE ReportKeyError
    BY <1>8 DEF ReportKeyError
  <1>9. CASE ReportDone
    BY <1>9 DEF ReportDone
  <1>10. CASE PutPill
    BY <1>10 DEF PutPill
  <1>11. CASE PillsDone
    BY <1>11 DEF PillsDone
  <1>12. CASE Join
    BY <1>12 DEF Join
  <1>13. CASE Straggler
    BY <1>13 DEF Straggler
  <1>14. CASE StragglersDone
    BY <1>14 DEF StragglersDone
  <1>15. CASE RestoreStreams
    BY <1>15 DEF RestoreStreams
  <1>16. CASE PopStack
    BY <1>16 DEF PopStack
  <1>17. CASE TeardownReport
    BY <1>17 DEF TeardownReport
  <1>18. CASE TeardownShared
    BY <1>18 DEF TeardownShared
  <1>19. CASE Interrupt
    <2>1. silenced' \subseteq Methods /\ saved' \subseteq Methods
      BY <1>19 DEF Interrupt, CutWriter, CutSuppress, CutRestore, Methods
    <2>2. /\ mpc' \in {"pills", "escaped"} /\ sigint' \in BOOLEAN
          /\ interrupted' \in BOOLEAN /\ cancelled' \in BOOLEAN
          /\ UNCHANGED <<queues, sent, workerOnly, call_results, item_state,
                         resume, current, loop, reported, log, proxied, stack,
                         shared_up, torn>>
      BY <1>19 DEF Interrupt
    <2> QED BY <2>1, <2>2
  <1>20. CASE ReportRaises
    BY <1>20 DEF ReportRaises
  <1> QED BY <1>1, <1>2, <1>3, <1>4, <1>5, <1>6, <1>7, <1>8, <1>9, <1>10,
             <1>11, <1>12, <1>13, <1>14, <1>15, <1>16, <1>17, <1>18, <1>19,
             <1>20 DEF Main

(* The type invariant, with BusyHasItem and ReportHasItem, is inductive. *)
LEMMA TypeInvInductive ==
  /\ Init => TypeInv
  /\ TypeInv /\ [Next]_vars => TypeInv'
  <1>1. ASSUME Init PROVE TypeInv
    <2> USE <1>1, PoolAssumption, SizesAreNat DEF Init
    <2>1. QueueTypeOK
      BY DEF QueueTypeOK
    <2>2. WorkerTypeOK /\ BusyHasItem
      BY DEF WorkerTypeOK, WorkerPlaces, Locals, NoLocals, BusyHasItem, Idle
    <2>3. ResultTypeOK
      BY DEF ResultTypeOK
    <2>4. MainTypeOK /\ ReportHasItem
      <3>1. /\ cancelled \in BOOLEAN /\ interrupted \in BOOLEAN
            /\ sigint \in BOOLEAN /\ proxied \in BOOLEAN
            /\ shared_up \in BOOLEAN
            /\ silenced \subseteq Methods /\ saved \subseteq Methods
        OBVIOUS
      <3>2. /\ mpc \in MainPlaces /\ resume \in {"collect", "drain", "stragglers"}
            /\ collected \in 0 .. NumItems /\ next_report_idx \in 0 .. NumItems
            /\ log \in Seq(LogEntry) /\ ReportHasItem
        BY DEF MainPlaces, ReportHasItem, Reporting
      <3>3. /\ current \in ItemSet \cup {None} /\ ready \subseteq ParallelSet
            /\ reported \subseteq ItemSet /\ stack \subseteq ItemSet
            /\ torn \subseteq ItemSet
        OBVIOUS
      <3> QED BY <3>1, <3>2, <3>3 DEF MainTypeOK
    <2> QED BY <2>1, <2>2, <2>3, <2>4 DEF TypeInv, TypeOK
  <1>2. ASSUME TypeInv, [Next]_vars PROVE TypeInv'
    <2>1. ASSUME NEW w \in Workers, Worker(w) PROVE TypeInv'
      BY <1>2, <2>1, WorkerFrame, MainTypeFrame, WorkerTypeStep
         DEF TypeInv, TypeOK
    <2>2. CASE Main \/ Interrupt
      BY <1>2, <2>2, MainTypeStep
    <2>3. CASE UNCHANGED vars
      BY <1>2, <2>3
         DEF vars, queues, workers, shared, loop, session, stop, TypeInv,
             TypeOK, QueueTypeOK, WorkerTypeOK, ResultTypeOK, MainTypeOK,
             BusyHasItem, ReportHasItem, Reporting
    <2> QED BY <1>2, <2>1, <2>2, <2>3 DEF Next, Terminated
  <1> QED BY <1>1, <1>2

(* The variables of the pool and of _run_parallel keep their types, every  *)
(* busy worker has an item and so has every report.                        *)
THEOREM PoolTypeCorrect == Spec => []TypeInv
  BY TypeInvInductive, PTL DEF Spec
-----------------------------------------------------------------------------
(* A thread that has ended stays so, once the threads are started. *)
LEMMA EndedIsStable ==
  ASSUME [Next]_vars, mpc # "spawn", NEW w \in Workers, TypeInv,
         wpc[w] \in Ended
  PROVE  wpc'[w] \in Ended
  <1> USE DEF TypeInv, TypeOK, WorkerTypeOK, Ended
  <1>1. ASSUME NEW v \in Workers, Worker(v) PROVE wpc'[w] \in Ended
    <2>1. v # w /\ \E place : Goto(v, place)
      BY <1>1 DEF Worker, Get, CheckCancelled, EnterSetup, SetupPasses,
           SetupFails, MarkRunning, RunTest, MarkCallDone, RunFinalizers,
           MakeReport, MakeReportRaises, Rescue, CaptureOutput, PutResult, Goto
    <2> QED BY <2>1 DEF Goto
  <1>2. CASE Main \/ Interrupt
    BY <1>2 DEF Main, Interrupt, Spawn, Submit, Collect, Drain, CollectDone,
         ReportSuppress, ReportLog, ReportKeyError, ReportRaises, ReportDone, PutPill,
         PillsDone, Join, Straggler, StragglersDone, RestoreStreams, PopStack,
         TeardownReport, TeardownShared, workerOnly, elsewhere, outside, workers
  <1>3. CASE UNCHANGED vars
    BY <1>3 DEF vars, workers
  <1> QED BY <1>1, <1>2, <1>3 DEF Next, Terminated

(* The steps of the main thread that may take it past the join. *)
LEMMA PastJoinStep ==
  ASSUME TypeInv, JoinInv, Main, PastJoin', ~interrupted'
  PROVE  /\ \A w \in Workers : wpc[w] \in Ended
         /\ mpc # "spawn"
  <1> USE DEF JoinInv, PastJoin, workerOnly, elsewhere, outside, workers, session, stop
  <1>1. ~interrupted
    BY DEF Main, Spawn, Submit, Collect, Drain, CollectDone, ReportSuppress,
         ReportLog, ReportKeyError, ReportRaises, ReportDone, PutPill, PillsDone, Join,
         Straggler, StragglersDone, RestoreStreams, PopStack, TeardownReport,
         TeardownShared
  <1>2. CASE PastJoin
    BY <1>1, <1>2
  <1>3. CASE ~PastJoin
    <2>1. CASE Join
      BY <2>1 DEF Join
    <2>2. CASE ReportDone
      BY <1>3, <2>2 DEF ReportDone, TypeInv, TypeOK, MainTypeOK
    <2>3. CASE PillsDone
      BY <1>1, <1>3, <2>3 DEF PillsDone
    <2>4. CASE ~(Join \/ ReportDone \/ PillsDone)
      BY <1>3, <2>4 DEF Main, Spawn, Submit, Collect, Drain, CollectDone,
           ReportSuppress, ReportLog, ReportKeyError, ReportRaises, PutPill, Straggler,
           StragglersDone, RestoreStreams, PopStack, TeardownReport,
           TeardownShared
    <2> QED BY <2>1, <2>2, <2>3, <2>4
  <1> QED BY <1>2, <1>3

(* JoinInv is inductive relative to the type invariant. *)
LEMMA JoinInvInductive ==
  /\ Init => JoinInv
  /\ TypeInv /\ JoinInv /\ [Next]_vars => JoinInv'
  <1>1. Init => JoinInv
    BY DEF Init, JoinInv, PastJoin
  <1>2. ASSUME TypeInv, JoinInv, [Next]_vars PROVE JoinInv'
    <2>1. ASSUME NEW w \in Workers, Worker(w) PROVE JoinInv'
      <3>1. UNCHANGED mainOnly
        BY <2>1, WorkerFrame
      <3>2. UNCHANGED <<PastJoin, interrupted, mpc>>
        BY <3>1 DEF mainOnly, workerMoves, session, stop, PastJoin
      <3>3. PastJoin => mpc # "spawn"
        BY <1>2 DEF JoinInv
      <3> QED BY <1>2, <3>2, <3>3, EndedIsStable DEF JoinInv
    <2>2. CASE Main
      <3>1. PastJoin' /\ ~interrupted' => \A w \in Workers : wpc'[w] \in Ended
        BY <1>2, <2>2, PastJoinStep, EndedIsStable
      <3>2. mpc' # "spawn"
        BY <1>2, <2>2 DEF Main, Spawn, Submit, Collect, Drain, CollectDone,
             ReportSuppress, ReportLog, ReportKeyError, ReportRaises, ReportDone, PutPill,
             PillsDone, Join, Straggler, StragglersDone, RestoreStreams,
             PopStack, TeardownReport, TeardownShared, TypeInv, TypeOK,
             MainTypeOK
      <3> QED BY <3>1, <3>2 DEF JoinInv
    <2>3. CASE Interrupt
      BY <1>2, <2>3 DEF Interrupt, JoinInv, PastJoin, InTry, workerOnly, elsewhere, outside,
           workers, session
    <2>4. CASE UNCHANGED vars
      BY <1>2, <2>4 DEF vars, workers, session, stop, JoinInv, PastJoin
    <2> QED BY <1>2, <2>1, <2>2, <2>3, <2>4 DEF Next, Terminated
  <1> QED BY <1>1, <1>2

(* While a worker runs code of a test, the test has its stack entry, its   *)
(* request and its shared fixtures, unless the run was interrupted: main   *)
(* restores, pops and tears down only past the join.                       *)
THEOREM SharedFixturesOutliveTests == Spec => []SharedOutliveTests
  <1>1. TypeInv /\ JoinInv => SharedOutliveTests
    BY DEF TypeInv, TypeOK, WorkerTypeOK, BusyHasItem, Idle, JoinInv, PastJoin,
         SharedOutliveTests, InUserCode, Ended
  <1> QED BY <1>1, TypeInvInductive, JoinInvInductive, PTL DEF Spec

(* Once the SIGINT has come, main reports nothing any more: this is why no  *)
(* report finds the writer as the SIGINT left it.                          *)
SilentAfterSignal ==
  sigint => \/ mpc = "pills" /\ interrupted
            \/ mpc \in {"finish", "pop", "teardown", "left", "escaped"}

LEMMA SilentAfterSignalInductive ==
  /\ Init => SilentAfterSignal
  /\ SilentAfterSignal /\ [Next]_vars => SilentAfterSignal'
  <1>1. Init => SilentAfterSignal
    BY DEF Init, SilentAfterSignal
  <1>2. ASSUME SilentAfterSignal, [Next]_vars PROVE SilentAfterSignal'
    <2> USE <1>2 DEF SilentAfterSignal, stop, outside, elsewhere
    <2>1. ASSUME NEW w \in Workers, Worker(w) PROVE SilentAfterSignal'
      BY <2>1, WorkerFrame DEF mainOnly, workerMoves
    <2>2. CASE Main
      BY <2>2 DEF Main, Spawn, Submit, Collect, Drain, CollectDone,
           ReportSuppress, ReportLog, ReportKeyError, ReportRaises, ReportDone, PutPill,
           PillsDone, Join, Straggler, StragglersDone, RestoreStreams,
           PopStack, TeardownReport, TeardownShared
    <2>3. CASE Interrupt
      BY <2>3 DEF Interrupt
    <2>4. CASE UNCHANGED vars
      BY <2>4 DEF vars
    <2> QED BY <2>1, <2>2, <2>3, <2>4 DEF Next, Terminated
  <1> QED BY <1>1, <1>2

(* The terminal writer comes back: whatever a hook raises it is silenced   *)
(* only while a report is logged, and although a SIGINT may leave it       *)
(* silenced, no later report takes that for the original.                  *)
THEOREM WriterIsRestored == Spec => []WriterRestored
  <1>1. Init => WriterRestored
    BY DEF Init, WriterRestored
  <1>2. ASSUME WriterRestored, SilentAfterSignal, SilentAfterSignal', [Next]_vars
        PROVE  WriterRestored'
    <2> USE <1>2 DEF WriterRestored, session, stop, elsewhere, outside
    <2>1. ASSUME NEW w \in Workers, Worker(w) PROVE WriterRestored'
      BY <2>1, WorkerFrame DEF mainOnly, workerMoves
    <2>2. CASE Main
      <3>1. CASE ReportSuppress
        BY <3>1 DEF ReportSuppress
      <3>2. CASE ReportLog \/ ReportKeyError \/ ReportRaises
        BY <3>2 DEF ReportLog, ReportKeyError, ReportRaises
      <3>3. CASE Collect \/ Drain \/ Straggler
        BY <3>3 DEF Collect, Drain, Straggler, SilentAfterSignal
      <3>4. CASE ReportDone
        BY <3>4 DEF ReportDone, SilentAfterSignal
      <3>5. CASE \/ Spawn \/ Submit \/ CollectDone \/ PutPill \/ PillsDone \/ Join
                 \/ StragglersDone \/ RestoreStreams \/ PopStack
                 \/ TeardownReport \/ TeardownShared
        BY <3>5 DEF Spawn, Submit, CollectDone, PutPill, PillsDone, Join,
             StragglersDone, RestoreStreams, PopStack, TeardownReport,
             TeardownShared
      <3> QED BY <2>2, <3>1, <3>2, <3>3, <3>4, <3>5 DEF Main
    <2>3. CASE Interrupt
      <3>1. saved' = {}
        BY <2>3 DEF Interrupt, CutWriter, CutSuppress, CutRestore
      <3>2. sigint' /\ mpc' # "report"
        BY <2>3, <1>2 DEF Interrupt
      <3> QED BY <3>1, <3>2
    <2>4. CASE UNCHANGED vars
      BY <2>4 DEF vars
    <2> QED BY <2>1, <2>2, <2>3, <2>4 DEF Next, Terminated
  <1> QED BY <1>1, <1>2, SilentAfterSignalInductive, PTL DEF Spec
=============================================================================

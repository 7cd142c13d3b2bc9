--------------------------- MODULE WorkerPoolItems ---------------------------
(***************************************************************************)
(* Where the items of a group are, and what that implies: proofs about     *)
(* WorkerPool that an item is run once, reported once, with all the data   *)
(* of its worker, in collection order in TeamCity mode, and that the pool  *)
(* takes no step that GroupRun does not allow.                             *)
(***************************************************************************)
EXTENDS WorkerPoolProofs

(* The items main has taken out of the result queue. *)
Collected == IF TcActive THEN ready ELSE (reported \cup {current}) \cap ParallelSet

(* An item was submitted before it is anywhere, it is in one place, and it *)
(* is there once: in the work queue, with a worker, in the result queue or *)
(* with main.                                                              *)
WaitsOnce ==
  /\ \A j, k \in DOMAIN work_queue :
        work_queue[j] = work_queue[k] /\ work_queue[j] # None => j = k
  /\ \A k \in DOMAIN work_queue : work_queue[k] # None =>
        /\ work_queue[k] \in Submitted \ Collected
        /\ \A w \in Workers : work_item[w] # work_queue[k]
        /\ \A j \in DOMAIN result_queue : result_queue[j].item # work_queue[k]

HeldOnce ==
  /\ \A v, w \in Workers : work_item[v] = work_item[w] /\ work_item[v] # None => v = w
  /\ \A w \in Workers : work_item[w] # None =>
        /\ work_item[w] \in Submitted \ Collected
        /\ \A j \in DOMAIN result_queue : result_queue[j].item # work_item[w]

ResultOnce ==
  /\ \A j, k \in DOMAIN result_queue :
        result_queue[j].item = result_queue[k].item => j = k
  /\ \A k \in DOMAIN result_queue :
        result_queue[k].item \in Submitted \ Collected

(* A worker that waits for an item has none. *)
FreeHands ==
  /\ \A w \in Workers : wpc[w] \in {"unstarted", "get"} => work_item[w] = None
  /\ mpc = "spawn" => \A w \in Workers : wpc[w] = "unstarted"

OnePlace == WaitsOnce /\ HeldOnce /\ ResultOnce /\ Collected \subseteq Submitted

(* Main in the collection loop or before it, and past it. *)
InLoop == mpc \in {"spawn", "submit"} \/ InTry

(* How main stops: by an interrupt of the loop, or by leaving at once.     *)
StopInv ==
  /\ cancelled = interrupted
  /\ sigint => interrupted \/ mpc = "escaped"
  /\ interrupted => /\ sigint
                    /\ mpc \in {"pills", "finish", "pop", "teardown", "left",
                                "escaped"}
  /\ mpc = "spawn" => sent = 0
  /\ mpc = "submit" => sent < NumItems
  /\ mpc \notin {"spawn", "submit", "escaped"} => sent >= NumItems
  /\ torn # {} => mpc \in {"teardown", "left", "escaped"}

Undisturbed == ~interrupted /\ mpc # "escaped"

(* In the loop main has counted what it has collected. *)
TerminalLoop ==
  ~TcActive /\ InLoop =>
    /\ reported \subseteq ParallelSet /\ collected = Cardinality(reported)
    /\ mpc # "drain"
    /\ Reporting => current \in ParallelSet /\ resume = "collect"
    /\ mpc \in {"spawn", "submit"} => reported = {}

TeamCityLoop ==
  TcActive /\ InLoop =>
    /\ collected = Cardinality(ready)
    /\ reported = {parallel_items[k] : k \in 1 .. next_report_idx}
    /\ reported \subseteq ready
    /\ Reporting => /\ current = parallel_items[next_report_idx + 1]
                    /\ current \in ready /\ resume = "drain"
    /\ mpc = "collect" /\ next_report_idx < NumItems =>
         parallel_items[next_report_idx + 1] \notin ready
    /\ mpc \in {"spawn", "submit"} => ready = {} /\ next_report_idx = 0

LoopInv ==
  /\ TerminalLoop /\ TeamCityLoop
  /\ Undisturbed /\ ~InLoop => ParallelSet \subseteq reported
  /\ Undisturbed /\ mpc \in {"finish", "pop", "teardown", "left"} =>
       ItemSet \subseteq reported

(* What was logged is what was reported, and the report under way. *)
LogInv ==
  /\ ReportedOnce
  /\ Reporting => current \notin reported
  /\ Undisturbed /\ ~Reporting => current \in reported \cup {None}
  /\ Undisturbed /\ mpc # "restoring" => Logged = reported
  /\ Undisturbed /\ mpc = "restoring" => Logged = reported \cup {current}
  /\ Logged \subseteq Collected \cup SkippedSet

ItemsInv == OnePlace /\ FreeHands /\ StopInv /\ LoopInv /\ LogInv

(* The length of the log in TeamCity mode. *)
OrderInv ==
  TcActive =>
    /\ \A k \in DOMAIN log : k <= NumItems => log[k].item = parallel_items[k]
    /\ InLoop /\ mpc # "restoring" => Len(log) = next_report_idx
    /\ InLoop /\ mpc = "restoring" => Len(log) = next_report_idx + 1
    /\ Undisturbed /\ ~InLoop => Len(log) >= NumItems

(* What is known of an item before its body, during it and after it. *)
Started == {"taken", "active", "setup", "gate"}

DisplayInv ==
  /\ \A i \in ParallelSet \ Submitted : item_state[i] = "scheduled"
  /\ \A k \in DOMAIN work_queue : work_queue[k] # None =>
       item_state[work_queue[k]] = "scheduled"
  /\ \A w \in Workers :
       /\ wpc[w] \in Started => item_state[work_item[w]] = "scheduled"
       /\ wpc[w] \in {"running", "called"} => item_state[work_item[w]] = "running"

(* A setup that passed is stored together with the rest, or main does not  *)
(* look any more.                                                          *)
Passed(i) == setup_passed[i] = "passed"

Unstored == Started \cup {"running", "called", "fins", "makereport", "rescue",
                          "dying", "lastput"}

(* Unless the run was cancelled, the worker has run the body. *)
Ran(w) == \/ wpc[w] = "called"
          \/ wpc[w] \in {"fins", "makereport"} /\ locals[w].setup = "ok"
          \/ wpc[w] \in {"capture", "put"} /\ Passed(work_item[w])

WorkerData(w) ==
  /\ wpc[w] \in Unstored => setup_passed[work_item[w]] = "absent"
  /\ wpc[w] \in Started \ {"gate"} => locals[w].setup = "none"
  /\ wpc[w] = "makereport" /\ locals[w].setup = "ok" => locals[w].td
  /\ ~cancelled /\ Ran(w) => locals[w].call = "returned" /\ locals[w].out
  /\ ~cancelled /\ wpc[w] = "put" /\ Passed(work_item[w]) =>
       work_item[w] \in captured_output

NothingStored ==
  /\ \A i \in SkippedSet : setup_passed[i] = "failed"
  /\ \A i \in ParallelSet \ Submitted : setup_passed[i] = "absent"
  /\ \A k \in DOMAIN work_queue : work_queue[k] # None =>
       setup_passed[work_queue[k]] = "absent"

Stored ==
  /\ \A i \in ItemSet : Passed(i) => i \in teardown_infos
  /\ ~cancelled =>
       /\ \A k \in DOMAIN result_queue : Passed(result_queue[k].item) =>
            result_queue[k].call /\ result_queue[k].item \in captured_output
       /\ \A i \in Collected : Passed(i) => i \in call_results \cap captured_output
  /\ \A k \in DOMAIN log : Passed(log[k].item) =>
       log[k].call /\ log[k].item \in captured_output

DataInv == NothingStored /\ Stored /\ \A w \in Workers : WorkerData(w)
-----------------------------------------------------------------------------
(* Queues: what a put adds and what a get takes. *)
LEMMA AppendFacts ==
  ASSUME NEW S, NEW q \in Seq(S), NEW x \in S
  PROVE  /\ DOMAIN Append(q, x) = DOMAIN q \cup {Len(q) + 1}
         /\ Len(q) + 1 \notin DOMAIN q
         /\ Append(q, x)[Len(q) + 1] = x
         /\ \A k \in DOMAIN q : Append(q, x)[k] = q[k]
  OBVIOUS

LEMMA TailFacts ==
  ASSUME NEW S, NEW q \in Seq(S), q # <<>>
  PROVE  /\ 1 \in DOMAIN q /\ Head(q) = q[1]
         /\ \A k \in DOMAIN Tail(q) : /\ k + 1 \in DOMAIN q /\ k \in Nat
                                      /\ k + 1 # 1 /\ Tail(q)[k] = q[k + 1]
         /\ \A k \in DOMAIN q : k # 1 =>
               k - 1 \in DOMAIN Tail(q) /\ Tail(q)[k - 1] = q[k]
  OBVIOUS

(* What was submitted: a put of the next item adds it, and it is new; a    *)
(* pill adds nothing.                                                      *)
LEMMA SubmitNext ==
  ASSUME sent \in Nat, sent < NumItems, sent' = sent + 1
  PROVE  /\ Submitted' = Submitted \cup {parallel_items[sent + 1]}
         /\ parallel_items[sent + 1] \in ParallelSet \ Submitted
  <1> USE SizesAreNat
  <1>1. /\ Submitted = {parallel_items[k] : k \in 1 .. sent}
        /\ Submitted' = {parallel_items[k] : k \in 1 .. (sent + 1)}
    BY DEF Submitted
  <1>2. DOMAIN parallel_items = 1 .. NumItems
    BY PoolAssumption DEF NumItems
  <1>3. parallel_items[sent + 1] \in ParallelSet
    BY <1>2 DEF ParallelSet, Range
  <1>4. \A k \in 1 .. sent : parallel_items[k] # parallel_items[sent + 1]
    BY <1>2, PoolAssumption DEF IsInjective
  <1>5. 1 .. (sent + 1) = (1 .. sent) \cup {sent + 1}
    OBVIOUS
  <1> QED BY <1>1, <1>3, <1>4, <1>5

LEMMA SubmittedFrame ==
  ASSUME sent \in Nat
  PROVE  /\ Submitted \subseteq ParallelSet
         /\ UNCHANGED sent => UNCHANGED Submitted
         /\ sent >= NumItems /\ sent' = sent + 1 => UNCHANGED Submitted
         /\ sent >= NumItems => Submitted = ParallelSet
  <1> USE SizesAreNat
  <1>1. DOMAIN parallel_items = 1 .. NumItems
    BY PoolAssumption DEF NumItems
  <1>2. Submitted \subseteq ParallelSet
    BY <1>1 DEF Submitted, ParallelSet, Range
  <1>3. sent >= NumItems => Submitted = ParallelSet
    BY <1>1 DEF Submitted, ParallelSet, Range
  <1>4. sent >= NumItems /\ sent' = sent + 1 => UNCHANGED Submitted
    BY <1>1 DEF Submitted
  <1> QED BY <1>2, <1>3, <1>4 DEF Submitted

(* There are as many items as places in parallel_items. *)
LEMMA ParallelSize ==
  IsFiniteSet(ParallelSet) /\ Cardinality(ParallelSet) = NumItems
  <1> USE SizesAreNat
  <1>1. DOMAIN parallel_items = 1 .. NumItems
    BY PoolAssumption DEF NumItems
  <1>2. IsFiniteSet(1 .. NumItems) /\ Cardinality(1 .. NumItems) = NumItems
    BY FS_Interval
  <1>3. parallel_items \in Bijection(1 .. NumItems, ParallelSet)
    BY <1>1, PoolAssumption DEF Bijection, Injection, Surjection, IsInjective,
       ParallelSet, Range
  <1>4. ExistsBijection(1 .. NumItems, ParallelSet)
    BY <1>3 DEF ExistsBijection
  <1> QED BY <1>2, <1>4, FS_Bijection

(* Who has counted NumItems distinct items has counted all of them. *)
LEMMA AllCounted ==
  ASSUME NEW S, S \subseteq ParallelSet
  PROVE  /\ Cardinality(S) \in Nat /\ Cardinality(S) <= NumItems
         /\ Cardinality(S) = NumItems => S = ParallelSet
         /\ \A x \in ParallelSet \ S : /\ Cardinality(S \cup {x}) = Cardinality(S) + 1
                                       /\ Cardinality(S) < NumItems
  <1>1. IsFiniteSet(S) /\ Cardinality(S) <= NumItems
        /\ (Cardinality(S) = NumItems => S = ParallelSet)
    BY ParallelSize, FS_Subset
  <1>2. Cardinality(S) \in Nat
    BY <1>1, FS_CardinalityType
  <1>3. ASSUME NEW x \in ParallelSet \ S
        PROVE  Cardinality(S \cup {x}) = Cardinality(S) + 1
    BY <1>1, FS_AddElement
  <1>4. ASSUME NEW x \in ParallelSet \ S PROVE Cardinality(S) < NumItems
    BY <1>1, <1>2, SizesAreNat
  <1> QED BY <1>1, <1>2, <1>3, <1>4
-----------------------------------------------------------------------------
(* What decides where an item is, and the steps that do not touch it. *)
placeVars == <<work_queue, result_queue, work_item, sent, reported, current, ready>>

MainMoves == \/ Submit \/ Collect \/ Drain \/ ReportDone \/ PutPill \/ Straggler

LEMMA WorkerPlacesKept ==
  ASSUME NEW w \in Workers, Worker(w)
  PROVE  /\ UNCHANGED <<sent, reported, current, ready, Submitted, Collected>>
         /\ Get(w) \/ PutResult(w) \/ UNCHANGED placeVars
  <1>1. UNCHANGED <<sent, reported, current, ready>>
    BY WorkerFrame DEF mainOnly, loop
  <1>2. UNCHANGED <<Submitted, Collected>>
    BY <1>1 DEF Submitted, Collected
  <1>3. Get(w) \/ PutResult(w) \/ UNCHANGED <<queues, work_item>>
    BY DEF Worker, CheckCancelled, EnterSetup, SetupPasses, SetupFails,
       MarkRunning, RunTest, MarkCallDone, RunFinalizers, MakeReport,
       MakeReportRaises, Rescue, CaptureOutput, workerMoves
  <1> QED BY <1>1, <1>2, <1>3 DEF placeVars, queues

LEMMA MainPlacesKept ==
  ASSUME Main \/ Interrupt
  PROVE  /\ UNCHANGED work_item
         /\ MainMoves \/ UNCHANGED placeVars
  BY DEF Main, MainMoves, Interrupt, Spawn, Submit, Collect, Drain, CollectDone,
     ReportSuppress, ReportLog, ReportKeyError, ReportRaises, ReportDone, PutPill,
     PillsDone, Join, Straggler, StragglersDone, RestoreStreams, PopStack,
     TeardownReport, TeardownShared, elsewhere, outside, queues, workerOnly,
     workers, loop, placeVars

(* The result that the next get returns. *)
LEMMA ResultHead ==
  ASSUME TypeInv, result_queue # <<>>
  PROVE  /\ result_queue \in Seq(ResultEntry)
         /\ Head(result_queue) \in ResultEntry
         /\ Head(result_queue).item \in ParallelSet
         /\ Head(result_queue).call \in BOOLEAN
  <1>1. result_queue \in Seq(ResultEntry)
    BY DEF TypeInv, TypeOK, QueueTypeOK
  <1>2. Head(result_queue) \in ResultEntry
    BY <1>1, TailType
  <1> QED BY <1>1, <1>2 DEF ResultEntry

(* Only Collect hands an item to main; a report and the straggler loop     *)
(* neither take one back nor add one.                                      *)
LEMMA CollectedStep ==
  ASSUME TypeInv, StopInv, LoopInv, LogInv, Main
  PROVE  /\ Collect => Collected' = Collected \cup {Head(result_queue).item}
         /\ ~Collect => UNCHANGED Collected
  <1> USE PoolAssumption DEF TypeInv, TypeOK, MainTypeOK, QueueTypeOK
  <1>1. ASSUME Collect
        PROVE  Collected' = Collected \cup {Head(result_queue).item}
    <2>1. Head(result_queue).item \in ParallelSet
      BY <1>1, ResultHead DEF Collect
    <2>2. current \in reported \cup {None}
      BY <1>1 DEF Collect, StopInv, LogInv, Undisturbed, Reporting
    <2>3. None \notin ParallelSet
      OBVIOUS
    <2> QED BY <1>1, <2>1, <2>2, <2>3 DEF Collect, Collected, loop
  <1>2. ASSUME Drain PROVE UNCHANGED Collected
    <2>1. TcActive
      BY <1>2 DEF Drain, LoopInv, TerminalLoop, InLoop, InTry
    <2> QED BY <1>2, <2>1 DEF Drain, Collected, loop
  <1>3. ASSUME ReportDone PROVE UNCHANGED Collected
    BY <1>3 DEF ReportDone, Collected
  <1>4. ASSUME Straggler PROVE UNCHANGED Collected
    <2>1. ParallelSet \subseteq reported
      BY <1>4 DEF Straggler, StopInv, LoopInv, Undisturbed, InLoop, InTry
    <2> QED BY <1>4, <2>1 DEF Straggler, Collected, loop
  <1>5. ASSUME Submit \/ PutPill PROVE UNCHANGED Collected
    BY <1>5 DEF Submit, PutPill, Collected, loop
  <1>6. ASSUME UNCHANGED placeVars PROVE UNCHANGED Collected
    BY <1>6 DEF placeVars, Collected
  <1> QED BY <1>1, <1>2, <1>3, <1>4, <1>5, <1>6, MainPlacesKept DEF MainMoves

(* Every item stays in one place. *)
LEMMA OnePlaceByWorker ==
  ASSUME NEW w \in Workers, Worker(w), TypeInv, OnePlace, FreeHands
  PROVE  OnePlace'
  <1> USE DEF OnePlace, WaitsOnce, HeldOnce, ResultOnce
  <1>0. UNCHANGED <<Submitted, Collected>>
    BY WorkerPlacesKept
  <1>1. CASE Get(w)
    <2> USE DEF TypeInv, TypeOK, QueueTypeOK, WorkerTypeOK
    <2>1. work_queue \in Seq(ParallelSet \cup {None}) /\ work_queue # <<>>
      BY <1>1 DEF Get
    <2>2. work_queue' = Tail(work_queue) /\ UNCHANGED result_queue
      BY <1>1 DEF Get
    <2>3. /\ 1 \in DOMAIN work_queue /\ Head(work_queue) = work_queue[1]
          /\ \A k \in DOMAIN work_queue' :
                /\ k + 1 \in DOMAIN work_queue /\ k \in Nat
                /\ k + 1 # 1 /\ work_queue'[k] = work_queue[k + 1]
      BY <2>1, <2>2, TailFacts
    <2>4. \A v \in Workers : \/ work_item'[v] = work_item[v]
                             \/ v = w /\ work_item'[v] = work_queue[1]
      BY <1>1, <2>3 DEF Get
    <2>5. WaitsOnce'
      BY <1>0, <2>2, <2>3, <2>4
    <2>6. HeldOnce' /\ ResultOnce'
      BY <1>0, <2>2, <2>3, <2>4
    <2> QED BY <1>0, <2>5, <2>6
  <1>2. CASE PutResult(w)
    <2> USE DEF TypeInv, TypeOK, QueueTypeOK, WorkerTypeOK, BusyHasItem, Idle
    <2> DEFINE r == [item |-> work_item[w], call |-> locals[w].call # "none"]
    <2>1. /\ result_queue' = Append(result_queue, r) /\ r.item = work_item[w]
          /\ UNCHANGED work_queue /\ work_item[w] \in ParallelSet
          /\ work_item[w] # None
          /\ work_item' = [work_item EXCEPT ![w] = None]
      BY <1>2, PoolAssumption DEF PutResult
    <2>2. r \in ResultEntry
      BY <2>1 DEF ResultEntry
    <2> HIDE DEF r
    <2>3. /\ DOMAIN result_queue' = DOMAIN result_queue \cup {Len(result_queue) + 1}
          /\ Len(result_queue) + 1 \notin DOMAIN result_queue
          /\ result_queue'[Len(result_queue) + 1] = r
          /\ \A k \in DOMAIN result_queue : result_queue'[k] = result_queue[k]
      BY <2>1, <2>2, AppendFacts
    <2>4. work_item'[w] = None /\ \A v \in Workers \ {w} : work_item'[v] = work_item[v]
      BY <2>1
    <2>5. WaitsOnce'
      BY <1>0, <2>1, <2>3, <2>4
    <2>6. HeldOnce'
      BY <1>0, <2>1, <2>3, <2>4
    <2>7. ResultOnce'
      BY <1>0, <2>1, <2>3
    <2> QED BY <1>0, <2>5, <2>6, <2>7
  <1>3. CASE UNCHANGED placeVars
    BY <1>0, <1>3 DEF placeVars
  <1> QED BY <1>1, <1>2, <1>3, WorkerPlacesKept

LEMMA OnePlaceByMain ==
  ASSUME Main \/ Interrupt, TypeInv, OnePlace, StopInv, LoopInv, LogInv
  PROVE  OnePlace'
  <1> USE DEF OnePlace, WaitsOnce, HeldOnce, ResultOnce
  <1>0. UNCHANGED work_item /\ sent \in Nat
    BY MainPlacesKept, SizesAreNat DEF TypeInv, TypeOK, QueueTypeOK
  <1>1. CASE Submit
    <2> DEFINE x == parallel_items[sent + 1]
    <2>1. /\ UNCHANGED Collected /\ UNCHANGED result_queue
          /\ work_queue' = Append(work_queue, x)
      BY <1>1, CollectedStep DEF Submit, Collect, Main
    <2>2. /\ Submitted' = Submitted \cup {x} /\ x \notin Submitted
          /\ x \in ParallelSet
      BY <1>0, <1>1, SubmitNext DEF Submit
    <2>3. work_queue \in Seq(ParallelSet \cup {None})
      BY DEF TypeInv, TypeOK, QueueTypeOK
    <2> HIDE DEF x
    <2>4. /\ DOMAIN work_queue' = DOMAIN work_queue \cup {Len(work_queue) + 1}
          /\ Len(work_queue) + 1 \notin DOMAIN work_queue
          /\ work_queue'[Len(work_queue) + 1] = x
          /\ \A k \in DOMAIN work_queue : work_queue'[k] = work_queue[k]
      BY <2>1, <2>2, <2>3, AppendFacts
    <2>5. x # None
      BY <2>2, PoolAssumption
    <2>6. WaitsOnce'
      BY <1>0, <2>1, <2>2, <2>4, <2>5
    <2>7. HeldOnce' /\ ResultOnce'
      BY <1>0, <2>1, <2>2
    <2> QED BY <2>1, <2>2, <2>6, <2>7
  <1>2. CASE PutPill
    <2>1. /\ UNCHANGED Collected /\ UNCHANGED result_queue
          /\ work_queue' = Append(work_queue, None)
      BY <1>2, CollectedStep DEF PutPill, Collect, Main
    <2>2. UNCHANGED Submitted
      BY <1>0, <1>2, SubmittedFrame DEF PutPill, StopInv
    <2>3. work_queue \in Seq(ParallelSet \cup {None})
      BY DEF TypeInv, TypeOK, QueueTypeOK
    <2>4. /\ DOMAIN work_queue' = DOMAIN work_queue \cup {Len(work_queue) + 1}
          /\ work_queue'[Len(work_queue) + 1] = None
          /\ \A k \in DOMAIN work_queue : work_queue'[k] = work_queue[k]
      BY <2>1, <2>3, AppendFacts
    <2> QED BY <1>0, <2>1, <2>2, <2>4
  <1>3. CASE Collect
    <2>1. /\ UNCHANGED <<work_queue, sent>> /\ result_queue # <<>>
          /\ result_queue' = Tail(result_queue)
      BY <1>3 DEF Collect
    <2>2. Collected' = Collected \cup {result_queue[1].item}
      BY <1>3, <2>1, CollectedStep, TailFacts, ResultHead DEF Main
    <2>3. UNCHANGED Submitted
      BY <1>0, <2>1, SubmittedFrame
    <2>4. /\ 1 \in DOMAIN result_queue
          /\ \A k \in DOMAIN result_queue' :
                /\ k + 1 \in DOMAIN result_queue /\ k \in Nat
                /\ k + 1 # 1 /\ result_queue'[k] = result_queue[k + 1]
      BY <2>1, ResultHead, TailFacts
    <2>5. WaitsOnce'
      BY <1>0, <2>1, <2>2, <2>3, <2>4
    <2>6. HeldOnce'
      BY <1>0, <2>1, <2>2, <2>3, <2>4
    <2>7. ResultOnce'
      BY <1>0, <2>1, <2>2, <2>3, <2>4
    <2> QED BY <2>2, <2>3, <2>4, <2>5, <2>6, <2>7
  <1>4. CASE Drain \/ ReportDone \/ Straggler
    <2>1. UNCHANGED <<work_queue, result_queue, sent>>
      BY <1>4 DEF Drain, ReportDone, Straggler, queues
    <2>2. UNCHANGED <<Collected, Submitted>>
      BY <1>0, <1>4, <2>1, CollectedStep, SubmittedFrame
         DEF Main, Collect, Drain, ReportDone, Straggler
    <2> QED BY <1>0, <2>1, <2>2
  <1>5. CASE UNCHANGED placeVars
    <2>1. UNCHANGED <<Collected, Submitted>>
      BY <1>5 DEF placeVars, Collected, Submitted
    <2> QED BY <1>5, <2>1 DEF placeVars
  <1> QED BY <1>1, <1>2, <1>3, <1>4, <1>5, MainPlacesKept DEF MainMoves
-----------------------------------------------------------------------------
(* A worker that asks for the next item holds none. *)
LEMMA FreeHandsStep ==
  ASSUME TypeInv, FreeHands, [Next]_vars
  PROVE  FreeHands'
  <1> USE DEF FreeHands, TypeInv, TypeOK, WorkerTypeOK
  <1>1. ASSUME NEW w \in Workers, Worker(w) PROVE FreeHands'
    <2>1. mpc' = mpc /\ wpc[w] # "unstarted"
      BY <1>1, WorkerFrame DEF mainOnly, Worker, Get, CheckCancelled, EnterSetup,
         SetupPasses, SetupFails, MarkRunning, RunTest, MarkCallDone,
         RunFinalizers, MakeReport, MakeReportRaises, Rescue, CaptureOutput,
         PutResult
    <2>2. mpc # "spawn"
      BY <2>1
    <2>3. CASE Get(w)
      BY <2>1, <2>2, <2>3 DEF Get, Goto
    <2>4. CASE PutResult(w)
      BY <2>1, <2>2, <2>4 DEF PutResult, Goto
    <2>5. ASSUME ~(Get(w) \/ PutResult(w))
          PROVE  /\ UNCHANGED work_item
                 /\ \E place : Goto(w, place) /\ place \notin {"unstarted", "get"}
      BY <1>1, <2>5 DEF Worker, CheckCancelled, EnterSetup, SetupPasses, SetupFails,
         MarkRunning, RunTest, MarkCallDone, RunFinalizers, MakeReport,
         MakeReportRaises, Rescue, CaptureOutput, workerMoves
    <2> QED BY <2>1, <2>2, <2>3, <2>4, <2>5 DEF Goto
  <1>2. CASE Spawn
    BY <1>2 DEF Spawn
  <1>3. CASE (Main /\ ~Spawn) \/ Interrupt
    <2>1. UNCHANGED <<wpc, work_item>> /\ mpc' # "spawn"
      BY <1>3 DEF Main, Interrupt, Submit, Collect, Drain, CollectDone,
       ReportSuppress, ReportLog, ReportKeyError, ReportRaises, ReportDone, PutPill,
       PillsDone, Join, Straggler, StragglersDone, RestoreStreams, PopStack,
       TeardownReport, TeardownShared, elsewhere, outside, workerOnly, workers,
       MainTypeOK
    <2> QED BY <2>1
  <1>4. CASE UNCHANGED vars
    BY <1>4 DEF vars, workers
  <1> QED BY <1>1, <1>2, <1>3, <1>4 DEF Next, Terminated

(* What a step of the main thread or the interrupt does to the way it stops. *)
LEMMA StopStep ==
  ASSUME TypeInv, StopInv, Main \/ Interrupt
  PROVE  StopInv'
  <1> USE SizesAreNat
      DEF StopInv, TypeInv, TypeOK, MainTypeOK, QueueTypeOK, elsewhere, outside,
          stop, session, queues
  <1>1. CASE Submit
    BY <1>1 DEF Submit
  <1>2. CASE PutPill
    BY <1>2 DEF PutPill
  <1>3. CASE Interrupt
    BY <1>3 DEF Interrupt, InTry
  <1>4. CASE ReportDone
    BY <1>4 DEF ReportDone
  <1>5. CASE Drain \/ Collect
    BY <1>5 DEF Drain, Collect
  <1>6. CASE Main /\ ~(Submit \/ PutPill \/ ReportDone \/ Drain \/ Collect)
    BY <1>6 DEF Main, Spawn, CollectDone, ReportSuppress, ReportLog,
       ReportKeyError, ReportRaises, PillsDone, Join, Straggler, StragglersDone,
       RestoreStreams, PopStack, TeardownReport, TeardownShared
  <1> QED BY <1>1, <1>2, <1>3, <1>4, <1>5, <1>6

(* The loop counts the items it has collected, so that it ends when it has *)
(* reported them all.                                                      *)
LEMMA LoopStep ==
  ASSUME TypeInv, OnePlace, StopInv, LoopInv, LogInv, Main \/ Interrupt
  PROVE  LoopInv'
  <1> USE PoolAssumption, SizesAreNat
      DEF TypeInv, TypeOK, MainTypeOK, StopInv, LoopInv, TerminalLoop,
          TeamCityLoop, InLoop, InTry, Reporting, Undisturbed
  <1>1. CASE Spawn \/ Submit
    BY <1>1 DEF Spawn, Submit, loop, stop
  <1>2. CASE Collect
    <2> DEFINE x == Head(result_queue).item
    <2>1. /\ mpc = "collect" /\ collected < NumItems
          /\ x \in ParallelSet /\ x \notin Collected
          /\ UNCHANGED <<next_report_idx, reported, cancelled, interrupted, sigint>>
      <3>1. result_queue # <<>> /\ 1 \in DOMAIN result_queue /\ x = result_queue[1].item
        BY <1>2, ResultHead, TailFacts DEF Collect
      <3> QED BY <1>2, <3>1, ResultHead DEF Collect, stop, OnePlace, ResultOnce
    <2>2. CASE TcActive
      <3>1. /\ ready' = ready \cup {x} /\ collected' = collected + 1
            /\ mpc' = "drain" /\ UNCHANGED <<current, resume>>
        BY <1>2, <2>2 DEF Collect
      <3>2. Cardinality(ready') = Cardinality(ready) + 1
        BY <2>1, <2>2, <3>1, AllCounted DEF Collected
      <3> QED BY <2>1, <2>2, <3>1, <3>2
    <2>3. CASE ~TcActive
      <3>1. /\ current' = x /\ resume' = "collect"
            /\ mpc' = "report" /\ UNCHANGED <<ready, collected>>
        BY <1>2, <2>3 DEF Collect
      <3> QED BY <2>1, <2>3, <3>1
    <2> QED BY <2>2, <2>3
  <1>3. CASE Drain
    <2>1. /\ mpc = "drain" /\ TcActive /\ ready \subseteq ParallelSet
          /\ UNCHANGED <<collected, ready, next_report_idx, reported, cancelled, interrupted, sigint>>
      BY <1>3 DEF Drain, loop, stop
    <2>2. CASE mpc' = "report"
      BY <1>3, <2>1, <2>2 DEF Drain
    <2>3. CASE mpc' = "collect"
      BY <1>3, <2>1, <2>3 DEF Drain
    <2> QED BY <1>3, <2>2, <2>3 DEF Drain
  <1>4. CASE CollectDone
    <2>1. /\ mpc = "collect" /\ collected = NumItems /\ mpc' = "pills"
          /\ UNCHANGED <<loop, reported, stop, current, resume>>
      BY <1>4 DEF CollectDone, elsewhere, outside
    <2>2. CASE TcActive
      <3>1. ready = ParallelSet
        BY <2>1, <2>2, AllCounted
      <3>2. DOMAIN parallel_items = 1 .. NumItems
        BY DEF NumItems
      <3>3. next_report_idx = NumItems
        BY <2>1, <2>2, <3>1, <3>2 DEF ParallelSet, Range
      <3>4. ParallelSet \subseteq reported
        BY <2>1, <2>2, <3>2, <3>3 DEF ParallelSet, Range
      <3> QED BY <2>1, <3>4 DEF loop, stop
    <2>3. CASE ~TcActive
      <3>1. reported = ParallelSet
        BY <2>1, <2>3, AllCounted
      <3> QED BY <2>1, <3>1 DEF loop, stop
    <2> QED BY <2>2, <2>3
  <1>5. CASE ReportDone
    <2>1. /\ mpc = "restoring" /\ mpc' = resume /\ reported' = reported \cup {current}
          /\ collected' = IF resume = "collect" THEN collected + 1 ELSE collected
          /\ next_report_idx' = IF resume = "drain" THEN next_report_idx + 1
                                                    ELSE next_report_idx
          /\ UNCHANGED <<resume, current, ready, stop>>
      BY <1>5 DEF ReportDone
    <2>2. CASE resume = "stragglers"
      BY <2>1, <2>2 DEF stop
    <2>3. CASE resume # "stragglers" /\ TcActive
      <3>1. /\ resume = "drain" /\ current = parallel_items[next_report_idx + 1]
            /\ current \in ready
        BY <2>1, <2>3
      <3>2. reported' = {parallel_items[k] : k \in 1 .. next_report_idx'}
        BY <2>1, <2>3, <3>1
      <3> QED BY <2>1, <2>3, <3>1, <3>2 DEF stop
    <2>4. CASE resume # "stragglers" /\ ~TcActive
      <3>1. resume = "collect" /\ current \in ParallelSet \ reported
        BY <2>1, <2>4 DEF LogInv
      <3>2. Cardinality(reported') = Cardinality(reported) + 1
        BY <2>1, <2>4, <3>1, AllCounted
      <3> QED BY <2>1, <2>4, <3>1, <3>2 DEF stop
    <2> QED BY <2>2, <2>3, <2>4
  <1>6. CASE Straggler
    BY <1>6 DEF Straggler, loop, stop
  <1>7. CASE Interrupt
    BY <1>7 DEF Interrupt, loop
  <1>8. CASE StragglersDone
    BY <1>8 DEF StragglersDone, elsewhere, outside, loop, stop
  <1>9. CASE ReportSuppress \/ ReportLog
    BY <1>9 DEF ReportSuppress, ReportLog, elsewhere, outside, loop, stop
  <1>10. CASE PutPill \/ PillsDone \/ Join
    BY <1>10 DEF PutPill, PillsDone, Join, elsewhere, outside, loop, stop
  <1>11. CASE RestoreStreams \/ PopStack \/ TeardownReport \/ TeardownShared
    BY <1>11 DEF RestoreStreams, PopStack, TeardownReport, TeardownShared,
       elsewhere, outside, loop, stop
  <1>12. CASE ReportKeyError \/ ReportRaises
    BY <1>12 DEF ReportKeyError, ReportRaises, outside, loop, stop
  <1> QED BY <1>1, <1>2, <1>3, <1>4, <1>5, <1>6, <1>7, <1>8, <1>9, <1>10, <1>11,
             <1>12 DEF Main

(* The item of a report came out of the result queue, or was skipped.      *)
LEMMA ReportedItem ==
  ASSUME TypeInv, StopInv, LoopInv, LogInv, Reporting
  PROVE  current \in Collected \cup SkippedSet
  <1> USE DEF Reporting
  <1>1. current \in ItemSet /\ current \notin reported /\ Undisturbed
    BY DEF TypeInv, TypeOK, MainTypeOK, ReportHasItem, LogInv, StopInv, Undisturbed
  <1>2. ASSUME resume = "stragglers" PROVE current \in SkippedSet
    <2>1. ParallelSet \subseteq reported
      BY <1>1, <1>2 DEF LoopInv, InLoop, InTry
    <2> QED BY <1>1, <2>1 DEF SkippedSet
  <1>3. ASSUME resume # "stragglers" PROVE current \in Collected
    BY <1>3 DEF LoopInv, TerminalLoop, TeamCityLoop, InLoop, InTry, Collected
  <1> QED BY <1>2, <1>3

(* The log holds each item at most once: what is reported next is not      *)
(* among what was reported.                                                *)
LEMMA LogAppend ==
  ASSUME TypeInv, ReportLog
  PROVE  /\ Logged' = Logged \cup {current}
         /\ DOMAIN log' = DOMAIN log \cup {Len(log) + 1}
         /\ Len(log) + 1 \notin DOMAIN log /\ Len(log') = Len(log) + 1
         /\ log'[Len(log) + 1].item = current
         /\ log'[Len(log) + 1].call = (/\ setup_passed[current] = "passed"
                                       /\ current \in call_results)
         /\ \A k \in DOMAIN log : log'[k] = log[k]
  <1> DEFINE e == [item |-> current,
                   call |-> /\ setup_passed[current] = "passed"
                            /\ current \in call_results]
  <1>1. /\ log \in Seq(LogEntry) /\ log' = Append(log, e)
        /\ current \in ItemSet
    BY PoolAssumption DEF ReportLog, TypeInv, TypeOK, MainTypeOK, ReportHasItem, Reporting
  <1>2. e \in LogEntry
    BY <1>1 DEF LogEntry
  <1>3. /\ e.item = current
        /\ e.call = (/\ setup_passed[current] = "passed" /\ current \in call_results)
    OBVIOUS
  <1> HIDE DEF e
  <1>4. /\ DOMAIN log' = DOMAIN log \cup {Len(log) + 1}
        /\ Len(log) + 1 \notin DOMAIN log
        /\ log'[Len(log) + 1] = e
        /\ \A k \in DOMAIN log : log'[k] = log[k]
    BY <1>1, <1>2, AppendFacts
  <1>5. Len(log') = Len(log) + 1
    BY <1>1, <1>2
  <1>6. Logged' = Logged \cup {current}
    BY <1>3, <1>4 DEF Logged
  <1> QED BY <1>3, <1>4, <1>5, <1>6

LEMMA LogStep ==
  ASSUME TypeInv, OnePlace, StopInv, LoopInv, LogInv, Main \/ Interrupt
  PROVE  LogInv'
  <1> USE PoolAssumption, SizesAreNat
      DEF TypeInv, TypeOK, MainTypeOK, LogInv, Reporting, Undisturbed, stop
  <1>1. CASE ReportLog
    <2>1. /\ mpc = "logging" /\ mpc' = "restoring"
          /\ UNCHANGED <<current, reported, stop, Collected>>
      BY <1>1 DEF ReportLog, loop, Collected
    <2>2. ~interrupted /\ Logged = reported /\ current \notin Logged
      BY <2>1 DEF StopInv
    <2>3. ReportedOnce'
      <3>1. \A k \in DOMAIN log : log[k].item # current
        BY <2>2 DEF Logged
      <3>2. ReportedOnce
        OBVIOUS
      <3> HIDE DEF LogInv, TypeInv
      <3> QED BY <1>1, <3>1, <3>2, LogAppend DEF ReportedOnce
    <2>4. current \in Collected \cup SkippedSet
      BY <2>1, ReportedItem
    <2> QED BY <1>1, <2>1, <2>2, <2>3, <2>4, LogAppend
  <1>2. ASSUME ~ReportLog PROVE UNCHANGED log
    BY <1>2 DEF Main, Interrupt, Spawn, Submit, Collect, Drain, CollectDone,
     ReportSuppress, ReportKeyError, ReportRaises, ReportDone, PutPill,
     PillsDone, Join, Straggler, StragglersDone, RestoreStreams, PopStack,
     TeardownReport, TeardownShared, elsewhere, outside
  <1>3. ASSUME ~ReportLog PROVE UNCHANGED <<ReportedOnce, Logged>>
    BY <1>2, <1>3 DEF ReportedOnce, Logged
  <1>4. Collected \subseteq Collected'
    BY CollectedStep DEF Interrupt, Collected, loop
  <1>5. CASE Collect
    <2>1. /\ mpc = "collect" /\ mpc' \in {"drain", "report"}
          /\ UNCHANGED <<reported, stop>>
      BY <1>5 DEF Collect
    <2>2. Head(result_queue).item \notin Collected
      BY <1>5, ResultHead, TailFacts DEF Collect, OnePlace, ResultOnce
    <2>3. Head(result_queue).item \in ParallelSet
      BY <1>5, ResultHead DEF Collect
    <2>4. /\ mpc' = "report" => current' = Head(result_queue).item /\ ~TcActive
          /\ mpc' = "drain" => UNCHANGED current
      BY <1>5 DEF Collect
    <2>5. mpc' = "report" => current' \notin reported
      BY <2>2, <2>3, <2>4 DEF Collected
    <2> QED BY <1>3, <1>4, <1>5, <2>1, <2>4, <2>5 DEF ReportLog
  <1>6. CASE Drain
    <2>1. TcActive /\ mpc = "drain" /\ UNCHANGED <<reported, stop>>
      BY <1>6 DEF Drain, LoopInv, TerminalLoop, InLoop, InTry
    <2>2. reported = {parallel_items[k] : k \in 1 .. next_report_idx}
      BY <2>1 DEF LoopInv, TeamCityLoop, InLoop, InTry
    <2>3. CASE mpc' = "report"
      <3>1. /\ next_report_idx < NumItems
            /\ current' = parallel_items[next_report_idx + 1]
        BY <1>6, <2>3 DEF Drain
      <3>2. DOMAIN parallel_items = 1 .. NumItems
        BY DEF NumItems
      <3>3. \A k \in 1 .. next_report_idx :
               parallel_items[k] # parallel_items[next_report_idx + 1]
        <4>1. next_report_idx \in Nat /\ NumItems \in Nat
          BY <3>1, SizesAreNat DEF TypeInv, TypeOK, MainTypeOK
        <4>2. IsInjective(parallel_items)
          BY PoolAssumption
        <4> QED BY <3>1, <3>2, <4>1, <4>2 DEF IsInjective
      <3>4. current' \notin reported
        BY <2>2, <3>1, <3>3
      <3> QED BY <1>3, <1>4, <2>1, <2>3, <3>4 DEF ReportLog
    <2>4. CASE mpc' = "collect"
      BY <1>3, <1>4, <1>6, <2>1, <2>4 DEF ReportLog, Drain
    <2> QED BY <1>6, <2>3, <2>4 DEF Drain
  <1>7. CASE ReportDone
    <2>1. ~ReportLog /\ mpc = "restoring" /\ mpc' = resume
      BY <1>7 DEF ReportDone, ReportLog
    <2> QED BY <1>3, <1>4, <1>7, <2>1 DEF ReportDone
  <1>8. CASE Straggler
    <2>1. ~ReportLog
      BY <1>8 DEF Straggler, ReportLog
    <2> QED BY <1>3, <1>4, <1>8, <2>1 DEF Straggler
  <1>9. CASE Interrupt
    <2>1. ~ReportLog
      BY <1>9 DEF Interrupt, ReportLog
    <2> QED BY <1>3, <1>4, <1>9, <2>1 DEF Interrupt, InTry, StopInv
  <1>10. CASE ReportKeyError \/ ReportRaises
    <2>1. ~ReportLog
      BY <1>10 DEF ReportKeyError, ReportRaises, ReportLog
    <2> QED BY <1>3, <1>4, <1>10, <2>1 DEF ReportKeyError, ReportRaises, outside
  <1>11. CASE ReportSuppress
    <2>1. ~ReportLog
      BY <1>11 DEF ReportSuppress, ReportLog
    <2> QED BY <1>3, <1>4, <1>11, <2>1 DEF ReportSuppress, outside
  <1>12. CASE Main /\ ~(ReportLog \/ Collect \/ Drain \/ ReportDone \/ Straggler
                       \/ ReportKeyError \/ ReportRaises \/ ReportSuppress)
    <2>1. /\ mpc \notin {"report", "logging", "restoring", "escaped"}
          /\ mpc' \notin {"report", "logging", "restoring", "escaped"}
          /\ UNCHANGED <<current, reported, interrupted>>
      BY <1>12 DEF Main, Spawn, Submit, CollectDone, PutPill, PillsDone, Join,
         StragglersDone, RestoreStreams, PopStack, TeardownReport,
         TeardownShared, elsewhere, outside
    <2> QED BY <1>3, <1>4, <1>12, <2>1
  <1> QED BY <1>1, <1>5, <1>6, <1>7, <1>8, <1>9, <1>10, <1>11,
             <1>12 DEF Main

LEMMA MainInvFrame ==
  ASSUME UNCHANGED mainOnly
  PROVE  /\ StopInv => StopInv'
         /\ LoopInv => LoopInv'
         /\ LogInv => LogInv'
  <1>1. UNCHANGED <<Collected, Logged, ReportedOnce>>
    BY DEF mainOnly, loop, Collected, Logged, ReportedOnce
  <1> QED BY <1>1 DEF mainOnly, loop, stop, session, StopInv, LoopInv,
             TerminalLoop, TeamCityLoop, InLoop, InTry, Reporting, Undisturbed,
             LogInv

LEMMA ItemsInit == Init => ItemsInv
  <1> SUFFICES ASSUME Init PROVE ItemsInv
    OBVIOUS
  <1> USE PoolAssumption, SizesAreNat DEF Init
  <1>1. Submitted = {} /\ Collected = {} /\ Logged = {}
    BY DEF Submitted, Collected, Logged
  <1>2. OnePlace
    BY <1>1 DEF OnePlace, WaitsOnce, HeldOnce, ResultOnce
  <1>3. FreeHands /\ StopInv
    BY DEF FreeHands, StopInv
  <1>4. Cardinality(reported) = 0 /\ Cardinality(ready) = 0
    BY FS_EmptySet
  <1>5. LoopInv
    BY <1>4 DEF LoopInv, TerminalLoop, TeamCityLoop, InLoop, InTry, Reporting,
       Undisturbed
  <1>6. LogInv
    BY <1>1 DEF LogInv, ReportedOnce, Reporting, Undisturbed
  <1> QED BY <1>2, <1>3, <1>5, <1>6 DEF ItemsInv

LEMMA ItemsStep == TypeInv /\ ItemsInv /\ [Next]_vars => ItemsInv'
  <1> SUFFICES ASSUME TypeInv, ItemsInv, [Next]_vars PROVE ItemsInv'
    OBVIOUS
  <1> USE DEF ItemsInv
  <1>1. FreeHands'
    BY FreeHandsStep
  <1>2. ASSUME NEW w \in Workers, Worker(w) PROVE ItemsInv'
    BY <1>1, <1>2, OnePlaceByWorker, WorkerFrame, MainInvFrame
  <1>3. CASE Main \/ Interrupt
    BY <1>1, <1>3, OnePlaceByMain, StopStep, LoopStep, LogStep
  <1>4. CASE UNCHANGED vars
    <2>1. UNCHANGED <<mainOnly, Submitted, Collected, work_queue, result_queue, work_item>>
      BY <1>4 DEF vars, mainOnly, queues, workers, loop, stop, session,
         Submitted, Collected
    <2>2. OnePlace'
      BY <2>1 DEF OnePlace, WaitsOnce, HeldOnce, ResultOnce
    <2> QED BY <1>1, <2>1, <2>2, MainInvFrame
  <1> QED BY <1>2, <1>3, <1>4 DEF Next, Terminated

(* What the next proofs start from. *)
LEMMA ItemsAlways == Spec => [](TypeInv /\ ItemsInv)
  BY TypeInvInductive, ItemsInit, ItemsStep, PTL DEF Spec

(* No result is reported twice: an item reaches main once, because it is   *)
(* in one place at a time and moves only forward, and the straggler loop   *)
(* takes what the collection loop has left.                                *)
THEOREM EveryResultReportedOnce == Spec => []ReportedOnce
  BY ItemsAlways, PTL DEF ItemsInv, LogInv
-----------------------------------------------------------------------------
(* In TeamCity mode the log follows parallel_items. *)
LEMMA OrderStep == TypeInv /\ ItemsInv /\ OrderInv /\ [Next]_vars => OrderInv'
  <1> SUFFICES ASSUME TypeInv, ItemsInv, OrderInv, [Next]_vars, TcActive
               PROVE  OrderInv'
    BY DEF OrderInv
  <1> USE PoolAssumption, SizesAreNat
      DEF OrderInv, InLoop, InTry, Undisturbed, TypeInv, TypeOK, MainTypeOK
  <1>1. ASSUME NEW w \in Workers, Worker(w) PROVE OrderInv'
    BY <1>1, WorkerFrame DEF mainOnly, loop, stop
  <1>2. CASE ReportLog
    <2>1. /\ mpc = "logging" /\ mpc' = "restoring" /\ ~interrupted
          /\ UNCHANGED <<next_report_idx, resume, interrupted>>
      BY <1>2 DEF ReportLog, loop, stop, ItemsInv, StopInv
    <2>2. /\ DOMAIN log = 1 .. Len(log) /\ Len(log) \in Nat
          /\ next_report_idx \in 0 .. NumItems
      OBVIOUS
    <2>0. /\ DOMAIN log' = DOMAIN log \cup {Len(log) + 1} /\ Len(log') = Len(log) + 1
          /\ log'[Len(log) + 1].item = current
          /\ \A k \in DOMAIN log : log'[k] = log[k]
      BY <1>2, LogAppend
    <2>3. CASE resume = "stragglers"
      <3>1. /\ Len(log) >= NumItems
            /\ \A k \in DOMAIN log : k <= NumItems => log[k].item = parallel_items[k]
        BY <2>1, <2>3
      <3>2. \A k \in DOMAIN log' : k <= NumItems => log'[k].item = parallel_items[k]
        <4> HIDE DEF TypeInv, OrderInv
        <4> QED BY <2>0, <2>2, <3>1
      <3>3. Len(log') >= NumItems
        <4> HIDE DEF TypeInv, OrderInv
        <4> QED BY <2>0, <2>2, <3>1
      <3> QED BY <2>1, <2>3, <3>2, <3>3
    <2>4. CASE resume # "stragglers"
      <3>1. /\ Len(log) = next_report_idx
            /\ current = parallel_items[next_report_idx + 1]
        BY <2>1, <2>4 DEF ItemsInv, LoopInv, TeamCityLoop, Reporting
      <3>2. \A k \in DOMAIN log' : k <= NumItems => log'[k].item = parallel_items[k]
        BY <1>2, <3>1, LogAppend
      <3>3. Len(log') = next_report_idx' + 1
        BY <1>2, <2>1, <3>1, LogAppend
      <3> QED BY <2>1, <2>4, <3>2, <3>3
    <2> QED BY <2>3, <2>4
  <1>3. CASE ReportDone
    BY <1>3 DEF ReportDone, stop, ItemsInv, LoopInv, TeamCityLoop, Reporting
  <1>4. CASE CollectDone
    <2>1. /\ mpc = "collect" /\ collected = NumItems /\ mpc' = "pills"
          /\ UNCHANGED <<loop, log, stop, resume>>
      BY <1>4 DEF CollectDone, elsewhere, outside
    <2>2. ready = ParallelSet
      BY <2>1, AllCounted DEF ItemsInv, LoopInv, TeamCityLoop
    <2>3. DOMAIN parallel_items = 1 .. NumItems
      BY DEF NumItems
    <2>4. next_report_idx = NumItems
      BY <2>1, <2>2, <2>3 DEF ItemsInv, LoopInv, TeamCityLoop, ParallelSet, Range
    <2> QED BY <2>1, <2>4 DEF loop, stop
  <1>5. CASE Main /\ ~(ReportLog \/ ReportDone \/ CollectDone)
    BY <1>5 DEF Main, Spawn, Submit, Collect, Drain, ReportSuppress,
     ReportKeyError, ReportRaises, PutPill, PillsDone, Join, Straggler,
     StragglersDone, RestoreStreams, PopStack, TeardownReport, TeardownShared,
     elsewhere, outside, loop, stop
  <1>6. CASE Interrupt
    BY <1>6 DEF Interrupt, loop
  <1>7. CASE UNCHANGED vars
    BY <1>7 DEF vars, loop, stop
  <1> QED BY <1>1, <1>2, <1>3, <1>4, <1>5, <1>6, <1>7 DEF Next, Terminated

(* In TeamCity mode the items that ran are reported in collection order:   *)
(* main reports parallel_items[next_report_idx + 1] and nothing else until *)
(* it has reported them all.                                               *)
THEOREM ReportsInCollectionOrder == Spec => []RanInCollectionOrder
  <1>1. Init => OrderInv
    BY SizesAreNat DEF Init, OrderInv, InLoop, Undisturbed
  <1>2. OrderInv => RanInCollectionOrder
    BY DEF OrderInv, RanInCollectionOrder
  <1> QED BY <1>1, <1>2, OrderStep, ItemsAlways, PTL DEF Spec
-----------------------------------------------------------------------------
(* Only a worker changes the work queue by taking from it; an item of main *)
(* is neither waiting nor held.                                            *)
LEMMA NotWaiting ==
  ASSUME TypeInv, ItemsInv, NEW i \in Collected \cup SkippedSet
  PROVE  /\ i \notin ParallelSet \ Submitted
         /\ \A k \in DOMAIN work_queue : work_queue[k] # i
         /\ \A w \in Workers : work_item[w] # i
         /\ \A k \in DOMAIN result_queue : result_queue[k].item # i
  <1>1. i # None /\ Submitted \subseteq ParallelSet
    BY PoolAssumption, SubmittedFrame, SizesAreNat
       DEF SkippedSet, Collected, TypeInv, TypeOK, QueueTypeOK, MainTypeOK
  <1> QED BY <1>1 DEF ItemsInv, OnePlace, WaitsOnce, HeldOnce, ResultOnce,
             SkippedSet

LEMMA DisplayByWorker ==
  ASSUME NEW w \in Workers, Worker(w), TypeInv, ItemsInv, DisplayInv
  PROVE  /\ DisplayInv'
         /\ \A i \in ItemSet : item_state'[i] # item_state[i] =>
               <<item_state[i], item_state'[i]>> \in Forward
  <1> DEFINE A == \A i \in ItemSet : item_state'[i] # item_state[i] =>
                     <<item_state[i], item_state'[i]>> \in Forward
  <1> USE DEF TypeInv, TypeOK, WorkerTypeOK, ResultTypeOK, DisplayInv, Started, Goto
  <1>0. UNCHANGED Submitted
    BY WorkerPlacesKept
  <1>1. CASE Get(w)
    <2>1. work_queue \in Seq(ParallelSet \cup {None}) /\ work_queue # <<>>
      BY <1>1 DEF Get, QueueTypeOK
    <2>2. /\ work_queue' = Tail(work_queue) /\ UNCHANGED item_state
      BY <1>1 DEF Get
    <2>3. /\ 1 \in DOMAIN work_queue /\ Head(work_queue) = work_queue[1]
          /\ \A k \in DOMAIN work_queue' :
                /\ k + 1 \in DOMAIN work_queue /\ work_queue'[k] = work_queue[k + 1]
      BY <2>1, <2>2, TailFacts
    <2> QED BY <1>0, <1>1, <2>2, <2>3 DEF Get
  <1>2. CASE MarkRunning(w) \/ MarkCallDone(w)
    <2> DEFINE x == work_item[w]
    <2>1. /\ x \in ParallelSet /\ x # None /\ x \in ItemSet
          /\ UNCHANGED <<work_queue, work_item>>
          /\ \/ UNCHANGED item_state /\ wpc' = [wpc EXCEPT ![w] = "fins"]
             \/ /\ wpc[w] = "gate" /\ item_state' = [item_state EXCEPT ![x] = "running"]
                /\ wpc' = [wpc EXCEPT ![w] = "running"] \/ wpc' = [wpc EXCEPT ![w] = "rescue"]
             \/ /\ wpc[w] = "called" /\ item_state' = [item_state EXCEPT ![x] = "call_done"]
                /\ wpc' = [wpc EXCEPT ![w] = "fins"] \/ wpc' = [wpc EXCEPT ![w] = "rescue"]
      BY <1>2, PoolAssumption DEF MarkRunning, MarkCallDone, BusyHasItem, Idle, queues
    <2>2. /\ \A k \in DOMAIN work_queue : work_queue[k] # None => work_queue[k] # x
          /\ \A v \in Workers : work_item[v] = x => v = w
          /\ x \in Submitted
      BY <2>1 DEF ItemsInv, OnePlace, WaitsOnce, HeldOnce
    <2>3. \A v \in Workers : wpc[v] \notin Idle => work_item[v] \in ItemSet
      BY PoolAssumption DEF BusyHasItem
    <2>4. A
      BY <2>1 DEF Forward
    <2>5. item_state'[x] \in {"running", "call_done", item_state[x]}
          /\ \A i \in ItemSet \ {x} : item_state'[i] = item_state[i]
      BY <2>1
    <2> HIDE DEF x
    <2>6. /\ \A i \in ParallelSet \ Submitted : item_state'[i] = "scheduled"
          /\ \A k \in DOMAIN work_queue : work_queue[k] # None =>
                item_state'[work_queue[k]] = "scheduled"
      BY <2>2, <2>5, PoolAssumption DEF QueueTypeOK
    <2>7. ASSUME NEW v \in Workers
          PROVE  /\ wpc'[v] \in Started => item_state'[work_item[v]] = "scheduled"
                 /\ wpc'[v] \in {"running", "called"} =>
                      item_state'[work_item[v]] = "running"
      <3>1. CASE v = w
        BY <2>1, <3>1 DEF x
      <3>2. CASE v # w
        BY <2>1, <2>2, <2>3, <2>5, <3>2 DEF Idle
      <3> QED BY <3>1, <3>2
    <2> QED BY <1>0, <2>1, <2>4, <2>6, <2>7
  <1>3. CASE PutResult(w)
    BY <1>0, <1>3 DEF PutResult
  <1>4. CASE ~(Get(w) \/ MarkRunning(w) \/ MarkCallDone(w) \/ PutResult(w))
    <2>1. /\ UNCHANGED <<work_queue, work_item, item_state>>
          /\ \E place \in WorkerPlaces :
                /\ wpc' = [wpc EXCEPT ![w] = place]
                /\ place \in Started => wpc[w] \in Started
                /\ place \in {"running", "called"} => wpc[w] = "running"
      BY <1>4 DEF Worker, CheckCancelled, EnterSetup, SetupPasses, SetupFails, RunTest,
         RunFinalizers, MakeReport, MakeReportRaises, Rescue, CaptureOutput,
         workerMoves, queues, WorkerPlaces
    <2> QED BY <1>0, <2>1
  <1> QED BY <1>1, <1>2, <1>3, <1>4

LEMMA DisplayByMain ==
  ASSUME Main \/ Interrupt, TypeInv, ItemsInv, DisplayInv
  PROVE  /\ DisplayInv'
         /\ \A i \in ItemSet : item_state'[i] # item_state[i] =>
               <<item_state[i], item_state'[i]>> \in Forward
  <1> USE DEF TypeInv, TypeOK, WorkerTypeOK, ResultTypeOK, DisplayInv, Started
  <1>0. UNCHANGED work_item /\ sent \in Nat
    BY MainPlacesKept, SizesAreNat DEF QueueTypeOK
  <1>1. CASE Spawn
    BY <1>1 DEF Spawn, queues, Submitted
  <1>2. CASE Submit
    <2> DEFINE x == parallel_items[sent + 1]
    <2>1. UNCHANGED <<wpc, item_state>> /\ work_queue' = Append(work_queue, x)
      BY <1>2 DEF Submit, workerOnly, workers
    <2>2. Submitted' = Submitted \cup {x} /\ x \in ParallelSet \ Submitted
      BY <1>0, <1>2, SubmitNext DEF Submit
    <2> HIDE DEF x
    <2>3. /\ DOMAIN work_queue' = DOMAIN work_queue \cup {Len(work_queue) + 1}
          /\ work_queue'[Len(work_queue) + 1] = x
          /\ \A k \in DOMAIN work_queue : work_queue'[k] = work_queue[k]
      BY <2>1, <2>2, AppendFacts DEF QueueTypeOK
    <2> QED BY <1>0, <2>1, <2>2, <2>3
  <1>3. CASE PutPill
    <2>1. UNCHANGED <<wpc, item_state>> /\ work_queue' = Append(work_queue, None)
      BY <1>3 DEF PutPill, workerOnly, workers
    <2>2. UNCHANGED Submitted
      BY <1>0, <1>3, SubmittedFrame DEF PutPill, ItemsInv, StopInv
    <2>3. /\ DOMAIN work_queue' = DOMAIN work_queue \cup {Len(work_queue) + 1}
          /\ work_queue'[Len(work_queue) + 1] = None
          /\ \A k \in DOMAIN work_queue : work_queue'[k] = work_queue[k]
      BY <2>1, AppendFacts DEF QueueTypeOK
    <2> QED BY <1>0, <2>1, <2>2, <2>3
  <1>4. CASE ReportDone
    <2>1. /\ item_state' = [item_state EXCEPT ![current] = "done"]
          /\ UNCHANGED <<work_queue, wpc, sent>> /\ Reporting
      BY <1>4 DEF ReportDone, workerOnly, workers, queues, Reporting
    <2>2. current \in Collected \cup SkippedSet
      BY <2>1, ReportedItem DEF ItemsInv
    <2>3. UNCHANGED Submitted
      BY <1>0, <2>1, SubmittedFrame
    <2>4. \A i \in ItemSet : i # current => item_state'[i] = item_state[i]
      BY <2>1
    <2>5. \A w \in Workers : wpc[w] \notin Idle => work_item[w] \in ItemSet
      BY PoolAssumption DEF BusyHasItem
    <2>6. /\ \A i \in ParallelSet \ Submitted : item_state'[i] = "scheduled"
          /\ \A k \in DOMAIN work_queue : work_queue[k] # None =>
                item_state'[work_queue[k]] = "scheduled"
          /\ \A w \in Workers : wpc[w] \notin Idle =>
                item_state'[work_item[w]] = item_state[work_item[w]]
      BY <2>2, <2>4, <2>5, NotWaiting, PoolAssumption DEF QueueTypeOK
    <2>7. DisplayInv'
      BY <1>0, <2>1, <2>3, <2>6 DEF Idle
    <2> QED BY <2>1, <2>7 DEF Forward
  <1>5. CASE (Main \/ Interrupt) /\ ~(Spawn \/ Submit \/ PutPill \/ ReportDone)
    <2>1. UNCHANGED <<work_queue, wpc, sent, item_state>>
      BY <1>5 DEF Main, Interrupt, Collect, Drain, CollectDone, ReportSuppress, ReportLog,
       ReportKeyError, ReportRaises, PillsDone, Join, Straggler, StragglersDone,
       RestoreStreams, PopStack, TeardownReport, TeardownShared, elsewhere,
       outside, workerOnly, workers, queues
    <2>2. UNCHANGED Submitted
      BY <1>0, <2>1, SubmittedFrame
    <2> QED BY <1>0, <2>1, <2>2
  <1> QED BY <1>1, <1>2, <1>3, <1>4, <1>5

LEMMA DisplayStep ==
  TypeInv /\ ItemsInv /\ DisplayInv /\ [Next]_vars =>
    /\ DisplayInv'
    /\ [\A i \in ItemSet : item_state'[i] # item_state[i] =>
          <<item_state[i], item_state'[i]>> \in Forward]_item_state
  <1> SUFFICES ASSUME TypeInv, ItemsInv, DisplayInv, [Next]_vars
               PROVE  /\ DisplayInv'
                      /\ \/ \A i \in ItemSet : item_state'[i] # item_state[i] =>
                              <<item_state[i], item_state'[i]>> \in Forward
                         \/ item_state' = item_state
    OBVIOUS
  <1>1. CASE UNCHANGED vars
    <2>1. UNCHANGED <<Submitted, work_queue, wpc, work_item, item_state>>
      BY <1>1 DEF vars, queues, workers, Submitted
    <2> QED BY <2>1 DEF DisplayInv
  <1> QED BY <1>1, DisplayByWorker, DisplayByMain DEF Next, Terminated

LEMMA DisplayAlways == Spec => [](TypeInv /\ ItemsInv /\ DisplayInv)
  <1>1. Init => DisplayInv
    BY PoolAssumption DEF Init, DisplayInv, Started
  <1> QED BY <1>1, DisplayStep, ItemsAlways, PTL DEF Spec

(* The body of no test is started twice or after its report: a worker      *)
(* starts only an item that was never displayed as running, and what it    *)
(* holds is neither in the queue, with another worker, nor reported.       *)
THEOREM NoBodyRunsTwice == Spec => BodiesRunOnce
  BY DisplayStep, DisplayAlways, PTL DEF Spec, BodiesRunOnce
-----------------------------------------------------------------------------
(* A worker stores data of its own item only, and adds to what is stored. *)
LEMMA StoresOwn ==
  ASSUME NEW w \in Workers, Worker(w), TypeInv
  PROVE  /\ \A i \in ItemSet : i # work_item[w] => setup_passed'[i] = setup_passed[i]
         /\ teardown_infos \subseteq teardown_infos'
         /\ captured_output \subseteq captured_output'
         /\ UNCHANGED <<cancelled, call_results, log>>
         /\ \A v \in Workers \ {w} :
               /\ wpc'[v] = wpc[v] /\ work_item'[v] = work_item[v]
               /\ locals'[v] = locals[v]
  <1> USE DEF TypeInv, TypeOK, WorkerTypeOK, ResultTypeOK
  <1>1. UNCHANGED <<cancelled, call_results, log>>
    <2>1. UNCHANGED <<cancelled, log>>
      BY WorkerFrame DEF mainOnly, stop
    <2>2. UNCHANGED call_results
      BY DEF Worker, Get, CheckCancelled, EnterSetup, SetupPasses, SetupFails,
         MarkRunning, RunTest, MarkCallDone, RunFinalizers, MakeReport,
         MakeReportRaises, Rescue, CaptureOutput, PutResult, workerMoves, shared
    <2> QED BY <2>1, <2>2
  <1>2. CASE MakeReport(w)
    BY <1>1, <1>2 DEF MakeReport, Goto
  <1>3. CASE Rescue(w)
    BY <1>1, <1>3 DEF Rescue, Goto
  <1>4. CASE CaptureOutput(w)
    BY <1>1, <1>4 DEF CaptureOutput, Goto
  <1>5. CASE Get(w)
    BY <1>1, <1>5 DEF Get, Goto, shared
  <1>6. CASE PutResult(w)
    BY <1>1, <1>6 DEF PutResult, Goto, shared
  <1>7. CASE ~(MakeReport(w) \/ Rescue(w) \/ CaptureOutput(w) \/ Get(w) \/ PutResult(w))
    <2>1. UNCHANGED <<shared, work_item>>
      BY <1>7 DEF Worker, CheckCancelled, EnterSetup, SetupPasses, SetupFails,
         MarkRunning, RunTest, MarkCallDone, RunFinalizers, MakeReportRaises,
         workerMoves
    <2>2. \A v \in Workers \ {w} : wpc'[v] = wpc[v] /\ locals'[v] = locals[v]
      BY <1>7 DEF Worker, CheckCancelled, EnterSetup, SetupPasses, SetupFails,
         MarkRunning, RunTest, MarkCallDone, RunFinalizers, MakeReportRaises,
         workerMoves, Goto
    <2> QED BY <1>1, <2>1, <2>2 DEF shared
  <1> QED BY <1>2, <1>3, <1>4, <1>5, <1>6, <1>7 DEF Worker

(* The data of the item that a worker handles, step by step. *)
LEMMA OwnDataStep ==
  ASSUME NEW w \in Workers, Worker(w), TypeInv, ItemsInv, DataInv
  PROVE  WorkerData(w)'
  <1>a. UNCHANGED cancelled
    BY StoresOwn
  <1>b. wpc[w] \notin Idle => work_item[w] \in ItemSet
    <2>1. work_item[w] \in ParallelSet \cup {None} /\ ParallelSet \subseteq ItemSet
      BY PoolAssumption DEF TypeInv, TypeOK, WorkerTypeOK
    <2> QED BY <2>1 DEF TypeInv, BusyHasItem
  <1> USE DEF TypeInv, TypeOK, WorkerTypeOK, ResultTypeOK, WorkerData, Ran,
          Unstored, Started, Passed, Goto, DataInv
  <1>0. /\ UNCHANGED cancelled
        /\ wpc[w] \notin Idle => work_item[w] \in ItemSet
    BY <1>a, <1>b
  <1>1. CASE Get(w)
    <2>1. /\ work_queue \in Seq(ParallelSet \cup {None}) /\ work_queue # <<>>
          /\ UNCHANGED setup_passed
      BY <1>1 DEF Get, QueueTypeOK, shared
    <2>2. 1 \in DOMAIN work_queue /\ Head(work_queue) = work_queue[1]
      BY <2>1, TailFacts
    <2>3. Head(work_queue) # None => setup_passed[Head(work_queue)] = "absent"
      BY <2>2 DEF NothingStored
    <2> QED BY <1>0, <1>1, <2>1, <2>3 DEF Get, NoLocals
  <1>2. CASE CheckCancelled(w) \/ EnterSetup(w)
    BY <1>0, <1>2 DEF CheckCancelled, EnterSetup, workerMoves, shared, Idle
  <1>3. CASE SetupPasses(w)
    BY <1>0, <1>3 DEF SetupPasses, shared
  <1>4. CASE SetupFails(w)
    BY <1>0, <1>4 DEF SetupFails, shared
  <1>5. CASE MarkRunning(w) \/ MarkCallDone(w)
    BY <1>0, <1>5 DEF MarkRunning, MarkCallDone, shared
  <1>6. CASE RunTest(w)
    BY <1>0, <1>6 DEF RunTest, shared, Locals
  <1>7. CASE RunFinalizers(w)
    BY <1>0, <1>7 DEF RunFinalizers, shared, Locals
  <1>8. CASE MakeReport(w)
    BY <1>0, <1>8 DEF MakeReport, Idle
  <1>9. CASE MakeReportRaises(w)
    BY <1>0, <1>9 DEF MakeReportRaises, workerMoves, shared
  <1>10. CASE Rescue(w)
    BY <1>0, <1>10 DEF Rescue, Idle
  <1>11. CASE CaptureOutput(w)
    BY <1>0, <1>11 DEF CaptureOutput
  <1>12. CASE PutResult(w)
    BY <1>0, <1>12 DEF PutResult, shared
  <1> QED BY <1>1, <1>2, <1>3, <1>4, <1>5, <1>6, <1>7, <1>8, <1>9, <1>10, <1>11,
             <1>12 DEF Worker

LEMMA DataByWorker ==
  ASSUME NEW w \in Workers, Worker(w), TypeInv, ItemsInv, DataInv
  PROVE  DataInv'
  <1> USE DEF TypeInv, TypeOK, WorkerTypeOK, ResultTypeOK, QueueTypeOK
  <1> DEFINE x == work_item[w]
  <1>1. /\ \A i \in ItemSet : i # x => setup_passed'[i] = setup_passed[i]
        /\ teardown_infos \subseteq teardown_infos'
        /\ captured_output \subseteq captured_output'
        /\ UNCHANGED <<cancelled, call_results, log, Submitted, Collected>>
    BY StoresOwn, WorkerPlacesKept
  <1>2. x \in ParallelSet \cup {None} /\ None \notin ItemSet /\ ParallelSet \subseteq ItemSet
    BY PoolAssumption
  <1>3. \A i \in Collected \cup SkippedSet : i # x /\ i \in ItemSet
    <2>1. Collected \subseteq ItemSet
      BY <1>2 DEF Collected, MainTypeOK
    <2> QED BY <2>1, NotWaiting DEF SkippedSet
  <1>4. x # None => /\ x \in Submitted
                    /\ \A k \in DOMAIN work_queue : work_queue[k] # x
                    /\ \A k \in DOMAIN result_queue : result_queue[k].item # x
    BY DEF ItemsInv, OnePlace, WaitsOnce, HeldOnce
  <1> HIDE DEF x
  <1>5. ASSUME NEW v \in Workers PROVE WorkerData(v)'
    <2>1. CASE v = w
      BY <2>1, OwnDataStep
    <2>2. CASE v # w
      <3>1. wpc'[v] = wpc[v] /\ work_item'[v] = work_item[v] /\ locals'[v] = locals[v]
        BY <2>2, StoresOwn
      <3>2. wpc[v] \notin Idle => work_item[v] # x /\ work_item[v] \in ItemSet
        BY <1>2, <2>2 DEF x, BusyHasItem, ItemsInv, OnePlace, HeldOnce
      <3>3. wpc[v] \notin Idle => setup_passed'[work_item[v]] = setup_passed[work_item[v]]
        BY <1>1, <3>2
      <3>4. WorkerData(v)
        BY DEF DataInv
      <3> QED BY <1>1, <3>1, <3>3, <3>4 DEF WorkerData, Ran, Passed, Unstored,
                 Started, Idle
    <2> QED BY <2>1, <2>2
  <1>6. NothingStored'
    <2>1. /\ \A i \in SkippedSet : setup_passed'[i] = "failed"
          /\ \A i \in ParallelSet \ Submitted : setup_passed'[i] = "absent"
          /\ \A k \in DOMAIN work_queue : work_queue[k] # None =>
                setup_passed'[work_queue[k]] = "absent"
      BY <1>1, <1>2, <1>3, <1>4 DEF DataInv, NothingStored, SkippedSet
    <2>2. CASE Get(w)
      <3>1. /\ work_queue # <<>> /\ work_queue' = Tail(work_queue)
        BY <2>2 DEF Get
      <3>2. \A k \in DOMAIN work_queue' :
              k + 1 \in DOMAIN work_queue /\ work_queue'[k] = work_queue[k + 1]
        BY <3>1, TailFacts
      <3> QED BY <1>1, <2>1, <3>2 DEF NothingStored
    <2>3. CASE UNCHANGED work_queue
      BY <1>1, <2>1, <2>3 DEF NothingStored
    <2> QED BY <2>2, <2>3, WorkerPlacesKept DEF PutResult, placeVars
  <1>7. Stored'
    <2>1. \A i \in ItemSet : Passed(i)' => i \in teardown_infos'
      <3>1. CASE MakeReport(w)
        <4>1. /\ setup_passed' = [setup_passed EXCEPT ![x] =
                     IF locals[w].setup = "ok" THEN "passed" ELSE "failed"]
              /\ wpc[w] = "makereport"
              /\ locals[w].td => teardown_infos' = teardown_infos \cup {x}
          BY <3>1 DEF MakeReport, x
        <4>2. locals[w].setup = "ok" => locals[w].td
          BY <4>1 DEF DataInv, WorkerData
        <4> QED BY <1>1, <4>1, <4>2 DEF DataInv, Stored, Passed
      <3>2. CASE Rescue(w)
        <4>1. \/ UNCHANGED setup_passed
              \/ setup_passed' = [setup_passed EXCEPT ![x] = "failed"]
          BY <3>2 DEF Rescue, x
        <4> QED BY <1>1, <4>1 DEF DataInv, Stored, Passed
      <3>3. CASE ~(MakeReport(w) \/ Rescue(w))
        <4>1. UNCHANGED setup_passed
          BY <3>3 DEF Worker, Get, CheckCancelled, EnterSetup, SetupPasses,
             SetupFails, MarkRunning, RunTest, MarkCallDone, RunFinalizers,
             MakeReportRaises, CaptureOutput, PutResult, workerMoves, shared
        <4> QED BY <1>1, <4>1 DEF DataInv, Stored, Passed
      <3> QED BY <3>1, <3>2, <3>3
    <2>2. /\ ~cancelled => \A i \in Collected : Passed(i)' =>
                i \in call_results' \cap captured_output'
          /\ ~cancelled => \A k \in DOMAIN result_queue :
                setup_passed'[result_queue[k].item] = "passed" =>
                   result_queue[k].call /\ result_queue[k].item \in captured_output'
      <3>0. \A k \in DOMAIN result_queue : result_queue[k] \in ResultEntry
        OBVIOUS
      <3>1. \A k \in DOMAIN result_queue : result_queue[k].item \in ItemSet
        BY <1>2, <3>0 DEF ResultEntry
      <3>2. \A k \in DOMAIN result_queue : result_queue[k].item # x
        BY <1>2, <1>4, <3>1
      <3> QED BY <1>1, <1>2, <1>3, <3>1, <3>2 DEF DataInv, Stored, Passed
    <2>3. \A k \in DOMAIN log : setup_passed'[log[k].item] = "passed" =>
             log[k].call /\ log[k].item \in captured_output'
      <3>1. \A k \in DOMAIN log : log[k].item \in Collected \cup SkippedSet
        BY DEF ItemsInv, LogInv, Logged
      <3> QED BY <1>1, <1>3, <3>1 DEF DataInv, Stored, Passed
    <2>4. CASE PutResult(w)
      <3> DEFINE r == [item |-> x, call |-> locals[w].call # "none"]
      <3>1. /\ result_queue' = Append(result_queue, r) /\ x # None
            /\ UNCHANGED <<setup_passed, captured_output>>
            /\ r.item = x /\ r.call = (locals[w].call # "none")
            /\ wpc[w] \in {"put", "lastput"}
        BY <2>4 DEF PutResult, shared, x, BusyHasItem, Idle
      <3>2. r \in ResultEntry
        BY <1>2, <3>1 DEF ResultEntry
      <3>3. ~cancelled /\ Passed(x) => r.call /\ x \in captured_output
        BY <3>1 DEF DataInv, WorkerData, Ran, x, Unstored, Passed
      <3> HIDE DEF r
      <3>4. /\ DOMAIN result_queue' = DOMAIN result_queue \cup {Len(result_queue) + 1}
            /\ result_queue'[Len(result_queue) + 1] = r
            /\ \A k \in DOMAIN result_queue : result_queue'[k] = result_queue[k]
        BY <3>1, <3>2, AppendFacts
      <3>5. ~cancelled => \A k \in DOMAIN result_queue' :
                setup_passed'[result_queue'[k].item] = "passed" =>
                   result_queue'[k].call /\ result_queue'[k].item \in captured_output'
        BY <2>2, <3>1, <3>3, <3>4 DEF Passed
      <3> QED BY <1>1, <2>1, <2>2, <2>3, <3>5 DEF Stored, Passed
    <2>5. CASE UNCHANGED result_queue
      BY <1>1, <2>1, <2>2, <2>3, <2>5 DEF Stored, Passed
    <2> QED BY <2>4, <2>5, WorkerPlacesKept DEF Get, placeVars
  <1> QED BY <1>5, <1>6, <1>7 DEF DataInv

(* The main thread only reads what the workers stored, except for the      *)
(* result of the call, which it stores before it reports the item.         *)
LEMMA DataByMain ==
  ASSUME Main \/ Interrupt, TypeInv, ItemsInv, DataInv
  PROVE  DataInv'
  <1> USE DEF TypeInv, TypeOK, QueueTypeOK, DataInv, Passed
  <1>1. /\ UNCHANGED <<work_item, locals, setup_passed, teardown_infos, captured_output>>
        /\ cancelled => cancelled'
        /\ cancelled' \in BOOLEAN
    <2>1. cancelled \in BOOLEAN
      BY DEF MainTypeOK
    <2> QED BY <2>1 DEF Main, Interrupt, Spawn, Submit, Collect, Drain, CollectDone, ReportSuppress,
     ReportLog, ReportKeyError, ReportRaises, ReportDone, PutPill, PillsDone,
     Join, Straggler, StragglersDone, RestoreStreams, PopStack, TeardownReport,
     TeardownShared, elsewhere, outside, workerOnly, workers, shared, stop
  <1>2. \A w \in Workers : WorkerData(w)'
    <2>1. CASE Spawn
      BY <2>1 DEF Spawn, WorkerData, Ran, Unstored, Started
    <2>2. CASE ~Spawn
      <3>1. UNCHANGED wpc
        BY <2>2 DEF Main, Interrupt, Submit, Collect, Drain, CollectDone, ReportSuppress,
         ReportLog, ReportKeyError, ReportRaises, ReportDone, PutPill, PillsDone,
         Join, Straggler, StragglersDone, RestoreStreams, PopStack, TeardownReport,
         TeardownShared, elsewhere, outside, workerOnly, workers
      <3> QED BY <1>1, <3>1 DEF WorkerData, Ran
    <2> QED BY <2>1, <2>2
  <1>3. sent \in Nat
    BY SizesAreNat
  <1>4. NothingStored'
    <2>1. CASE Submit
      <3> DEFINE x == parallel_items[sent + 1]
      <3>1. work_queue' = Append(work_queue, x)
        BY <2>1 DEF Submit
      <3>2. Submitted' = Submitted \cup {x} /\ x \in ParallelSet \ Submitted
        BY <1>3, <2>1, SubmitNext DEF Submit
      <3> HIDE DEF x
      <3>3. /\ DOMAIN work_queue' = DOMAIN work_queue \cup {Len(work_queue) + 1}
            /\ work_queue'[Len(work_queue) + 1] = x
            /\ \A k \in DOMAIN work_queue : work_queue'[k] = work_queue[k]
        BY <3>1, <3>2, AppendFacts
      <3> QED BY <1>1, <3>2, <3>3 DEF NothingStored
    <2>2. CASE PutPill
      <3>1. work_queue' = Append(work_queue, None)
        BY <2>2 DEF PutPill
      <3>2. UNCHANGED Submitted
        BY <1>3, <2>2, SubmittedFrame DEF PutPill, ItemsInv, StopInv
      <3>3. /\ DOMAIN work_queue' = DOMAIN work_queue \cup {Len(work_queue) + 1}
            /\ work_queue'[Len(work_queue) + 1] = None
            /\ \A k \in DOMAIN work_queue : work_queue'[k] = work_queue[k]
        BY <3>1, AppendFacts
      <3> QED BY <1>1, <3>2, <3>3 DEF NothingStored
    <2>3. CASE ~(Submit \/ PutPill)
      <3>1. UNCHANGED <<work_queue, sent>>
        BY <2>3, MainPlacesKept
           DEF MainMoves, placeVars, Collect, Drain, ReportDone, Straggler, queues
      <3> QED BY <1>1, <1>3, <3>1, SubmittedFrame DEF NothingStored
    <2> QED BY <2>1, <2>2, <2>3
  <1>5. Stored'
    <2>1. CASE Collect
      <3> DEFINE r == Head(result_queue)
      <3>1. /\ result_queue # <<>> /\ result_queue' = Tail(result_queue)
            /\ call_results' = IF r.call THEN call_results \cup {r.item} ELSE call_results
            /\ UNCHANGED <<log, cancelled>>
        BY <2>1 DEF Collect, stop
      <3>2. Collected' = Collected \cup {r.item}
        BY <2>1, CollectedStep DEF ItemsInv, Main
      <3>3. /\ 1 \in DOMAIN result_queue /\ r = result_queue[1]
            /\ \A k \in DOMAIN result_queue' :
                  k + 1 \in DOMAIN result_queue /\ result_queue'[k] = result_queue[k + 1]
        BY <3>1, TailFacts
      <3> HIDE DEF r
      <3> QED BY <1>1, <3>1, <3>2, <3>3 DEF Stored
    <2>2. CASE ReportLog
      <3>1. /\ UNCHANGED <<result_queue, call_results, cancelled, Collected>>
            /\ Reporting
        BY <2>2 DEF ReportLog, queues, stop, Collected, loop, Reporting
      <3>2. current \in Collected \cup SkippedSet
        BY <3>1, ReportedItem DEF ItemsInv
      <3>3. ~cancelled
        BY <3>1 DEF Reporting, ItemsInv, StopInv
      <3>4. Passed(current) => current \in call_results \cap captured_output
        BY <3>2, <3>3 DEF Stored, NothingStored
      <3>5. /\ DOMAIN log' = DOMAIN log \cup {Len(log) + 1}
            /\ log'[Len(log) + 1].item = current
            /\ log'[Len(log) + 1].call = (/\ setup_passed[current] = "passed"
                                          /\ current \in call_results)
            /\ \A k \in DOMAIN log : log'[k] = log[k]
        BY <2>2, LogAppend
      <3> HIDE DEF TypeInv
      <3> QED BY <1>1, <3>1, <3>4, <3>5 DEF Stored
    <2>3. CASE ~(Collect \/ ReportLog)
      <3>1. UNCHANGED <<result_queue, call_results, log>>
        BY <2>3 DEF Main, Interrupt, Spawn, Submit, Drain, CollectDone, ReportSuppress,
         ReportKeyError, ReportRaises, ReportDone, PutPill, PillsDone, Join,
         Straggler, StragglersDone, RestoreStreams, PopStack, TeardownReport,
         TeardownShared, elsewhere, outside, queues, shared
      <3>2. UNCHANGED Collected
        BY <2>3, CollectedStep DEF ItemsInv, Interrupt, Collected, loop
      <3> QED BY <1>1, <3>1, <3>2 DEF Stored
    <2> QED BY <2>1, <2>2, <2>3
  <1> QED BY <1>2, <1>4, <1>5

LEMMA DataAlways == Spec => [](TypeInv /\ ItemsInv /\ DataInv)
  <1>1. Init => DataInv
    BY PoolAssumption DEF Init, DataInv, NothingStored, Stored, WorkerData, Ran,
       Passed, Unstored, Started, SkippedSet, Collected
  <1>2. TypeInv /\ ItemsInv /\ DataInv /\ [Next]_vars => DataInv'
    <2> SUFFICES ASSUME TypeInv, ItemsInv, DataInv, [Next]_vars PROVE DataInv'
      OBVIOUS
    <2>1. CASE UNCHANGED vars
      <3>1. UNCHANGED <<Submitted, Collected>>
        BY <2>1 DEF vars, loop, Submitted, Collected
      <3> QED BY <2>1, <3>1 DEF vars, queues, workers, shared, stop, DataInv,
                 NothingStored, Stored, WorkerData, Ran, Passed
    <2> QED BY <2>1, DataByWorker, DataByMain DEF Next, Terminated
  <1> QED BY <1>1, <1>2, ItemsAlways, PTL DEF Spec

(* When the result of an item whose setup passed is reported, its worker   *)
(* has let go of it and has stored its call, its output and its teardown:  *)
(* the put into the result queue comes last, and main stores the call      *)
(* before it reports.  It holds in an interrupted run too, because nothing *)
(* is reported after the interrupt.                                        *)
THEOREM ReportHasWorkerData == Spec => []ReportSeesWorkerData
  <1>1. TypeInv /\ ItemsInv /\ DataInv => ReportSeesWorkerData
    <2> SUFFICES ASSUME TypeInv, ItemsInv, DataInv, NEW k \in DOMAIN log
                 PROVE  LET i == log[k].item
                        IN  /\ \A w \in Workers : work_item[w] # i
                            /\ setup_passed[i] = "passed" =>
                                  /\ log[k].call
                                  /\ i \in captured_output \cap teardown_infos
      BY DEF ReportSeesWorkerData
    <2>1. log[k].item \in Collected \cup SkippedSet
      BY DEF ItemsInv, LogInv, Logged
    <2>2. log[k].item \in ItemSet
      BY <2>1, PoolAssumption DEF Collected, SkippedSet, TypeInv, TypeOK, MainTypeOK
    <2> QED BY <2>1, <2>2, NotWaiting DEF DataInv, Stored, Passed
  <1> QED BY <1>1, DataAlways, PTL

-----------------------------------------------------------------------------
(* WorkerPool implements GroupRun: the initial states map to the initial   *)
(* states and every step of the pool is a step of the group or changes     *)
(* nothing of it.  Proved for the safety part, Group!GroupSafety.          *)

(* The arms of ItemPhase exclude each other, because an item is in one     *)
(* place (OnePlace), and so they say where it is.                          *)
OneArm ==
  \A i \in ItemSet : /\ i \in Logged => i \notin Queued /\ i \notin Held
                     /\ i \in Queued => i \notin Held

PhaseFacts ==
  \A i \in ItemSet :
     /\ i \in torn => ItemPhase[i] = "closed"
     /\ i \notin torn =>
          /\ i \in Logged => ItemPhase[i] = "reported"
          /\ i \in Queued => ItemPhase[i] = "waiting"
          /\ i \in Held => ItemPhase[i] = "executing"
          /\ i \notin Logged \cup Queued \cup Held => ItemPhase[i] = "finished"

(* Where an item is does not change in a step. *)
SamePlace(i) == /\ i \in torn' <=> i \in torn
                /\ i \in Logged' <=> i \in Logged
                /\ i \in Queued' <=> i \in Queued
                /\ i \in Held' <=> i \in Held

LEMMA ArmsExclude == TypeInv /\ ItemsInv => OneArm
  <1> SUFFICES ASSUME TypeInv, ItemsInv, NEW i \in ItemSet
               PROVE  /\ i \in Logged => i \notin Queued /\ i \notin Held
                      /\ i \in Queued => i \notin Held
    BY DEF OneArm
  <1>1. ASSUME i \in Logged PROVE i \notin Queued /\ i \notin Held
    <2>1. i \in Collected \cup SkippedSet
      BY <1>1 DEF ItemsInv, LogInv
    <2> QED BY <2>1, NotWaiting DEF Queued, Held
  <1>2. ASSUME i \in Queued PROVE i \notin Held
    BY <1>2, PoolAssumption
       DEF Queued, Held, ItemsInv, OnePlace, WaitsOnce, HeldOnce
  <1> QED BY <1>1, <1>2

LEMMA PhasesRead == OneArm => PhaseFacts
  <1>1. ASSUME OneArm, NEW i \in ItemSet
        PROVE  /\ i \in torn => ItemPhase[i] = "closed"
               /\ i \notin torn =>
                    /\ i \in Logged => ItemPhase[i] = "reported"
                    /\ i \in Queued => ItemPhase[i] = "waiting"
                    /\ i \in Held => ItemPhase[i] = "executing"
                    /\ i \notin Logged \cup Queued \cup Held =>
                         ItemPhase[i] = "finished"
    <2>1. ItemPhase[i] = CASE i \in torn -> "closed"
                            [] i \in Logged \ torn -> "reported"
                            [] i \in Queued \ torn -> "waiting"
                            [] i \in Held \ torn -> "executing"
                            [] OTHER -> "finished"
      BY DEF ItemPhase
    <2>2. CASE i \in torn
      BY <2>1, <2>2
    <2>3. CASE i \in Logged \ torn
      <3>1. i \notin Queued /\ i \notin Held
        BY <1>1, <2>3 DEF OneArm
      <3>2. ItemPhase[i] = "reported"
        BY <2>1, <2>3, <3>1
      <3> QED BY <2>3, <3>1, <3>2
    <2>4. CASE i \in Queued \ torn
      <3>1. i \notin Logged /\ i \notin Held
        BY <1>1, <2>4 DEF OneArm
      <3>2. ItemPhase[i] = "waiting"
        BY <2>1, <2>4, <3>1
      <3> QED BY <2>4, <3>1, <3>2
    <2>5. CASE i \in Held \ torn
      <3>1. i \notin Logged /\ i \notin Queued
        BY <1>1, <2>5 DEF OneArm
      <3>2. ItemPhase[i] = "executing"
        BY <2>1, <2>5, <3>1
      <3> QED BY <2>5, <3>1, <3>2
    <2>6. CASE i \notin torn \cup Logged \cup Queued \cup Held
      BY <1>1, <2>1, <2>6
    <2> QED BY <1>1, <2>2, <2>3, <2>4, <2>5, <2>6 DEF OneArm
  <1> QED BY <1>1 DEF PhaseFacts

(* The phase of an item follows its place, and no other phase changes. *)
LEMMA PhaseStep ==
  ASSUME PhaseFacts, PhaseFacts', NEW x \in ItemSet,
         \A i \in ItemSet : i # x => SamePlace(i)
  PROVE  ItemPhase' = [ItemPhase EXCEPT ![x] = ItemPhase'[x]]
  <1>1. \A i \in ItemSet : i # x => ItemPhase'[i] = ItemPhase[i]
    BY DEF PhaseFacts, SamePlace
  <1>2. /\ ItemPhase = [i \in ItemSet |-> ItemPhase[i]]
        /\ ItemPhase' = [i \in ItemSet |-> ItemPhase'[i]]
    BY DEF ItemPhase
  <1> HIDE DEF ItemPhase
  <1> QED BY <1>1, <1>2

LEMMA PhaseKept ==
  ASSUME PhaseFacts, PhaseFacts', \A i \in ItemSet : SamePlace(i)
  PROVE  UNCHANGED ItemPhase
  <1>1. \A i \in ItemSet : ItemPhase'[i] = ItemPhase[i]
    BY DEF PhaseFacts, SamePlace
  <1>2. /\ ItemPhase = [i \in ItemSet |-> ItemPhase[i]]
        /\ ItemPhase' = [i \in ItemSet |-> ItemPhase'[i]]
    BY DEF ItemPhase
  <1> QED BY <1>1, <1>2
-----------------------------------------------------------------------------
(* The steps that move an item from one phase to the next. *)
LEMMA GetIsBegin ==
  ASSUME NEW w \in Workers, Get(w), TypeInv, ItemsInv, PhaseFacts, PhaseFacts'
  PROVE  UNCHANGED ItemPhase \/ \E x \in ItemSet : Group!Begin(x)
  <1> DEFINE x == work_queue[1]
  <1>1. /\ work_queue \in Seq(ParallelSet \cup {None}) /\ work_queue # <<>>
        /\ work_queue' = Tail(work_queue) /\ UNCHANGED <<torn, log, sent, sigint, mpc>>
        /\ work_item \in [Workers -> ParallelSet \cup {None}]
    BY WorkerFrame DEF Get, TypeInv, TypeOK, QueueTypeOK, WorkerTypeOK, mainOnly,
       session, stop, Worker
  <1>2. /\ 1 \in DOMAIN work_queue /\ Head(work_queue) = x
        /\ \A k \in DOMAIN work_queue' :
              /\ k + 1 \in DOMAIN work_queue /\ k \in Nat /\ k + 1 # 1
              /\ work_queue'[k] = work_queue[k + 1]
        /\ \A k \in DOMAIN work_queue : k # 1 =>
              k - 1 \in DOMAIN work_queue' /\ work_queue'[k - 1] = work_queue[k]
    BY <1>1, TailFacts
  <1> HIDE DEF x
  <1>3. UNCHANGED <<Submitted, Logged>>
    BY <1>1 DEF Submitted, Logged
  <1>4. \A i \in ItemSet : i # x => (i \in Queued' <=> i \in Queued)
    <2>1. ASSUME NEW i \in ItemSet, i # x, i \in Queued PROVE i \in Queued'
      BY <1>2, <1>3, <2>1 DEF Queued, x
    <2>2. ASSUME NEW i \in ItemSet, i # x, i \in Queued' PROVE i \in Queued
      BY <1>2, <1>3, <2>2 DEF Queued
    <2> QED BY <2>1, <2>2
  <1>5. work_item[w] = None /\ None \notin ItemSet
    BY PoolAssumption DEF Get, ItemsInv, FreeHands
  <1>6. CASE x = None
    <2>1. UNCHANGED work_item
      BY <1>2, <1>6 DEF Get
    <2>2. \A i \in ItemSet : SamePlace(i)
      BY <1>1, <1>3, <1>4, <1>5, <1>6, <2>1 DEF SamePlace, Held
    <2> QED BY <2>2, PhaseKept
  <1>7. CASE x # None
    <2>1. work_item' = [work_item EXCEPT ![w] = x]
      BY <1>2, <1>7 DEF Get
    <2>2. /\ x \in Submitted /\ x \in ItemSet
          /\ \A k \in DOMAIN work_queue : work_queue[k] = x => k = 1
          /\ \A v \in Workers : work_item[v] # x
      BY <1>1, <1>2, <1>7, PoolAssumption DEF x, ItemsInv, OnePlace, WaitsOnce
    <2>3. \A i \in ItemSet : i # x => SamePlace(i)
      <3>1. \A i \in ItemSet : i # x => (i \in Held' <=> i \in Held)
        BY <1>1, <1>5, <2>1 DEF Held
      <3> QED BY <1>1, <1>3, <1>4, <3>1 DEF SamePlace
    <2>4. x \in Queued /\ x \notin Queued' /\ x \in Held'
      <3>1. x \in Queued
        BY <1>2 DEF Queued, x
      <3>2. x \notin Queued'
        BY <1>2, <1>3, <2>2 DEF Queued
      <3>3. x \in Held'
        BY <1>1, <2>1 DEF Held
      <3> QED BY <3>1, <3>2, <3>3
    <2>5. CASE x \in torn
      <3>1. ItemPhase[x] = "closed" /\ ItemPhase'[x] = "closed"
        BY <1>1, <2>2, <2>5 DEF PhaseFacts
      <3>2. ItemPhase' = [ItemPhase EXCEPT ![x] = "closed"]
        BY <2>2, <2>3, <3>1, PhaseStep
      <3>3. ItemPhase = [i \in ItemSet |-> ItemPhase[i]]
        BY DEF ItemPhase
      <3> QED BY <3>1, <3>2, <3>3
    <2>6. CASE x \notin torn
      <3>1. ItemPhase[x] = "waiting" /\ ItemPhase'[x] = "executing"
        BY <1>1, <2>2, <2>4, <2>6 DEF PhaseFacts
      <3>2. ItemPhase' = [ItemPhase EXCEPT ![x] = "executing"]
        BY <2>2, <2>3, <3>1, PhaseStep
      <3> QED BY <1>1, <2>2, <3>1, <3>2 DEF Group!Begin, Group!Advance
    <2> QED BY <2>5, <2>6
  <1> QED BY <1>6, <1>7

LEMMA PutIsComplete ==
  ASSUME NEW w \in Workers, PutResult(w), TypeInv, ItemsInv, PhaseFacts, PhaseFacts'
  PROVE  UNCHANGED ItemPhase \/ \E x \in ItemSet : Group!Complete(x)
  <1> DEFINE x == work_item[w]
  <1>1. /\ x \in ParallelSet /\ x # None /\ x \in ItemSet /\ None \notin ItemSet
        /\ work_item' = [work_item EXCEPT ![w] = None]
        /\ work_item \in [Workers -> ParallelSet \cup {None}]
        /\ UNCHANGED <<work_queue, torn, log, sent, sigint, mpc>>
    BY PoolAssumption, WorkerFrame
       DEF PutResult, TypeInv, TypeOK, WorkerTypeOK, BusyHasItem, Idle, Worker,
           mainOnly, session, stop
  <1>2. /\ \A v \in Workers : work_item[v] = x => v = w
        /\ \A k \in DOMAIN work_queue : work_queue[k] # x
        /\ x \in Submitted /\ x \notin Logged
    <2>1. x \notin Logged
      BY <1>1, NotWaiting DEF ItemsInv, LogInv
    <2> QED BY <1>1, <2>1 DEF ItemsInv, OnePlace, WaitsOnce, HeldOnce
  <1> HIDE DEF x
  <1>3. UNCHANGED <<Queued, Logged>>
    BY <1>1 DEF Queued, Logged, Submitted
  <1>4. x \in Held /\ x \notin Held' /\ x \notin Queued
    BY <1>1, <1>2 DEF Held, Queued, x
  <1>5. \A i \in ItemSet : i # x => SamePlace(i)
    BY <1>1, <1>3 DEF SamePlace, Held, x
  <1>6. CASE x \in torn
    <2>1. ItemPhase[x] = "closed" /\ ItemPhase'[x] = "closed"
      BY <1>1, <1>6 DEF PhaseFacts
    <2>2. ItemPhase' = [ItemPhase EXCEPT ![x] = "closed"]
      BY <1>1, <1>5, <2>1, PhaseStep
    <2>3. ItemPhase = [i \in ItemSet |-> ItemPhase[i]]
      BY DEF ItemPhase
    <2> QED BY <2>1, <2>2, <2>3
  <1>7. CASE x \notin torn
    <2>1. ItemPhase[x] = "executing" /\ ItemPhase'[x] = "finished"
      BY <1>1, <1>2, <1>3, <1>4, <1>7 DEF PhaseFacts
    <2>2. ItemPhase' = [ItemPhase EXCEPT ![x] = "finished"]
      BY <1>1, <1>5, <2>1, PhaseStep
    <2> QED BY <1>1, <2>1, <2>2 DEF Group!Complete, Group!Advance
  <1> QED BY <1>6, <1>7

LEMMA LogIsReport ==
  ASSUME ReportLog, TypeInv, ItemsInv, PhaseFacts, PhaseFacts'
  PROVE  Group!Report(current)
  <1>1. /\ mpc = "logging" /\ mpc' = "restoring" /\ Reporting
        /\ UNCHANGED <<work_queue, work_item, torn, sent, sigint>>
    BY DEF ReportLog, queues, workerOnly, workers, stop, Reporting
  <1>2. current \in ItemSet /\ current \notin Logged /\ torn = {}
    BY <1>1 DEF TypeInv, TypeOK, MainTypeOK, ReportHasItem, ItemsInv, StopInv,
       LogInv, Undisturbed
  <1>3. current \notin Queued /\ current \notin Held
    <2>1. current \in Collected \cup SkippedSet
      BY <1>1, ReportedItem DEF ItemsInv
    <2> QED BY <2>1, NotWaiting DEF Queued, Held
  <1>4. Logged' = Logged \cup {current} /\ UNCHANGED <<Queued, Held>>
    BY <1>1, LogAppend DEF Queued, Held, Submitted
  <1>5. ItemPhase[current] = "finished" /\ ItemPhase'[current] = "reported"
    BY <1>1, <1>2, <1>3, <1>4 DEF PhaseFacts
  <1>6. \A i \in ItemSet : i # current => SamePlace(i)
    BY <1>1, <1>4 DEF SamePlace
  <1>7. ItemPhase' = [ItemPhase EXCEPT ![current] = "reported"]
    BY <1>2, <1>5, <1>6, PhaseStep
  <1> QED BY <1>1, <1>5, <1>7 DEF Group!Report, Group!Advance

LEMMA TeardownIsClose ==
  ASSUME TeardownReport, TypeInv, ItemsInv, PhaseFacts, PhaseFacts'
  PROVE  \E x \in ItemSet : Group!Close(x) \/ Group!CloseAborted(x)
  <1>1. PICK x \in ItemSet : x \notin torn /\ torn' = torn \cup {x}
    <2>1. PICK k \in DOMAIN items : items[k] \notin torn /\ torn' = torn \cup {items[k]}
      BY DEF TeardownReport
    <2>2. items[k] \in ItemSet
      BY PoolAssumption DEF ItemSet, Range
    <2> QED BY <2>1, <2>2
  <1>2. /\ mpc = "teardown" /\ UNCHANGED <<work_queue, work_item, log, sent, sigint, mpc>>
    BY DEF TeardownReport, queues, workerOnly, workers, stop
  <1>3. UNCHANGED <<Queued, Held, Logged>>
    BY <1>2 DEF Queued, Held, Submitted, Logged
  <1>4. \A i \in ItemSet : i # x => SamePlace(i)
    BY <1>1, <1>3 DEF SamePlace
  <1>5. ItemPhase[x] # "closed" /\ ItemPhase'[x] = "closed"
    BY <1>1 DEF PhaseFacts
  <1>6. ItemPhase' = [ItemPhase EXCEPT ![x] = "closed"]
    BY <1>4, <1>5, PhaseStep
  <1>7. CASE sigint
    BY <1>2, <1>5, <1>6, <1>7 DEF Group!CloseAborted
  <1>8. CASE ~sigint
    <2>1. Undisturbed
      BY <1>2, <1>8 DEF ItemsInv, StopInv, Undisturbed
    <2>2. \A i \in ItemSet : i \in Logged
      BY <1>2, <2>1 DEF ItemsInv, LoopInv, LogInv
    <2>3. \A i \in ItemSet : ItemPhase[i] \in {"reported", "closed"}
      BY <2>2 DEF PhaseFacts
    <2> QED BY <1>2, <1>5, <1>6, <2>3 DEF Group!Close
  <1> QED BY <1>7, <1>8

(* A put into the work queue leaves the item among those that wait. *)
LEMMA PutKeepsPhases ==
  ASSUME Submit \/ PutPill, TypeInv, ItemsInv, PhaseFacts, PhaseFacts'
  PROVE  UNCHANGED ItemPhase
  <1>1. /\ UNCHANGED <<work_item, torn, log>>
        /\ work_queue \in Seq(ParallelSet \cup {None}) /\ sent \in Nat
    BY SizesAreNat DEF Submit, PutPill, workerOnly, workers, session, TypeInv,
       TypeOK, QueueTypeOK
  <1>2. PICK x \in ParallelSet \cup {None} :
           /\ work_queue' = Append(work_queue, x)
           /\ \/ Submitted' = Submitted \cup {x} /\ x \in ParallelSet \ Submitted
              \/ x = None /\ Submitted' = Submitted
    <2>1. CASE Submit
      BY <1>1, <2>1, SubmitNext DEF Submit
    <2>2. CASE PutPill
      BY <1>1, <2>2, SubmittedFrame DEF PutPill, ItemsInv, StopInv
    <2> QED BY <2>1, <2>2
  <1>3. /\ DOMAIN work_queue' = DOMAIN work_queue \cup {Len(work_queue) + 1}
        /\ work_queue'[Len(work_queue) + 1] = x
        /\ \A k \in DOMAIN work_queue : work_queue'[k] = work_queue[k]
    BY <1>1, <1>2, AppendFacts
  <1>4. ASSUME NEW i \in ItemSet PROVE i \in Queued' <=> i \in Queued
    <2>1. i # None
      BY PoolAssumption
    <2>2. i \in Queued => i \in Queued'
      BY <1>2, <1>3, <2>1 DEF Queued
    <2>3. i \in Queued' => i \in Queued
      BY <1>2, <1>3, <2>1 DEF Queued
    <2> QED BY <2>2, <2>3
  <1> QED BY <1>1, <1>4, PhaseKept DEF SamePlace, Held, Logged

LEMMA OtherStepsKeepPhases ==
  ASSUME UNCHANGED <<work_queue, work_item, log, sent, torn>>, PhaseFacts, PhaseFacts'
  PROVE  UNCHANGED ItemPhase
  BY PhaseKept DEF SamePlace, Queued, Held, Submitted, Logged

(* Every step of the pool is a step of the group, or stutters. *)
LEMMA StepSimulation ==
  ASSUME TypeInv, ItemsInv, PhaseFacts, PhaseFacts', [Next]_vars
  PROVE  Group!GroupNext \/ UNCHANGED <<ItemPhase, sigint \/ mpc = "escaped">>
  <1>1. ASSUME NEW w \in Workers, Worker(w)
        PROVE  Group!GroupNext \/ UNCHANGED <<ItemPhase, sigint \/ mpc = "escaped">>
    <2>1. UNCHANGED <<sigint, mpc, torn, log, sent>>
      BY <1>1, WorkerFrame DEF mainOnly, stop, session
    <2>2. CASE Get(w)
      BY <2>1, <2>2, GetIsBegin DEF Group!GroupNext
    <2>3. CASE PutResult(w)
      BY <2>1, <2>3, PutIsComplete DEF Group!GroupNext
    <2>4. CASE UNCHANGED placeVars
      BY <2>1, <2>4, OtherStepsKeepPhases DEF placeVars
    <2> QED BY <1>1, <2>2, <2>3, <2>4, WorkerPlacesKept
  <1>2. CASE ReportLog
    BY <1>2, LogIsReport DEF Group!GroupNext, TypeInv, TypeOK, MainTypeOK,
       ReportHasItem, Reporting, ReportLog
  <1>3. CASE TeardownReport
    BY <1>3, TeardownIsClose DEF Group!GroupNext
  <1>4. CASE Submit \/ PutPill
    <2>1. UNCHANGED <<sigint, mpc = "escaped">>
      BY <1>4 DEF Submit, PutPill, stop
    <2> QED BY <1>4, <2>1, PutKeepsPhases
  <1>5. CASE Interrupt \/ ReportKeyError \/ ReportRaises
    <2>1. /\ UNCHANGED <<work_queue, work_item, log, sent, torn>>
          /\ sigint' \/ mpc' = "escaped"
      BY <1>5 DEF Interrupt, ReportKeyError, ReportRaises, outside, queues,
         workerOnly, workers
    <2>2. UNCHANGED ItemPhase
      BY <2>1, OtherStepsKeepPhases
    <2>3. (sigint' \/ mpc' = "escaped") = TRUE
      BY <2>1
    <2> QED BY <2>2, <2>3 DEF Group!GroupNext, Group!Abort
  <1>6. CASE Main /\ ~(ReportLog \/ TeardownReport \/ Submit \/ PutPill
                      \/ ReportKeyError \/ ReportRaises)
    <2>1. /\ UNCHANGED <<work_queue, work_item, log, sent, torn, sigint>>
          /\ mpc # "escaped" /\ mpc' # "escaped"
      BY <1>6 DEF Main, Spawn, Collect, Drain, CollectDone, ReportSuppress,
       ReportDone, PillsDone, Join, Straggler, StragglersDone, RestoreStreams,
       PopStack, TeardownShared, elsewhere, outside, queues, workerOnly, workers,
       stop, session, TypeInv, TypeOK, MainTypeOK
    <2> QED BY <2>1, OtherStepsKeepPhases
  <1>7. CASE UNCHANGED vars
    <2>1. UNCHANGED <<work_queue, work_item, log, sent, torn, sigint, mpc>>
      BY <1>7 DEF vars, queues, workers, stop, session
    <2> QED BY <2>1, OtherStepsKeepPhases
  <1> QED BY <1>1, <1>2, <1>3, <1>4, <1>5, <1>6, <1>7 DEF Next, Terminated, Main

LEMMA InitSimulation == Init => Group!GroupInit
  <1> SUFFICES ASSUME Init PROVE Group!GroupInit
    OBVIOUS
  <1>1. /\ Logged = {} /\ torn = {} /\ Held \subseteq {None}
        /\ Queued = ParallelSet /\ None \notin ItemSet
    BY PoolAssumption, SizesAreNat DEF Init, Logged, Held, Queued, Submitted
  <1>2. OneArm
    BY <1>1 DEF OneArm
  <1>3. \A i \in ItemSet : ItemPhase[i] = IF i \in SkippedSet THEN "finished" ELSE "waiting"
    BY <1>1, <1>2, PhasesRead DEF PhaseFacts, SkippedSet
  <1>4. ItemPhase = [i \in ItemSet |-> IF i \in SkippedSet THEN "finished" ELSE "waiting"]
    BY <1>3 DEF ItemPhase
  <1> QED BY <1>4 DEF Init, Group!GroupInit

(* The pool implements the group: a test is executed at most once, its     *)
(* result is reported once and after the execution is over, and unless the *)
(* group was aborted its teardown is reported only when all results are.   *)
THEOREM PoolRefinesGroup == Spec => Group!GroupSafety
  <1>1. TypeInv /\ ItemsInv => PhaseFacts
    BY ArmsExclude, PhasesRead
  <1>2. TypeInv /\ ItemsInv /\ PhaseFacts /\ PhaseFacts' /\ [Next]_vars
          => [Group!GroupNext]_(Group!groupVars)
    BY StepSimulation DEF Group!groupVars
  <1> QED BY <1>1, <1>2, InitSimulation, ItemsAlways, PTL DEF Spec, Group!GroupSafety
=============================================================================

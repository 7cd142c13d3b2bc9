----------------------------- MODULE WorkerPool -----------------------------
(***************************************************************************)
(* Phase 3 of ParallelRunner._run_parallel when more than one worker runs  *)
(* more than one item: the main thread feeds a SimpleQueue of items to     *)
(* daemon threads, collects their results from a second SimpleQueue and    *)
(* reports them, then puts the poison pills, joins the threads, reports    *)
(* the stragglers, restores the streams and reports the teardowns.         *)
(*                                                                         *)
(* One action per stretch of code between two points where another thread  *)
(* can make a difference (a queue operation, a test of `cancelled`, code   *)
(* of the user).  The outcome of user code is chosen when it returns.      *)
(***************************************************************************)
EXTENDS Naturals, Sequences, FiniteSets, Functions

CONSTANTS items,            \* the items of the group, in collection order
          parallel_items,   \* those that phase 1 did not skip, in that order
          Workers,          \* the threads of the pool
          TcActive,         \* results are reported in collection order
          Faults,           \* what may go wrong, a subset of FaultKinds
          None              \* the poison pill, and "no item"

FaultKinds == {"setup",      \* Item.setup raises
               "display",    \* live.mark_running or mark_call_done raises
               "makereport", \* pytest_runtest_makereport raises in a worker
               "rescue",     \* ... and raises again in the except branch
               "report",     \* main: a hook raises during a report
               "interrupt"}  \* one SIGINT reaches the main thread

ItemSet == Range(items)
ParallelSet == Range(parallel_items)
SkippedSet == ItemSet \ ParallelSet

ASSUME PoolAssumption ==
  /\ items \in Seq(ItemSet) /\ IsInjective(items)
  /\ parallel_items \in Seq(ParallelSet) /\ IsInjective(parallel_items)
  /\ ParallelSet \subseteq ItemSet
  /\ Len(parallel_items) > 1
  /\ IsFiniteSet(Workers) /\ Cardinality(Workers) > 1
  /\ None \notin ItemSet
  /\ TcActive \in BOOLEAN
  /\ Faults \subseteq FaultKinds

VARIABLES
  work_queue, result_queue,  \* the two SimpleQueues
  sent,                      \* how many items and pills main has put
  wpc, work_item, locals,    \* the workers: where they are and their locals
  setup_passed,              \* setup_reports and setup_passed, by item
  call_results, teardown_infos, captured_output,
  item_state,                \* _LiveReporter._item_state
  fixtures,                  \* the function-scoped fixtures of each item
  mpc, resume, current,      \* the main thread: its place, where the report
                             \* it makes returns to, the item it is about
  collected, ready, next_report_idx,
  reported, log,             \* items reported; the result reports emitted
  cancelled, interrupted, sigint,
  proxied,                   \* sys.stdout and sys.stderr are proxies
  silenced,                  \* the methods of _tw that do nothing now, and
  saved,                     \* those that did when suppress() saved them
  stack,                     \* items on SetupState.stack
  shared_up,                 \* module, class and session fixtures are alive
  torn                       \* items whose teardown report is out

queues == <<work_queue, result_queue>>
shared == <<setup_passed, call_results, teardown_infos, captured_output>>
workers == <<wpc, work_item, locals>>
loop == <<collected, ready, next_report_idx>>
session == <<proxied, silenced, saved, stack, shared_up, torn>>
stop == <<cancelled, interrupted, sigint>>
vars == <<queues, sent, workers, shared, item_state, fixtures, mpc, resume,
          current, loop, reported, log, stop, session>>

WorkerPlaces == {"unstarted", "get", "taken", "active", "setup", "gate",
                 "running", "called", "fins", "makereport", "rescue",
                 "capture", "put", "dying", "lastput", "exited", "dead"}

MainPlaces == {"spawn", "submit", "collect", "drain", "report", "logging",
               "restoring", "pills", "join", "stragglers", "finish", "pop",
               "teardown", "left", "escaped"}

(* The locals setup_info, call_info and td_info of a worker, and whether   *)
(* the test wrote to its thread-local stdout.                              *)
Locals == [setup : {"none", "ok", "failed"},
           call : {"none", "returned", "unexpected"},
           td : BOOLEAN,
           out : BOOLEAN]

(* The methods of the terminal writer that suppress() replaces.            *)
Methods == {"write", "line"}

NoLocals == [setup |-> "none", call |-> "none", td |-> FALSE, out |-> FALSE]

(* Where a worker holds no item. *)
Idle == {"unstarted", "get", "exited", "dead"}

Ended == {"exited", "dead"}
-----------------------------------------------------------------------------
(* Where phase 3 begins: the dictionaries are empty but for what phase 1   *)
(* stored of the items it skipped, the proxies are installed, the items    *)
(* are on the stack and the queues are new.                                *)
Init ==
  /\ work_queue = <<>> /\ result_queue = <<>> /\ sent = 0
  /\ wpc = [w \in Workers |-> "unstarted"]
  /\ work_item = [w \in Workers |-> None]
  /\ locals = [w \in Workers |-> NoLocals]
  /\ setup_passed = [i \in ItemSet |->
                        IF i \in SkippedSet THEN "failed" ELSE "absent"]
  /\ call_results = {} /\ teardown_infos = {} /\ captured_output = {}
  /\ item_state = [i \in ItemSet |-> "scheduled"]
  /\ fixtures = [i \in ItemSet |-> "none"]
  /\ mpc = "spawn" /\ resume = "collect" /\ current = None
  /\ collected = 0 /\ ready = {} /\ next_report_idx = 0
  /\ reported = {} /\ log = <<>>
  /\ cancelled = FALSE /\ interrupted = FALSE /\ sigint = FALSE
  /\ proxied = TRUE /\ silenced = {} /\ saved = {}
  /\ stack = ParallelSet /\ shared_up = TRUE /\ torn = {}
-----------------------------------------------------------------------------
(* The workers: _pool_worker, _do_setup_call_teardown and _do_worker_body. *)

(* What no step of a worker changes. *)
mainOnly == <<sent, mpc, resume, current, loop, reported, log, stop, session>>

(* What a step that only moves a worker does not change. *)
workerMoves == <<queues, work_item, locals, shared, item_state, fixtures,
                 mainOnly>>

Goto(w, place) == wpc' = [wpc EXCEPT ![w] = place]

(* Mutant: the pill is not recognised. *)
GetNoPill(w) ==
  /\ wpc[w] = "get"
  /\ work_queue # <<>>
  /\ work_queue' = Tail(work_queue)
  /\ Goto(w, "taken")
  /\ work_item' = [work_item EXCEPT ![w] = Head(work_queue)]
  /\ locals' = [locals EXCEPT ![w] = NoLocals]
  /\ UNCHANGED <<result_queue, shared, item_state, fixtures, mainOnly>>

(* work_queue.get(): blocks while the queue is empty, ends on a pill. *)
Get(w) ==
  /\ wpc[w] = "get"
  /\ work_queue # <<>>
  /\ work_queue' = Tail(work_queue)
  /\ IF Head(work_queue) = None
       THEN Goto(w, "exited") /\ UNCHANGED <<work_item, locals>>
       ELSE /\ Goto(w, "taken")
            /\ work_item' = [work_item EXCEPT ![w] = Head(work_queue)]
            /\ locals' = [locals EXCEPT ![w] = NoLocals]
  /\ UNCHANGED <<result_queue, shared, item_state, fixtures, mainOnly>>

(* The first test of `cancelled`: the item is dropped without a result. *)
CheckCancelled(w) ==
  /\ wpc[w] = "taken"
  /\ Goto(w, IF cancelled THEN "exited" ELSE "active")
  /\ UNCHANGED workerMoves

(* The second test of `cancelled`: the result is empty. *)
EnterSetup(w) ==
  /\ wpc[w] = "active"
  /\ Goto(w, IF cancelled THEN "capture" ELSE "setup")
  /\ UNCHANGED workerMoves

(* Item.setup returned: the fixtures of the item are set up. *)
SetupPasses(w) ==
  /\ wpc[w] = "setup"
  /\ Goto(w, "gate")
  /\ locals' = [locals EXCEPT ![w].setup = "ok"]
  /\ fixtures' = [fixtures EXCEPT ![work_item[w]] = "up"]
  /\ UNCHANGED <<queues, work_item, shared, item_state, mainOnly>>

(* Item.setup raised, with or without some fixtures already set up: their  *)
(* caches are cleared and node_fins is dropped.                            *)
SetupFails(w) ==
  /\ "setup" \in Faults
  /\ wpc[w] = "setup"
  /\ Goto(w, "makereport")
  /\ locals' = [locals EXCEPT ![w].setup = "failed"]
  /\ \E partial \in {"none", "up"} :
        fixtures' = [fixtures EXCEPT ![work_item[w]] = partial]
  /\ UNCHANGED <<queues, work_item, shared, item_state, mainOnly>>

(* live.mark_running, unless the run was cancelled meanwhile. *)
MarkRunning(w) ==
  /\ wpc[w] = "gate"
  /\ IF cancelled
       THEN Goto(w, "fins") /\ UNCHANGED item_state
       ELSE /\ item_state' = [item_state EXCEPT ![work_item[w]] = "running"]
            /\ \/ Goto(w, "running")
               \/ "display" \in Faults /\ Goto(w, "rescue")
  /\ UNCHANGED <<queues, work_item, locals, shared, fixtures, mainOnly>>

(* The body of the test returned or raised; it wrote some output. *)
RunTest(w) ==
  /\ wpc[w] = "running"
  /\ Goto(w, "called")
  /\ locals' = [locals EXCEPT ![w].call = "returned", ![w].out = TRUE]
  /\ UNCHANGED <<queues, work_item, shared, item_state, fixtures, mainOnly>>

(* live.mark_call_done, unless the run was cancelled meanwhile. *)
MarkCallDone(w) ==
  /\ wpc[w] = "called"
  /\ IF cancelled
       THEN Goto(w, "fins") /\ UNCHANGED item_state
       ELSE /\ item_state' = [item_state EXCEPT ![work_item[w]] = "call_done"]
            /\ \/ Goto(w, "fins")
               \/ "display" \in Faults /\ Goto(w, "rescue")
  /\ UNCHANGED <<queues, work_item, locals, shared, fixtures, mainOnly>>

(* The function-scoped finalizers of the item run. *)
RunFinalizers(w) ==
  /\ wpc[w] = "fins"
  /\ Goto(w, "makereport")
  /\ locals' = [locals EXCEPT ![w].td = TRUE]
  /\ fixtures' = [fixtures EXCEPT ![work_item[w]] = "down"]
  /\ UNCHANGED <<queues, work_item, shared, item_state, mainOnly>>

(* The setup report and the teardown information are stored. *)
MakeReport(w) ==
  /\ wpc[w] = "makereport"
  /\ Goto(w, "capture")
  /\ setup_passed' = [setup_passed EXCEPT ![work_item[w]] =
                         IF locals[w].setup = "ok" THEN "passed" ELSE "failed"]
  /\ teardown_infos' = IF locals[w].td THEN teardown_infos \cup {work_item[w]}
                                       ELSE teardown_infos
  /\ UNCHANGED <<queues, work_item, locals, call_results, captured_output,
                 item_state, fixtures, mainOnly>>

MakeReportRaises(w) ==
  /\ "makereport" \in Faults
  /\ wpc[w] = "makereport"
  /\ Goto(w, "rescue")
  /\ UNCHANGED workerMoves

(* The except branch: the exception becomes the result of the call and, if *)
(* there is no setup report yet, a failed setup.  Its own makereport may   *)
(* raise too: the finally branch still runs, then the thread dies.         *)
Rescue(w) ==
  /\ wpc[w] = "rescue"
  /\ locals' = [locals EXCEPT ![w].call = "unexpected"]
  /\ IF setup_passed[work_item[w]] # "absent"
       THEN Goto(w, "capture") /\ UNCHANGED setup_passed
       ELSE \/ /\ Goto(w, "capture")
               /\ setup_passed' = [setup_passed EXCEPT ![work_item[w]] = "failed"]
            \/ /\ "rescue" \in Faults
               /\ Goto(w, "dying")
               /\ UNCHANGED setup_passed
  /\ UNCHANGED <<queues, work_item, call_results, teardown_infos,
                 captured_output, item_state, fixtures, mainOnly>>

(* Mutant: the output is dropped unless both streams were used. *)
CaptureNothing(w) ==
  /\ wpc[w] \in {"capture", "dying"}
  /\ Goto(w, IF wpc[w] = "capture" THEN "put" ELSE "lastput")
  /\ UNCHANGED workerMoves

(* Mutant: the result is not put in `finally`, a dying thread puts none. *)
CaptureAndDie(w) ==
  /\ wpc[w] \in {"capture", "dying"}
  /\ Goto(w, IF wpc[w] = "capture" THEN "put" ELSE "dead")
  /\ captured_output' = captured_output \cup {work_item[w]}
  /\ UNCHANGED <<queues, work_item, locals, setup_passed, call_results,
                 teardown_infos, item_state, fixtures, mainOnly>>

(* The finally branch, first half: the output is stored. *)
CaptureOutput(w) ==
  /\ wpc[w] \in {"capture", "dying"}
  /\ Goto(w, IF wpc[w] = "capture" THEN "put" ELSE "lastput")
  /\ captured_output' = IF locals[w].out
                          THEN captured_output \cup {work_item[w]}
                          ELSE captured_output
  /\ UNCHANGED <<queues, work_item, locals, setup_passed, call_results,
                 teardown_infos, item_state, fixtures, mainOnly>>

(* The finally branch, second half: result_queue.put. *)
PutResult(w) ==
  /\ wpc[w] \in {"put", "lastput"}
  /\ Goto(w, IF wpc[w] = "put" THEN "get" ELSE "dead")
  /\ result_queue' = Append(result_queue,
                            [item |-> work_item[w],
                             call |-> locals[w].call # "none"])
  /\ work_item' = [work_item EXCEPT ![w] = None]
  /\ UNCHANGED <<work_queue, locals, shared, item_state, fixtures, mainOnly>>

Worker(w) ==
  \/ Get(w) \/ CheckCancelled(w) \/ EnterSetup(w)
  \/ SetupPasses(w) \/ SetupFails(w) \/ MarkRunning(w) \/ RunTest(w)
  \/ MarkCallDone(w) \/ RunFinalizers(w) \/ MakeReport(w)
  \/ MakeReportRaises(w) \/ Rescue(w) \/ CaptureOutput(w) \/ PutResult(w)
-----------------------------------------------------------------------------
(* The main thread. *)

(* What no step of the main thread changes once the workers are started. *)
workerOnly == <<workers, setup_passed, teardown_infos, captured_output, fixtures>>

(* What a step that only moves the main thread, in the session or at all,  *)
(* does not change.                                                        *)
outside == <<queues, sent, workerOnly, call_results, item_state, resume, current,
             loop, reported, log, stop>>
elsewhere == <<outside, session>>

NumItems == Len(parallel_items)

(* Mutant: one thread is not counted. *)
OnePillLess == Cardinality(Workers) - 1

NumPills == Cardinality(Workers)

(* The threads are started: they block on the empty queue. *)
Spawn ==
  /\ mpc = "spawn"
  /\ mpc' = "submit"
  /\ wpc' = [w \in Workers |-> "get"]
  /\ UNCHANGED <<queues, sent, work_item, locals, shared, item_state, fixtures,
                 resume, current, loop, reported, log, stop, session>>

(* Mutant: off by one, the first item is submitted twice. *)
SubmitPrevious ==
  /\ mpc = "submit"
  /\ sent < NumItems
  /\ sent' = sent + 1
  /\ work_queue' = Append(work_queue,
                          parallel_items[IF sent = 0 THEN 1 ELSE sent])
  /\ mpc' = IF sent + 1 = NumItems THEN "collect" ELSE "submit"
  /\ UNCHANGED <<result_queue, workerOnly, call_results, item_state, resume,
                 current, loop, reported, log, stop, session>>

(* work_queue.put(item), in collection order. *)
Submit ==
  /\ mpc = "submit"
  /\ sent < NumItems
  /\ sent' = sent + 1
  /\ work_queue' = Append(work_queue, parallel_items[sent + 1])
  /\ mpc' = IF sent + 1 = NumItems THEN "collect" ELSE "submit"
  /\ UNCHANGED <<result_queue, workerOnly, call_results, item_state, resume,
                 current, loop, reported, log, stop, session>>

(* result_queue.get(): in TeamCity mode the item becomes ready, otherwise  *)
(* it is reported at once.                                                 *)
Collect ==
  /\ mpc = "collect"
  /\ collected < NumItems
  /\ result_queue # <<>>
  /\ result_queue' = Tail(result_queue)
  /\ LET r == Head(result_queue)
     IN  /\ call_results' = IF r.call THEN call_results \cup {r.item}
                                      ELSE call_results
         /\ IF TcActive
              THEN /\ ready' = ready \cup {r.item}
                   /\ collected' = collected + 1
                   /\ mpc' = "drain"
                   /\ UNCHANGED <<current, resume>>
              ELSE /\ current' = r.item
                   /\ resume' = "collect"
                   /\ mpc' = "report"
                   /\ UNCHANGED <<ready, collected>>
  /\ UNCHANGED <<work_queue, sent, workerOnly, item_state, next_report_idx,
                 reported, log, stop, session>>

(* Mutant: any item that is ready is reported. *)
DrainAny ==
  /\ mpc = "drain"
  /\ IF ready \ reported # {}
       THEN /\ current' \in ready \ reported
            /\ resume' = "drain"
            /\ mpc' = "report"
       ELSE mpc' = "collect" /\ UNCHANGED <<current, resume>>
  /\ UNCHANGED <<queues, sent, workerOnly, call_results, item_state, loop,
                 reported, log, stop, session>>

(* TeamCity mode: the next item in collection order, if it is ready. *)
Drain ==
  /\ mpc = "drain"
  /\ IF /\ next_report_idx < NumItems
        /\ parallel_items[next_report_idx + 1] \in ready
       THEN /\ current' = parallel_items[next_report_idx + 1]
            /\ resume' = "drain"
            /\ mpc' = "report"
       ELSE mpc' = "collect" /\ UNCHANGED <<current, resume>>
  /\ UNCHANGED <<queues, sent, workerOnly, call_results, item_state, loop,
                 reported, log, stop, session>>

CollectDone ==
  /\ mpc = "collect"
  /\ collected = NumItems
  /\ mpc' = "pills"
  /\ UNCHANGED elsewhere

(* _report_item: live.suppress() saves the methods and replaces them. *)
ReportSuppress ==
  /\ mpc = "report"
  /\ mpc' = "logging"
  /\ saved' = silenced
  /\ silenced' = Methods
  /\ UNCHANGED <<outside, proxied, stack, shared_up, torn>>

(* The reports of the setup and, if there is a result, of the call; then   *)
(* live.restore() in `finally`.                                            *)
ReportLog ==
  /\ mpc = "logging"
  /\ setup_passed[current] # "absent"
  /\ mpc' = "restoring"
  /\ silenced' = saved
  /\ log' = Append(log, [item |-> current,
                         call |-> /\ setup_passed[current] = "passed"
                                  /\ current \in call_results])
  /\ UNCHANGED <<queues, sent, workerOnly, call_results, item_state, resume,
                 current, loop, reported, stop, proxied, saved, stack, shared_up,
                 torn>>

(* setup_passed[item] raises KeyError, which nothing catches. *)
ReportKeyError ==
  /\ mpc = "logging"
  /\ setup_passed[current] = "absent"
  /\ mpc' = "escaped"
  /\ silenced' = saved
  /\ UNCHANGED <<outside, proxied, saved, stack, shared_up, torn>>

(* A hook of pytest or of a plugin, or the live view, raises while a test  *)
(* or its teardown is reported.  Nothing in _run_parallel catches it.      *)
ReportRaises ==
  /\ "report" \in Faults
  /\ \/ mpc = "logging" /\ setup_passed[current] # "absent"
     \/ mpc \in {"restoring", "teardown"}
  /\ mpc' = "escaped"
  /\ silenced' = saved
  /\ UNCHANGED <<outside, proxied, saved, stack, shared_up, torn>>

(* Mutant: the item is not added to `reported`. *)
ReportForgotten ==
  /\ mpc = "restoring"
  /\ mpc' = IF resume = "stragglers" THEN "finish" ELSE resume
  /\ item_state' = [item_state EXCEPT ![current] = "done"]
  /\ collected' = IF resume = "collect" THEN collected + 1 ELSE collected
  /\ next_report_idx' = IF resume = "drain" THEN next_report_idx + 1
                                            ELSE next_report_idx
  /\ UNCHANGED <<queues, sent, workerOnly, call_results, resume, current, ready,
                 reported, log, stop, session>>

(* After live.restore(): live.mark_done and reported.add, then the caller  *)
(* goes on.                                                                *)
ReportDone ==
  /\ mpc = "restoring"
  /\ mpc' = resume
  /\ item_state' = [item_state EXCEPT ![current] = "done"]
  /\ reported' = reported \cup {current}
  /\ collected' = IF resume = "collect" THEN collected + 1 ELSE collected
  /\ next_report_idx' = IF resume = "drain" THEN next_report_idx + 1
                                            ELSE next_report_idx
  /\ UNCHANGED <<queues, sent, workerOnly, call_results, resume, current, ready,
                 log, stop, session>>

(* work_queue.put(None), once per worker; after an interrupt the threads   *)
(* are not joined and no straggler is reported.                            *)
PutPill ==
  /\ mpc = "pills"
  /\ sent < NumItems + NumPills
  /\ sent' = sent + 1
  /\ work_queue' = Append(work_queue, None)
  /\ UNCHANGED <<result_queue, workerOnly, call_results, item_state, mpc, resume,
                 current, loop, reported, log, stop, session>>

(* Mutant: the threads are never joined. *)
PillsDoneNoJoin ==
  /\ mpc = "pills"
  /\ sent = NumItems + NumPills
  /\ mpc' = "finish"
  /\ UNCHANGED elsewhere

(* Mutant: the stragglers are reported after an interrupt too. *)
PillsDoneReportAlways ==
  /\ mpc = "pills"
  /\ sent = NumItems + NumPills
  /\ mpc' = IF interrupted THEN "stragglers" ELSE "join"
  /\ UNCHANGED elsewhere

PillsDone ==
  /\ mpc = "pills"
  /\ sent = NumItems + NumPills
  /\ mpc' = IF interrupted THEN "finish" ELSE "join"
  /\ UNCHANGED elsewhere

(* t.join() for every thread. *)
Join ==
  /\ mpc = "join"
  /\ \A w \in Workers : wpc[w] \in Ended
  /\ mpc' = "stragglers"
  /\ UNCHANGED elsewhere

(* The items not reported yet, in collection order. *)
Straggler ==
  /\ mpc = "stragglers"
  /\ \E k \in DOMAIN items :
        /\ items[k] \notin reported
        /\ \A j \in 1 .. k - 1 : items[j] \in reported
        /\ current' = items[k]
  /\ mpc' = "report"
  /\ resume' = "stragglers"
  /\ UNCHANGED <<queues, sent, workerOnly, call_results, item_state, loop,
                 reported, log, stop, session>>

(* Mutant: the stragglers may be left out. *)
StragglersSkipped ==
  /\ mpc = "stragglers"
  /\ mpc' = "finish"
  /\ UNCHANGED elsewhere

StragglersDone ==
  /\ mpc = "stragglers"
  /\ ItemSet \subseteq reported
  /\ mpc' = "finish"
  /\ UNCHANGED elsewhere

(* live.finish(); the streams, stream handlers and log handler are restored. *)
RestoreStreams ==
  /\ mpc = "finish"
  /\ mpc' = "pop"
  /\ proxied' = FALSE
  /\ UNCHANGED <<outside, silenced, saved, stack, shared_up, torn>>

PopStack ==
  /\ mpc = "pop"
  /\ mpc' = "teardown"
  /\ stack' = stack \ ParallelSet
  /\ UNCHANGED <<outside, proxied, silenced, saved, shared_up, torn>>

(* _teardown_all: the teardown report of the next item; its request and    *)
(* funcargs are cleared.                                                   *)
TeardownReport ==
  /\ mpc = "teardown"
  /\ \E k \in DOMAIN items :
        /\ items[k] \notin torn
        /\ \A j \in 1 .. k - 1 : items[j] \in torn
        /\ torn' = torn \cup {items[k]}
  /\ UNCHANGED <<queues, sent, workerOnly, call_results, item_state, mpc, resume,
                 current, loop, reported, log, stop, proxied, silenced, saved,
                 stack, shared_up>>

(* _setupstate.teardown_exact and the deferred collector finalizers; then  *)
(* _run_parallel returns or raises KeyboardInterrupt again.                *)
TeardownShared ==
  /\ mpc = "teardown"
  /\ ItemSet \subseteq torn
  /\ mpc' = "left"
  /\ shared_up' = FALSE
  /\ UNCHANGED <<outside, proxied, silenced, saved, stack, torn>>

(* The places of the try block around the collection loop. *)
InTry == \/ mpc \in {"collect", "drain"}
         \/ mpc \in {"report", "logging", "restoring"} /\ resume # "stragglers"

(* What a SIGINT leaves of the terminal writer.  suppress() is called before *)
(* the try whose `finally` calls restore(), and each of the two assigns one  *)
(* method, then the other: a SIGINT in suppress() is not undone, and one in  *)
(* restore() (on its way out of a report, or of an exception of a hook or a  *)
(* KeyError) ends it.  In the rest of the try `finally` restores.            *)
CutSuppress ==
  /\ mpc = "report"
  /\ saved' = silenced
  /\ silenced' \in {silenced \cup {"write"}, Methods}

CutRestore ==
  /\ \/ mpc = "restoring"
     \/ mpc = "logging" /\ ("report" \in Faults \/ setup_passed[current] = "absent")
  /\ silenced' \in {saved \cup {"line"}, Methods}
  /\ UNCHANGED saved

CutWriter ==
  \/ CutSuppress
  \/ CutRestore
  \/ UNCHANGED saved /\ silenced' = IF mpc = "logging" THEN saved ELSE silenced

(* Mutant: the pills, joins and stragglers are in the try block too, and   *)
(* the handler does not record the interrupt.                              *)
InterruptSwallowed ==
  /\ "interrupt" \in Faults
  /\ ~sigint
  /\ mpc \notin {"left", "escaped"}
  /\ sigint' = TRUE
  /\ CutWriter
  /\ IF InTry
       THEN mpc' = "finish" /\ cancelled' = TRUE
       ELSE mpc' = "escaped" /\ UNCHANGED cancelled
  /\ UNCHANGED <<queues, sent, workerOnly, call_results, item_state, resume,
                 current, loop, reported, log, proxied, stack, shared_up, torn,
                 interrupted>>

(* SIGINT.  Inside the try block the run is cancelled; anywhere else the   *)
(* KeyboardInterrupt leaves _run_parallel.                                 *)
Interrupt ==
  /\ "interrupt" \in Faults
  /\ ~sigint
  /\ mpc \notin {"left", "escaped"}
  /\ sigint' = TRUE
  /\ CutWriter
  /\ IF InTry
       THEN mpc' = "pills" /\ interrupted' = TRUE /\ cancelled' = TRUE
       ELSE mpc' = "escaped" /\ UNCHANGED <<interrupted, cancelled>>
  /\ UNCHANGED <<queues, sent, workerOnly, call_results, item_state, resume,
                 current, loop, reported, log, proxied, stack, shared_up, torn>>

Main ==
  \/ Spawn \/ Submit \/ Collect \/ Drain \/ CollectDone
  \/ ReportSuppress \/ ReportLog \/ ReportKeyError \/ ReportRaises \/ ReportDone
  \/ PutPill \/ PillsDone \/ Join \/ Straggler \/ StragglersDone
  \/ RestoreStreams \/ PopStack \/ TeardownReport \/ TeardownShared

(* Nothing is left to run: main is out and every worker has ended or waits *)
(* for an item that will not come.                                         *)
Terminated ==
  /\ mpc \in {"left", "escaped"}
  /\ \A w \in Workers : \/ wpc[w] \in {"exited", "dead", "unstarted"}
                        \/ wpc[w] = "get" /\ work_queue = <<>>
  /\ UNCHANGED vars

Next == Main \/ Interrupt \/ Terminated \/ \E w \in Workers : Worker(w)

Spec == Init /\ [][Next]_vars

(* Threads are preemptive and user code is assumed to return; a signal need *)
(* not come.                                                                *)
Fairness == WF_vars(Main) /\ \A w \in Workers : WF_vars(Worker(w))

FairSpec == Spec /\ Fairness
-----------------------------------------------------------------------------
(* Properties. *)

LogEntry == [item : ItemSet, call : BOOLEAN]

ResultEntry == [item : ParallelSet, call : BOOLEAN]

QueueTypeOK ==
  /\ work_queue \in Seq(ParallelSet \cup {None})
  /\ result_queue \in Seq(ResultEntry)
  /\ sent \in 0 .. NumItems + NumPills

WorkerTypeOK ==
  /\ wpc \in [Workers -> WorkerPlaces]
  /\ work_item \in [Workers -> ParallelSet \cup {None}]
  /\ locals \in [Workers -> Locals]

ResultTypeOK ==
  /\ setup_passed \in [ItemSet -> {"absent", "passed", "failed"}]
  /\ call_results \subseteq ParallelSet
  /\ teardown_infos \subseteq ParallelSet
  /\ captured_output \subseteq ParallelSet
  /\ item_state \in [ItemSet -> {"scheduled", "running", "call_done", "done"}]
  /\ fixtures \in [ItemSet -> {"none", "up", "down"}]

MainTypeOK ==
  /\ mpc \in MainPlaces
  /\ resume \in {"collect", "drain", "stragglers"}
  /\ current \in ItemSet \cup {None}
  /\ collected \in 0 .. NumItems /\ next_report_idx \in 0 .. NumItems
  /\ ready \subseteq ParallelSet
  /\ reported \subseteq ItemSet
  /\ log \in Seq(LogEntry)
  /\ cancelled \in BOOLEAN /\ interrupted \in BOOLEAN /\ sigint \in BOOLEAN
  /\ proxied \in BOOLEAN /\ shared_up \in BOOLEAN
  /\ silenced \subseteq Methods /\ saved \subseteq Methods
  /\ stack \subseteq ItemSet /\ torn \subseteq ItemSet

(* The type invariant of the pool and of the locals of _run_parallel. *)
TypeOK == QueueTypeOK /\ WorkerTypeOK /\ ResultTypeOK /\ MainTypeOK

(* No item has its result reported twice: the collection loop and the      *)
(* straggler loop of _run_parallel share `reported` and never overlap.     *)
ReportedOnce ==
  \A j, k \in DOMAIN log : log[j].item = log[k].item => j = k

(* "Capture output BEFORE queueing the result so the main thread's         *)
(* _report_item always sees the data": when an item whose setup passed is  *)
(* reported, its call result, its output and its teardown are all there,   *)
(* although the worker stores them in dictionaries without a lock.         *)
ReportSeesWorkerData ==
  \A k \in DOMAIN log :
     LET i == log[k].item
     IN  /\ \A w \in Workers : work_item[w] # i
         /\ setup_passed[i] = "passed" =>
               /\ log[k].call
               /\ i \in captured_output \cap teardown_infos

(* While a worker sets up, runs or tears down a test, the test has its     *)
(* entry on the SetupState stack, its request and funcargs, and the shared *)
(* fixtures it was given; after a keyboard interrupt the workers are not   *)
(* joined and this is lost.                                                *)
InUserCode(w) == wpc[w] \in {"setup", "gate", "running", "called", "fins"}

SharedOutliveTests ==
  \A w \in Workers : InUserCode(w) =>
     interrupted \/ (/\ shared_up
                     /\ work_item[w] \in stack
                     /\ work_item[w] \notin torn)

(* _LiveReporter.suppress and restore (_runner.py:328-345): the terminal     *)
(* writer comes back.  No report begins with a writer that a SIGINT has left *)
(* silenced, where suppress() would save the no-op as the original and no    *)
(* restore() could bring the writer back; and while no SIGINT has come the   *)
(* writer is silenced only inside the try of a report, whatever raises in it.*)
WriterRestored ==
  /\ saved = {}
  /\ mpc = "report" => silenced = {}
  /\ silenced # {} => mpc = "logging" \/ sigint

(* In TeamCity mode the items that ran are reported in collection order,   *)
(* in whatever order the workers finish them.                              *)
RanInCollectionOrder ==
  TcActive => \A k \in DOMAIN log :
                 k <= NumItems => log[k].item = parallel_items[k]

(* A run that was not interrupted leaves nothing behind: every item was    *)
(* reported and torn down and every worker has ended.                      *)
CompleteWhenLeft ==
  mpc = "left" /\ ~interrupted =>
     /\ {log[k].item : k \in DOMAIN log} = ItemSet
     /\ torn = ItemSet
     /\ work_queue = <<>> \/ \E w \in Workers : wpc[w] = "dead"
     /\ \A w \in Workers : wpc[w] \in Ended

(* The docstring of _do_setup_call_teardown: function-scoped fixture       *)
(* teardown "also runs in the worker".  None is alive when the group ends. *)
FixturesReleased ==
  mpc = "left" /\ ~interrupted => \A i \in ItemSet : fixtures[i] # "up"

(* "Restore real stdout/stderr and remove log handler after all workers    *)
(* are done".                                                              *)
RestoredAfterWorkers ==
  ~proxied => \A w \in Workers : wpc[w] \in Ended

(* "Teardown reporting + collector teardown (always runs, even after       *)
(* interrupt)".                                                            *)
TeardownAlwaysRuns ==
  mpc \in {"left", "escaped"} => torn = ItemSet /\ ~shared_up

(* "Temporarily suppress terminal reporter output" (_runner.py:329): when    *)
(* _run_parallel is left the writer is back.                                 *)
WriterBackWhenLeft == mpc \in {"left", "escaped"} => silenced = {}

(* "Ensure setup_reports/setup_passed are populated so _report_item        *)
(* doesn't KeyError on unexpected exceptions."                             *)
NoKeyError == mpc = "escaped" => sigint

(* "In TC/IDE mode, report in collection order": of all items of the group. *)
CollectionOrder ==
  TcActive => \A k \in DOMAIN log : log[k].item = items[k]

(* The display state of an item only moves forward: no test body starts    *)
(* twice, or after the item was reported.                                  *)
Forward == {<<"scheduled", "running">>, <<"running", "call_done">>,
            <<"scheduled", "done">>, <<"running", "done">>,
            <<"call_done", "done">>}

BodiesRunOnce ==
  [][\A i \in ItemSet : item_state'[i] # item_state[i] =>
        <<item_state[i], item_state'[i]>> \in Forward]_item_state

(* After an interrupt the pool drains: each worker finds a pill or an item *)
(* it drops, and ends.                                                     *)
PoolDrains ==
  interrupted ~> \A w \in Workers : wpc[w] \in Ended

(* The main thread never waits forever, even if threads of the pool die.   *)
MainLeaves == <>(mpc \in {"left", "escaped"})

(* Why the type invariant is inductive: whoever handles an item has one,   *)
(* and the counters of the collection loop are bounded where it counts.    *)
BusyHasItem == \A w \in Workers : wpc[w] \notin Idle => work_item[w] # None

Reporting == mpc \in {"report", "logging", "restoring"}

ReportHasItem ==
  /\ Reporting => current # None
  /\ Reporting /\ resume = "collect" => collected < NumItems
  /\ Reporting /\ resume = "drain" => next_report_idx < NumItems

TypeInv == TypeOK /\ BusyHasItem /\ ReportHasItem

(* Why the shared fixtures outlive the tests: main goes past the join only *)
(* when all the threads have ended, unless it was interrupted.             *)
PastJoin == \/ mpc \in {"stragglers", "finish", "pop", "teardown", "left"}
            \/ resume = "stragglers"
            \/ stack # ParallelSet \/ torn # {} \/ ~shared_up

JoinInv == /\ PastJoin /\ ~interrupted => \A w \in Workers : wpc[w] \in Ended
           /\ mpc = "spawn" => ~PastJoin

(* The pool implements GroupRun: where an item is decides its phase. *)
Submitted == {parallel_items[k] : k \in 1 .. (IF sent < NumItems THEN sent
                                                                 ELSE NumItems)}

Queued == {work_queue[k] : k \in DOMAIN work_queue} \cup (ParallelSet \ Submitted)

Held == {work_item[w] : w \in Workers}

Logged == {log[k].item : k \in DOMAIN log}

ItemPhase ==
  [i \in ItemSet |-> CASE i \in torn -> "closed"
                       [] i \in Logged \ torn -> "reported"
                       [] i \in Queued \ torn -> "waiting"
                       [] i \in Held \ torn -> "executing"
                       [] OTHER -> "finished"]

Group == INSTANCE GroupRun WITH Tests <- ItemSet, Settled <- SkippedSet,
                                phase <- ItemPhase, aborted <- (sigint \/ mpc = "escaped")

(* Every item runs at most once, is reported after its execution and torn  *)
(* down after the report of all items; eventually, unless an interrupt or  *)
(* an exception of a report ends the group before.                         *)
ImplementsGroupRun == Group!GroupSpec
=============================================================================

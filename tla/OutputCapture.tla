---------------------------- MODULE OutputCapture ----------------------------
(***************************************************************************)
(* What a pool of workers prints and logs.  For the time of a group main   *)
(* replaces sys.stdout and sys.stderr by proxies with a buffer per thread, *)
(* turns the streams of existing StreamHandlers to the proxies, adds a log *)
(* handler with a record list per thread, and patches setLevel and         *)
(* getEffectiveLevel of the root logger's class, so that a level set by a  *)
(* test is its thread's.  Python's Logger remembers per level whether it   *)
(* is enabled, for all threads.                                            *)
(*                                                                         *)
(* stdout and stderr are one stream here; a text or a record is            *)
(* <<item, phase, k>> for the k-th operation of that phase of the item.    *)
(***************************************************************************)
EXTENDS Integers, Sequences, FiniteSets, SequencesExt

CONSTANTS Items, Workers,
          Scripts,         \* what a test may do, see Op
          Levels,          \* levels of records
          saved_root_level,
          handler_level,   \* --log-level, WARNING by default
          None,
          MaxLength,       \* bound on the operations of a phase
          Faults           \* what may go wrong, a subset of FaultKinds

NOTSET == 0

FaultKinds == {"interrupt",  \* one SIGINT reaches the main thread
               "report"}     \* a hook raises when main reports a test

(* Loggers: the root, and a child without a level of its own.              *)
Loggers == {"root", "child"}

Phases == {"setup", "call", "teardown"}

(* An operation prints, logs, or sets the level of the root logger (which  *)
(* caplog.set_level does; caplog puts it back when it is torn down).       *)
Op == [kind : {"print"}] \cup [kind : {"set"}, level : Levels]
                         \cup [kind : {"log"}, logger : Loggers, level : Levels]

ASSUME CaptureAssumption ==
  /\ Cardinality(Workers) > 1 /\ Cardinality(Items) > 1
  /\ Levels \subseteq Nat \ {NOTSET} /\ Levels # {}
  /\ None \notin Items \cup Nat \cup BOOLEAN
  /\ saved_root_level \in Nat /\ handler_level \in Nat
  /\ MaxLength \in Nat /\ Scripts \subseteq [Phases -> BoundedSeq(Op, MaxLength)]
  /\ Faults \subseteq FaultKinds

VARIABLES script,          \* [Items -> Scripts]
          main,            \* where the main thread is, see MainPlaces
          interrupted,     \* the collection loop met a SIGINT: cancelled is set
          stdout,          \* sys.stdout: "real" or "proxy"
          stream,          \* of a StreamHandler of the root logger
          root,            \* the root logger: level, patched, has our handler
          tl_level,        \* _root_tl_levels
          cache,           \* Logger._cache of each logger
          stage,           \* [Items -> {"queued", "taken", "put"}]
          worker,          \* what each worker does: item, phase, next operation,
                           \* and the level its caplog will put back
          buf,             \* _local.buf of the stream proxies and
          records,         \* _local.records of the log handler, of the
                           \* threads that have one
          captured_output, captured_log,
          caplog,          \* the records of the items' caplog handlers
          real             \* what reached the real stream

vars == <<script, main, interrupted, stdout, stream, root, tl_level, cache, stage,
          worker, buf, records, captured_output, captured_log, caplog, real>>

(* Main patches the streams and the logging, runs the pool, and puts back  *)
(* the streams, the methods of the logger and its level; or an exception   *)
(* leaves _run_parallel before or after the threads are started.           *)
Before == {"patch", "handler", "methods"}

After == {"restore", "logging", "level"}

MainPlaces == Before \cup {"run"} \cup After \cup {"left", "unstarted", "escaped"}

Idle == [item |-> None, phase |-> "idle", next |-> 1, initial |-> None]

Init ==
  /\ script \in [Items -> Scripts]
  /\ main = "patch" /\ interrupted = FALSE
  /\ stdout = "real" /\ stream = "real"
  /\ root = [level |-> saved_root_level, patched |-> FALSE, handler |-> FALSE]
  /\ tl_level = [w \in Workers |-> None]
  /\ cache = [g \in Loggers |-> [l \in Levels |-> None]]
  /\ stage = [i \in Items |-> "queued"]
  /\ worker = [w \in Workers |-> Idle]
  /\ buf = <<>> /\ records = <<>>
  /\ captured_output = [i \in Items |-> {}] /\ captured_log = [i \in Items |-> {}]
  /\ caplog = [i \in Items |-> {}]
  /\ real = {}

ClearCache == cache' = [g \in Loggers |-> [l \in Levels |-> None]]

(* What main does not change.                                              *)
workersOnly == <<script, tl_level, stage, worker, buf, records, captured_output,
                 captured_log, caplog, real>>

(* Main, before it starts the threads.                                     *)

PatchStreams ==
  /\ main = "patch"
  /\ stdout' = "proxy" /\ stream' = "proxy"
  /\ main' = "handler"
  /\ UNCHANGED <<interrupted, root, cache, workersOnly>>

(* addHandler, and setLevel, which is not patched yet.                     *)
AddHandler ==
  /\ main = "handler"
  /\ root' = [root EXCEPT !.level = NOTSET, !.handler = TRUE]
  /\ ClearCache
  /\ main' = "methods"
  /\ UNCHANGED <<interrupted, stdout, stream, workersOnly>>

PatchMethods ==
  /\ main = "methods"
  /\ root' = [root EXCEPT !.patched = TRUE]
  /\ main' = "run"
  /\ UNCHANGED <<interrupted, stdout, stream, cache, workersOnly>>

-----------------------------------------------------------------------------
(* A worker and its item.                                                  *)

Working(w) == worker[w].item # None

(* _local.buf = StringIO(): the thread w has a new, empty collection in f. *)
Opened(f, w) == [v \in DOMAIN f \cup {w} |-> IF v = w THEN {} ELSE f[v]]

(* _local.buf = None: it has none any more.                                *)
Closed(f, w) == Restrict(f, DOMAIN f \ {w})

Activate(w, i) ==
  /\ main \notin Before \cup {"unstarted"} /\ ~interrupted
  /\ ~Working(w) /\ stage[i] = "queued"
  /\ stage' = [stage EXCEPT ![i] = "taken"]
  /\ worker' = [worker EXCEPT ![w] = [item |-> i, phase |-> "setup", next |-> 1,
                                         initial |-> None]]
  /\ buf' = Opened(buf, w)
  /\ records' = Opened(records, w)
  /\ UNCHANGED <<script, main, interrupted, stdout, stream, root, tl_level, cache,
                 captured_output, captured_log, caplog, real>>

Current(w) == script[worker[w].item][worker[w].phase][worker[w].next]

Doing(w, kind) ==
  /\ Working(w) /\ worker[w].phase \in Phases
  /\ worker[w].next <= Len(script[worker[w].item][worker[w].phase])
  /\ Current(w).kind = kind

Token(w) == <<worker[w].item, worker[w].phase, worker[w].next>>

(* Mutant: what the fixtures of an item print is not buffered.             *)
WriteInCall(w, target) ==
  IF target = "proxy" /\ worker[w].phase = "call"
  THEN buf' = [buf EXCEPT ![w] = @ \cup {Token(w)}] /\ UNCHANGED real
  ELSE real' = real \cup {Token(w)} /\ UNCHANGED buf

(* _ThreadLocalStream.write, of a proxy or of the real stream.             *)
Write(w, target) ==
  IF target = "proxy" /\ w \in DOMAIN buf
  THEN buf' = [buf EXCEPT ![w] = @ \cup {Token(w)}] /\ UNCHANGED real
  ELSE real' = real \cup {Token(w)} /\ UNCHANGED buf

PrintText(w) ==
  /\ Doing(w, "print")
  /\ Write(w, stdout)
  /\ worker' = [worker EXCEPT ![w].next = @ + 1]
  /\ UNCHANGED <<script, main, interrupted, stdout, stream, root, tl_level, cache,
                 stage, records, captured_output, captured_log, caplog>>

(* Mutant: setLevel is not patched, the level is everybody's.              *)
RootSetLevelShared(w, l) ==
  root' = [root EXCEPT !.level = l] /\ ClearCache /\ UNCHANGED tl_level

(* root.setLevel: patched, it stores the level for the thread and leaves   *)
(* root.level and the caches alone.                                        *)
RootSetLevel(w, l) ==
  IF root.patched
  THEN tl_level' = [tl_level EXCEPT ![w] = l] /\ UNCHANGED <<root, cache>>
  ELSE root' = [root EXCEPT !.level = l] /\ ClearCache /\ UNCHANGED tl_level

(* caplog.set_level, which remembers root.level the first time.            *)
SetLevel(w) ==
  /\ Doing(w, "set")
  /\ RootSetLevel(w, Current(w).level)
  /\ worker' = [worker EXCEPT ![w].next = @ + 1,
                              ![w].initial = IF @ = None THEN root.level ELSE @]
  /\ UNCHANGED <<script, main, interrupted, stdout, stream, stage, buf, records,
                 captured_output, captured_log, caplog, real>>

(* getEffectiveLevel: the patched one is a method of the root logger only, *)
(* a child without a level reads root.level.                               *)
EffectiveLevel(w, g) ==
  IF g = "root" /\ root.patched
  THEN IF tl_level[w] = None THEN NOTSET ELSE tl_level[w]
  ELSE root.level

(* Logger.isEnabledFor.                                                    *)
Enabled(w, g, l) ==
  IF cache[g][l] = None THEN l >= EffectiveLevel(w, g) ELSE cache[g][l]

(* Our handler keeps the record and, during the call, passes it on to the  *)
(* item's caplog handler; the StreamHandler prints it.                     *)
LogRecord(w) ==
  /\ Doing(w, "log")
  /\ LET g == Current(w).logger
         l == Current(w).level
         on == Enabled(w, g, l)
         kept == on /\ root.handler /\ l >= handler_level /\ w \in DOMAIN records
     IN  /\ cache' = [cache EXCEPT ![g][l] = on]
         /\ IF on THEN Write(w, stream) ELSE UNCHANGED <<buf, real>>
         /\ records' = IF kept THEN [records EXCEPT ![w] = @ \cup {Token(w)}] ELSE records
         /\ caplog' = IF kept /\ worker[w].phase = "call"
                      THEN [caplog EXCEPT ![worker[w].item] = @ \cup {Token(w)}]
                      ELSE caplog
  /\ worker' = [worker EXCEPT ![w].next = @ + 1]
  /\ UNCHANGED <<script, main, interrupted, stdout, stream, root, tl_level, stage,
                 captured_output, captured_log>>

(* To the next phase; a cancelled item skips its call.  The teardown ends  *)
(* with caplog's, which puts the level of the root logger back.            *)
NextPhase(w) ==
  /\ Working(w) /\ worker[w].phase \in Phases
  /\ \/ worker[w].next > Len(script[worker[w].item][worker[w].phase])
     \/ worker[w].phase = "call" /\ worker[w].next = 1 /\ interrupted
  /\ worker' = [worker EXCEPT ![w].next = 1,
                              ![w].phase = CASE @ = "setup" -> "call"
                                             [] @ = "call" -> "teardown"
                                             [] @ = "teardown" -> "capture"]
  /\ IF worker[w].phase = "teardown" /\ worker[w].initial # None
     THEN RootSetLevel(w, worker[w].initial)
     ELSE UNCHANGED <<root, cache, tl_level>>
  /\ UNCHANGED <<script, main, interrupted, stdout, stream, stage, buf, records,
                 captured_output, captured_log, caplog, real>>

(* Mutant: the buffer stays active.                                        *)
DeactivateLogOnly(w) ==
  /\ Working(w) /\ worker[w].phase = "capture"
  /\ captured_output' = [captured_output EXCEPT ![worker[w].item] = buf[w]]
  /\ captured_log' = [captured_log EXCEPT ![worker[w].item] = records[w]]
  /\ records' = Closed(records, w)
  /\ stage' = [stage EXCEPT ![worker[w].item] = "put"]
  /\ worker' = [worker EXCEPT ![w] = Idle]
  /\ UNCHANGED <<script, main, interrupted, stdout, stream, root, tl_level, cache,
                 caplog, buf, real>>

(* The finally of _pool_worker: both deactivate and the put.               *)
Deactivate(w) ==
  /\ Working(w) /\ worker[w].phase = "capture"
  /\ captured_output' = [captured_output EXCEPT ![worker[w].item] = buf[w]]
  /\ captured_log' = [captured_log EXCEPT ![worker[w].item] = records[w]]
  /\ buf' = Closed(buf, w)
  /\ records' = Closed(records, w)
  /\ stage' = [stage EXCEPT ![worker[w].item] = "put"]
  /\ worker' = [worker EXCEPT ![w] = Idle]
  /\ UNCHANGED <<script, main, interrupted, stdout, stream, root, tl_level, cache,
                 caplog, real>>

Worker(w) ==
  \/ \E i \in Items : Activate(w, i)
  \/ PrintText(w) \/ SetLevel(w) \/ LogRecord(w)
  \/ NextPhase(w) \/ Deactivate(w)

-----------------------------------------------------------------------------
(* Main, once the threads are started.                                     *)

(* Every result is collected, the threads are joined.                      *)
Join ==
  /\ main = "run"
  /\ \A i \in Items : stage[i] = "put"
  /\ main' = "restore"
  /\ UNCHANGED <<interrupted, stdout, stream, root, cache, workersOnly>>

(* SIGINT in the try around the collection loop: main cancels the items,   *)
(* does not join, and goes on to put back what it patched.                 *)
Interrupt ==
  /\ "interrupt" \in Faults /\ main = "run" /\ ~interrupted
  /\ interrupted' = TRUE
  /\ main' = "restore"
  /\ UNCHANGED <<stdout, stream, root, cache, workersOnly>>

(* SIGINT anywhere else: while main patches, starts the threads and fills  *)
(* the queue ("run", before the try), joins, reports the stragglers and    *)
(* ends the display ("restore", before the first assignment) or puts back. *)
InterruptEscapes ==
  /\ "interrupt" \in Faults /\ ~interrupted
  /\ main \in Before \cup {"run"} \cup After
  /\ main' = IF main \in Before THEN "unstarted" ELSE "escaped"
  /\ UNCHANGED <<interrupted, stdout, stream, root, cache, workersOnly>>

(* A hook raises in a report, of the collection loop or of a straggler.    *)
ReportEscapes ==
  /\ "report" \in Faults /\ ~interrupted
  /\ main \in {"run", "restore"}
  /\ main' = "escaped"
  /\ UNCHANGED <<interrupted, stdout, stream, root, cache, workersOnly>>

(* The streams and the streams of the handlers.                            *)
RestoreStreams ==
  /\ main = "restore"
  /\ stdout' = "real" /\ stream' = "real"
  /\ main' = "logging"
  /\ UNCHANGED <<interrupted, root, cache, workersOnly>>

(* removeHandler, and the methods of the class.                            *)
RestoreMethods ==
  /\ main = "logging"
  /\ root' = [root EXCEPT !.patched = FALSE, !.handler = FALSE]
  /\ main' = "level"
  /\ UNCHANGED <<interrupted, stdout, stream, cache, workersOnly>>

(* Mutant: setLevel before the methods are put back, so that it sets the   *)
(* level of main's thread only.                                            *)
RestoreLevelOfMain ==
  /\ main = "level"
  /\ main' = "left"
  /\ UNCHANGED <<interrupted, stdout, stream, root, cache, workersOnly>>

(* The original setLevel.                                                  *)
RestoreLevel ==
  /\ main = "level"
  /\ root' = [root EXCEPT !.level = saved_root_level]
  /\ ClearCache
  /\ main' = "left"
  /\ UNCHANGED <<interrupted, stdout, stream, workersOnly>>

Main ==
  \/ PatchStreams \/ AddHandler \/ PatchMethods
  \/ Join \/ Interrupt \/ InterruptEscapes \/ ReportEscapes
  \/ RestoreStreams \/ RestoreMethods \/ RestoreLevel

Next == Main \/ \E w \in Workers : Worker(w)

Spec == Init /\ [][Next]_vars

-----------------------------------------------------------------------------
Tokens == Items \X Phases \X Nat

(* Types; a thread has a buffer and records exactly while it has an item.  *)
TypeInv ==
  /\ main \in MainPlaces
  /\ interrupted \in BOOLEAN
  /\ stdout \in {"real", "proxy"} /\ stream \in {"real", "proxy"}
  /\ root \in [level : Levels \cup {NOTSET, saved_root_level},
               patched : BOOLEAN, handler : BOOLEAN]
  /\ tl_level \in [Workers -> Levels \cup {NOTSET, saved_root_level, None}]
  /\ cache \in [Loggers -> [Levels -> BOOLEAN \cup {None}]]
  /\ stage \in [Items -> {"queued", "taken", "put"}]
  /\ \A w \in Workers :
       /\ worker[w].item \in Items \cup {None}
       /\ Working(w) <=> w \in DOMAIN buf
       /\ Working(w) <=> w \in DOMAIN records
       /\ Working(w) => buf[w] \subseteq Tokens /\ records[w] \subseteq Tokens
  /\ real \subseteq Tokens

(* The operations of item i of a kind.                                     *)
Does(i, kind) == {t \in {<<i, p, k>> : p \in Phases, k \in 1 .. MaxLength} :
                    /\ t[3] \in DOMAIN script[i][t[2]]
                    /\ script[i][t[2]][t[3]].kind = kind}

OpAt(t) == script[t[1]][t[2]][t[3]]

Finished(i) == stage[i] = "put" /\ ~interrupted

(* What a test prints, in its setup, call or teardown, is in its own       *)
(* captured output when its result is put, and in nobody else's; nothing   *)
(* of it reaches the real stream unless the run was interrupted, when main *)
(* takes the proxies away from under the workers.                          *)
OutputIsOwn ==
  /\ \A i \in Items : \A t \in captured_output[i] : t[1] = i
  /\ \A i \in Items : Finished(i) => Does(i, "print") \subseteq captured_output[i]
  /\ ~interrupted => real = {}

(* The records of i's child loggers that no level of i itself can hide,    *)
(* whether a level that a test sets is seen by the child loggers and by    *)
(* its caplog (as the comments have it) or not (as the code has it).       *)
Unhidden(i) == {t \in Does(i, "log") :
                  /\ OpAt(t).logger = "child" /\ OpAt(t).level >= handler_level
                  /\ \A s \in Does(i, "set") : OpAt(t).level >= OpAt(s).level}

(* A record is kept for the test that logged it and for no other test, in  *)
(* captured_log and in its caplog.  No level that another test sets in the *)
(* meantime hides what a child logger of a test logs at the handler's      *)
(* level or above: this much of _runner.py:1282-1284, that one thread's    *)
(* level does not clobber the others', holds for child loggers.            *)
RecordsAreOwn ==
  \A i \in Items :
    /\ \A t \in captured_log[i] \cup caplog[i] : t[1] = i
    /\ Finished(i) =>
         /\ Unhidden(i) \subseteq captured_log[i]
         /\ {t \in Unhidden(i) : t[2] = "call"} \subseteq caplog[i]

(* Where _run_parallel reaches its end (it returns, or it raises the       *)
(* KeyboardInterrupt of the collection loop again), the streams and the    *)
(* logging are as before the group although threads may still print, log   *)
(* and set levels, and no logger remembers an answer that was given under  *)
(* another level.  A caplog that is torn down after an interrupt may set   *)
(* the level.  Nothing is put back where an exception leaves it before.    *)
AllPutBack ==
  main = "left" =>
    /\ stdout = "real" /\ stream = "real" /\ ~root.handler /\ ~root.patched
    /\ ~interrupted => root.level = saved_root_level
    /\ \A g \in Loggers, l \in Levels : cache[g][l] \in {None, l >= root.level}

(* "Restore real stdout/stderr and remove log handler after all workers    *)
(* are done" (_runner.py:1491): however _run_parallel is left.             *)
PutBackWhenLeft ==
  main \in {"left", "unstarted", "escaped"} =>
    stdout = "real" /\ stream = "real" /\ ~root.handler /\ ~root.patched

(* "Child loggers walking up the hierarchy see the per-thread level"       *)
(* (_runner.py:1285) and "caplog handlers apply their own level filters"   *)
(* (1280): a caplog keeps no record below the level that its own test set  *)
(* last in that call.                                                      *)
OwnLevelApplies ==
  \A i \in Items : \A t \in caplog[i], s \in Does(i, "set") :
    /\ s[2] = "call" /\ s[3] < t[3]
    /\ \A r \in Does(i, "set") : r[2] = "call" /\ r[3] < t[3] => r[3] <= s[3]
    => OpAt(t).level >= OpAt(s).level

(* _runner.py:1282-1284: a level that one test sets does not clobber the   *)
(* root level of the other threads.  A test that sets none loses no record *)
(* of the handler's level or above.                                        *)
LevelsDoNotClobber ==
  \A i \in Items :
    Finished(i) /\ Does(i, "set") = {} =>
      {t \in Does(i, "log") : OpAt(t).level >= handler_level} \subseteq captured_log[i]
=============================================================================

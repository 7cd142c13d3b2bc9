------------------------- MODULE OutputCaptureProofs -------------------------
(***************************************************************************)
(* Proofs about OutputCapture, for any items, scripts, levels and number   *)
(* of workers, with and without an interrupt.                              *)
(***************************************************************************)
EXTENDS OutputCapture, TLAPS

RootLevels == Levels \cup {NOTSET, saved_root_level}

Places == Phases \cup {"idle", "capture"}

(* TypeInv, with the types of the records that a worker keeps.             *)
CaptureTypes ==
  /\ TypeInv
  /\ script \in [Items -> Scripts]
  /\ worker \in [Workers -> [item : Items \cup {None}, phase : Places,
                             next : Nat \ {0}, initial : RootLevels \cup {None}]]
  /\ \A w \in Workers : Working(w) <=> worker[w].phase # "idle"
  /\ DOMAIN buf \subseteq Workers /\ DOMAIN records \subseteq Workers
  /\ captured_output \in [Items -> SUBSET Tokens]
  /\ captured_log \in [Items -> SUBSET Tokens]
  /\ caplog \in [Items -> SUBSET Tokens]

(* An item is with one worker while it is taken; main goes on when every   *)
(* result is put, unless it was interrupted; nothing works before the      *)
(* threads are started; main is interrupted, or an exception escapes.      *)
TakenOnce ==
  /\ \A w \in Workers : Working(w) => stage[worker[w].item] = "taken"
  /\ \A v, w \in Workers : Working(v) /\ worker[v].item = worker[w].item => v = w
  /\ ~interrupted /\ main \in After \cup {"left"} =>
       \A i \in Items : stage[i] = "put"
  /\ main \in Before \cup {"unstarted"} => ~interrupted /\ \A w \in Workers : ~Working(w)

(* What is replaced while main is where, and what the levels of the root   *)
(* logger and the answers of its child are meanwhile.  Where an exception  *)
(* has left items to the workers, everything is as in the run.             *)
Patched ==
  /\ main \in {"handler", "methods", "run", "restore"} => stdout = "proxy" /\ stream = "proxy"
  /\ main \in {"patch", "logging", "level", "left"} => stdout = "real" /\ stream = "real"
  /\ main \in MainPlaces \ {"escaped", "unstarted"} =>
       (root.patched <=> main \in {"run", "restore", "logging"})
  /\ main = "escaped" /\ (\E i \in Items : stage[i] # "put") =>
       stdout = "proxy" /\ stream = "proxy" /\ root.patched
  /\ root.patched \/ main = "methods" =>
       /\ root.handler /\ root.level = NOTSET
       /\ \A l \in Levels : cache["child"][l] \in {None, TRUE}
  /\ main \in {"level", "left"} => ~root.handler
  /\ main = "left" =>
       \A g \in Loggers, l \in Levels : cache[g][l] \in {None, l >= root.level}
  /\ main = "left" /\ ~interrupted => root.level = saved_root_level

(* Everything in the buffer of a worker, in its records and in what it     *)
(* stored comes from the item.                                             *)
OwnTokens ==
  /\ \A w \in Workers : Working(w) =>
       \A t \in buf[w] \cup records[w] : t[1] = worker[w].item
  /\ \A i \in Items :
       \A t \in captured_output[i] \cup captured_log[i] \cup caplog[i] : t[1] = i

(* The operations that the worker w has behind it.                         *)
Rank == [p \in Places |-> CASE p = "setup" -> 1 [] p = "call" -> 2
                            [] p = "teardown" -> 3 [] p = "capture" -> 4
                            [] p = "idle" -> 0]

Past(w, t) == \/ Rank[t[2]] < Rank[worker[w].phase]
              \/ t[2] = worker[w].phase /\ t[3] < worker[w].next

Kept(i) == {t \in Does(i, "log") : OpAt(t).logger = "child" /\ OpAt(t).level >= handler_level}

(* What the worker has kept of the item in hand, and what is stored for an *)
(* item that is not with a worker.                                         *)
InHand(w) ==
  Working(w) =>
    /\ \A t \in Does(worker[w].item, "print") : Past(w, t) => t \in buf[w]
    /\ \A t \in Kept(worker[w].item) : Past(w, t) => t \in records[w]
    /\ caplog[worker[w].item] = {t \in records[w] : t[2] = "call"}

Stored(i) ==
  /\ stage[i] = "queued" => caplog[i] = {}
  /\ stage[i] = "put" => /\ Does(i, "print") \subseteq captured_output[i]
                         /\ Kept(i) \subseteq captured_log[i]
                         /\ caplog[i] = {t \in captured_log[i] : t[2] = "call"}

(* Unless the run is interrupted, nothing is lost.                         *)
NothingLost ==
  ~interrupted => /\ real = {}
                  /\ \A w \in Workers : InHand(w)
                  /\ \A i \in Items : Stored(i)

CaptureInv == CaptureTypes /\ TakenOnce /\ Patched /\ OwnTokens /\ NothingLost

-----------------------------------------------------------------------------
(* Operations and collections.                                             *)

(* An operation has the fields of its kind.                                *)
LEMMA OpFields ==
  ASSUME NEW o \in Op
  PROVE  /\ o.kind \in {"print", "set", "log"}
         /\ o.kind = "set" => o.level \in Levels
         /\ o.kind = "log" => o.logger \in Loggers /\ o.level \in Levels
  BY DEF Op

(* A phase of a script is a sequence of at most MaxLength operations.      *)
LEMMA ScriptShape ==
  ASSUME script \in [Items -> Scripts], NEW i \in Items, NEW p \in Phases
  PROVE  /\ Len(script[i][p]) \in 0 .. MaxLength
         /\ DOMAIN script[i][p] = 1 .. Len(script[i][p])
         /\ \A k \in DOMAIN script[i][p] : script[i][p][k] \in Op
  <1>1. script[i][p] \in BoundedSeq(Op, MaxLength)
    BY CaptureAssumption
  <1>2. PICK m \in 0 .. MaxLength : script[i][p] \in [1 .. m -> Op]
    BY <1>1 DEF BoundedSeq, SeqOf
  <1>3. m \in Nat /\ script[i][p] \in Seq(Op)
    BY <1>2, CaptureAssumption
  <1>4. Len(script[i][p]) = m
    BY <1>2, <1>3
  <1> QED BY <1>2, <1>4

(* What a worker that does an operation does.                              *)
LEMMA DoingFacts ==
  ASSUME CaptureTypes, NEW w \in Workers, NEW kind, Doing(w, kind)
  PROVE  /\ worker[w].item \in Items
         /\ worker[w].phase \in Phases
         /\ worker[w].next \in 1 .. MaxLength
         /\ w \in DOMAIN buf /\ w \in DOMAIN records
         /\ Current(w) \in Op /\ Current(w).kind = kind
         /\ worker[w].next \in DOMAIN script[worker[w].item][worker[w].phase]
         /\ Token(w) \in Tokens
  <1>1. /\ worker[w].item \in Items /\ worker[w].phase \in Phases
        /\ worker[w].next \in Nat \ {0}
        /\ worker[w].next <= Len(script[worker[w].item][worker[w].phase])
        /\ w \in DOMAIN buf /\ w \in DOMAIN records
        /\ Current(w).kind = kind
    BY DEF CaptureTypes, TypeInv, Doing, Working
  <1>2. script \in [Items -> Scripts]
    BY DEF CaptureTypes
  <1>3. /\ worker[w].next \in 1 .. MaxLength
        /\ worker[w].next \in DOMAIN script[worker[w].item][worker[w].phase]
        /\ Current(w) \in Op
    BY <1>1, <1>2, ScriptShape, CaptureAssumption DEF Current
  <1>4. Token(w) \in Tokens
    BY <1>1 DEF Token, Tokens
  <1> QED BY <1>1, <1>3, <1>4

-----------------------------------------------------------------------------
(* Types.                                                                  *)

(* The types of what one worker keeps. *)
WorkerTypes(w) ==
  /\ worker[w] \in [item : Items \cup {None}, phase : Places,
                    next : Nat \ {0}, initial : RootLevels \cup {None}]
  /\ Working(w) <=> worker[w].phase # "idle"
  /\ Working(w) <=> w \in DOMAIN buf
  /\ Working(w) <=> w \in DOMAIN records
  /\ Working(w) => buf[w] \subseteq Tokens /\ records[w] \subseteq Tokens

LEMMA TypesAtStart == Init => CaptureTypes
  <1> SUFFICES ASSUME Init PROVE CaptureTypes
    OBVIOUS
  <1>1. \A w \in Workers : ~Working(w) /\ w \notin DOMAIN buf /\ w \notin DOMAIN records
    BY DEF Init, Working, Idle
  <1>2. TypeInv
    BY <1>1, CaptureAssumption DEF Init, TypeInv, Idle, Working, MainPlaces, Before
  <1>3. /\ worker \in [Workers -> [item : Items \cup {None}, phase : Places,
                                   next : Nat \ {0}, initial : RootLevels \cup {None}]]
        /\ \A w \in Workers : Working(w) <=> worker[w].phase # "idle"
    BY <1>1 DEF Init, Idle, Places
  <1> QED BY <1>1, <1>2, <1>3 DEF Init, CaptureTypes, Tokens

(* The types of what the workers share. *)
SharedTypes ==
  /\ main \in MainPlaces
  /\ interrupted \in BOOLEAN
  /\ stdout \in {"real", "proxy"} /\ stream \in {"real", "proxy"}
  /\ root \in [level : RootLevels, patched : BOOLEAN, handler : BOOLEAN]
  /\ tl_level \in [Workers -> RootLevels \cup {None}]
  /\ cache \in [Loggers -> [Levels -> BOOLEAN \cup {None}]]
  /\ stage \in [Items -> {"queued", "taken", "put"}]
  /\ real \subseteq Tokens
  /\ script \in [Items -> Scripts]
  /\ worker \in [Workers -> [item : Items \cup {None}, phase : Places,
                             next : Nat \ {0}, initial : RootLevels \cup {None}]]
  /\ DOMAIN buf \subseteq Workers /\ DOMAIN records \subseteq Workers
  /\ captured_output \in [Items -> SUBSET Tokens]
  /\ captured_log \in [Items -> SUBSET Tokens]
  /\ caplog \in [Items -> SUBSET Tokens]

LEMMA TypesSplit == CaptureTypes <=> SharedTypes /\ \A w \in Workers : WorkerTypes(w)
  BY DEF CaptureTypes, TypeInv, SharedTypes, WorkerTypes, RootLevels

(* What main does changes neither the workers nor what they collect. *)
LEMMA MainFrame == Main => UNCHANGED workersOnly
  BY DEF Main, PatchStreams, AddHandler, PatchMethods, Join, Interrupt, InterruptEscapes,
         ReportEscapes, RestoreStreams, RestoreMethods, RestoreLevel

LEMMA MainTypes ==
  ASSUME CaptureTypes, Main
  PROVE  CaptureTypes'
  <1>1. SharedTypes
    BY TypesSplit
  <1>2. /\ worker' = worker /\ buf' = buf /\ records' = records /\ script' = script
        /\ captured_output' = captured_output /\ captured_log' = captured_log
        /\ caplog' = caplog /\ real' = real /\ stage' = stage /\ tl_level' = tl_level
    BY MainFrame DEF workersOnly
  <1>3. main' \in MainPlaces /\ interrupted' \in BOOLEAN
    BY <1>1 DEF SharedTypes, Main, PatchStreams, AddHandler, PatchMethods, Join,
       Interrupt, InterruptEscapes, ReportEscapes, RestoreStreams, RestoreMethods,
       RestoreLevel, MainPlaces, Before, After
  <1>4. stdout' \in {"real", "proxy"} /\ stream' \in {"real", "proxy"}
    BY <1>1 DEF SharedTypes, Main, PatchStreams, AddHandler, PatchMethods, Join,
       Interrupt, InterruptEscapes, ReportEscapes, RestoreStreams, RestoreMethods,
       RestoreLevel
  <1>5. root' \in [level : RootLevels, patched : BOOLEAN, handler : BOOLEAN]
    <2>1. NOTSET \in RootLevels /\ saved_root_level \in RootLevels
      BY DEF RootLevels
    <2>2. CASE AddHandler
      BY <1>1, <2>1, <2>2 DEF SharedTypes, AddHandler
    <2>3. CASE PatchMethods \/ RestoreMethods
      BY <1>1, <2>3 DEF SharedTypes, PatchMethods, RestoreMethods
    <2>4. CASE RestoreLevel
      BY <1>1, <2>1, <2>4 DEF SharedTypes, RestoreLevel
    <2>5. CASE \/ PatchStreams \/ Join \/ Interrupt \/ InterruptEscapes \/ ReportEscapes
               \/ RestoreStreams
      BY <1>1, <2>5 DEF SharedTypes, PatchStreams, Join, Interrupt, InterruptEscapes,
         ReportEscapes, RestoreStreams
    <2> QED BY <2>2, <2>3, <2>4, <2>5 DEF Main
  <1>6. cache' \in [Loggers -> [Levels -> BOOLEAN \cup {None}]]
    BY <1>1 DEF SharedTypes, Main, PatchStreams, AddHandler, PatchMethods, Join,
       Interrupt, InterruptEscapes, ReportEscapes, RestoreStreams, RestoreMethods,
       RestoreLevel, ClearCache
  <1>7. SharedTypes'
    BY <1>1, <1>2, <1>3, <1>4, <1>5, <1>6 DEF SharedTypes
  <1>8. \A w \in Workers : WorkerTypes(w)'
    BY <1>2, TypesSplit DEF WorkerTypes, Working, Tokens
  <1> QED BY <1>7, <1>8 DEF CaptureTypes, TypeInv, SharedTypes, WorkerTypes, RootLevels

(* A worker that takes an item, and one that is done with it.              *)
LEMMA ActivateTypes ==
  ASSUME CaptureTypes, NEW w \in Workers, NEW i \in Items, Activate(w, i)
  PROVE  CaptureTypes'
  <1>1. SharedTypes /\ \A v \in Workers : WorkerTypes(v)
    BY TypesSplit
  <1>2. i # None
    BY CaptureAssumption
  <1>3. /\ DOMAIN buf' = DOMAIN buf \cup {w} /\ buf'[w] = {}
        /\ \A v \in DOMAIN buf : v # w => buf'[v] = buf[v]
        /\ DOMAIN records' = DOMAIN records \cup {w} /\ records'[w] = {}
        /\ \A v \in DOMAIN records : v # w => records'[v] = records[v]
    <2>1. buf' = Opened(buf, w) /\ records' = Opened(records, w)
      BY DEF Activate
    <2> QED BY <2>1 DEF Opened
  <1>4. worker' = [worker EXCEPT ![w] = [item |-> i, phase |-> "setup", next |-> 1,
                                         initial |-> None]]
    BY DEF Activate
  <1>5. worker' \in [Workers -> [item : Items \cup {None}, phase : Places,
                                 next : Nat \ {0}, initial : RootLevels \cup {None}]]
    BY <1>1, <1>4 DEF SharedTypes, Places, Phases
  <1>6. SharedTypes'
    BY <1>1, <1>3, <1>5 DEF SharedTypes, Activate
  <1>7. ASSUME NEW v \in Workers PROVE WorkerTypes(v)'
    <2>1. CASE v = w
      BY <1>1, <1>2, <1>3, <1>4, <1>5, <2>1 DEF WorkerTypes, Working, SharedTypes, Tokens
    <2>2. CASE v # w
      <3>1. worker'[v] = worker[v]
        BY <1>1, <1>4, <2>2 DEF SharedTypes
      <3> QED BY <1>1, <1>3, <2>2, <3>1 DEF WorkerTypes, Working
    <2> QED BY <2>1, <2>2
  <1> QED BY <1>6, <1>7 DEF CaptureTypes, TypeInv, SharedTypes, WorkerTypes, RootLevels

LEMMA DeactivateTypes ==
  ASSUME CaptureTypes, NEW w \in Workers, Deactivate(w)
  PROVE  CaptureTypes'
  <1>1. SharedTypes /\ \A v \in Workers : WorkerTypes(v)
    BY TypesSplit
  <1>2. /\ worker[w].item \in Items
        /\ buf[w] \subseteq Tokens /\ records[w] \subseteq Tokens
    BY <1>1 DEF WorkerTypes, Deactivate, Working
  <1>3. /\ DOMAIN buf' = DOMAIN buf \ {w}
        /\ \A v \in DOMAIN buf : v # w => buf'[v] = buf[v]
        /\ DOMAIN records' = DOMAIN records \ {w}
        /\ \A v \in DOMAIN records : v # w => records'[v] = records[v]
    <2>1. buf' = Closed(buf, w) /\ records' = Closed(records, w)
      BY DEF Deactivate
    <2> QED BY <2>1 DEF Closed, Restrict
  <1>4. worker' = [worker EXCEPT ![w] = Idle]
    BY DEF Deactivate
  <1>5. worker' \in [Workers -> [item : Items \cup {None}, phase : Places,
                                 next : Nat \ {0}, initial : RootLevels \cup {None}]]
    BY <1>1, <1>4 DEF SharedTypes, Places, Idle
  <1>6. SharedTypes'
    <2>1. /\ captured_output' \in [Items -> SUBSET Tokens]
          /\ captured_log' \in [Items -> SUBSET Tokens]
      BY <1>1, <1>2 DEF SharedTypes, Deactivate
    <2>2. stage' \in [Items -> {"queued", "taken", "put"}]
      BY <1>1, <1>2 DEF SharedTypes, Deactivate
    <2> QED BY <1>1, <1>3, <1>5, <2>1, <2>2 DEF SharedTypes, Deactivate
  <1>7. ASSUME NEW v \in Workers PROVE WorkerTypes(v)'
    <2>1. CASE v = w
      BY <1>1, <1>3, <1>4, <1>5, <2>1 DEF WorkerTypes, Working, SharedTypes, Idle
    <2>2. CASE v # w
      <3>1. worker'[v] = worker[v]
        BY <1>1, <1>4, <2>2 DEF SharedTypes
      <3> QED BY <1>1, <1>3, <2>2, <3>1 DEF WorkerTypes, Working
    <2> QED BY <2>1, <2>2
  <1> QED BY <1>6, <1>7 DEF CaptureTypes, TypeInv, SharedTypes, WorkerTypes, RootLevels

(* A worker that does its next operation, or goes on to the next phase,    *)
(* keeps its item.  What it collects grows by its own token at most.       *)
StaysAt(w) ==
  /\ worker' \in [Workers -> [item : Items \cup {None}, phase : Places,
                             next : Nat \ {0}, initial : RootLevels \cup {None}]]
  /\ worker'[w].item = worker[w].item /\ worker'[w].phase # "idle"
  /\ \A v \in Workers : v # w => worker'[v] = worker[v]

GrowsBy(f, w, t) == f' = f \/ f' = [f EXCEPT ![w] = @ \cup {t}]

LEMMA SameItemTypes ==
  ASSUME CaptureTypes, NEW w \in Workers, Working(w), StaysAt(w),
         NEW t \in Tokens, GrowsBy(buf, w, t), GrowsBy(records, w, t)
  PROVE  /\ DOMAIN buf' = DOMAIN buf /\ DOMAIN records' = DOMAIN records
         /\ \A v \in Workers : WorkerTypes(v)'
  <1>1. SharedTypes /\ \A v \in Workers : WorkerTypes(v)
    BY TypesSplit
  <1>2. worker[w].phase # "idle" /\ w \in DOMAIN buf /\ w \in DOMAIN records
    BY <1>1 DEF WorkerTypes
  <1>3. /\ DOMAIN buf' = DOMAIN buf /\ DOMAIN records' = DOMAIN records
        /\ \A v \in DOMAIN buf : v # w => buf'[v] = buf[v]
        /\ \A v \in DOMAIN records : v # w => records'[v] = records[v]
    BY DEF GrowsBy
  <1>4. buf'[w] \subseteq buf[w] \cup {t} /\ records'[w] \subseteq records[w] \cup {t}
    BY <1>2 DEF GrowsBy
  <1>6. ASSUME NEW v \in Workers PROVE WorkerTypes(v)'
    <2>1. CASE v = w
      BY <1>1, <1>2, <1>3, <1>4, <2>1 DEF WorkerTypes, Working, StaysAt
    <2>2. CASE v # w
      BY <1>1, <1>3, <2>2 DEF WorkerTypes, Working, StaysAt
    <2> QED BY <2>1, <2>2
  <1> QED BY <1>3, <1>6

(* Its own levels, or those of the root logger, when it sets one.          *)
LEMMA LevelTypes ==
  ASSUME SharedTypes, NEW w \in Workers, NEW l \in RootLevels, RootSetLevel(w, l)
  PROVE  /\ root' \in [level : RootLevels, patched : BOOLEAN, handler : BOOLEAN]
         /\ tl_level' \in [Workers -> RootLevels \cup {None}]
         /\ cache' \in [Loggers -> [Levels -> BOOLEAN \cup {None}]]
  <1>1. CASE root.patched
    BY <1>1 DEF SharedTypes, RootSetLevel
  <1>2. CASE ~root.patched
    <2>1. /\ root' = [root EXCEPT !.level = l]
          /\ cache' = [g \in Loggers |-> [k \in Levels |-> None]]
          /\ tl_level' = tl_level
      BY <1>2 DEF RootSetLevel, ClearCache
    <2> QED BY <2>1 DEF SharedTypes
  <1> QED BY <1>1, <1>2

(* The worker goes on to the next operation; l is what caplog remembers.   *)
MovesOn(w, l) == worker' = [worker EXCEPT ![w].next = @ + 1, ![w].initial = l]

LEMMA NextStep ==
  ASSUME CaptureTypes, NEW w \in Workers, Working(w), NEW l \in RootLevels \cup {None}, MovesOn(w, l)
  PROVE  StaysAt(w)
  <1>1. /\ worker \in [Workers -> [item : Items \cup {None}, phase : Places,
                                   next : Nat \ {0}, initial : RootLevels \cup {None}]]
        /\ worker[w].phase # "idle"
    BY TypesSplit DEF WorkerTypes, SharedTypes
  <1> DEFINE next_worker == [worker EXCEPT ![w].next = @ + 1]
  <1>2. /\ next_worker \in [Workers -> [item : Items \cup {None}, phase : Places,
                                        next : Nat \ {0}, initial : RootLevels \cup {None}]]
        /\ next_worker[w].item = worker[w].item /\ next_worker[w].phase = worker[w].phase
        /\ \A v \in Workers : v # w => next_worker[v] = worker[v]
    BY <1>1
  <1>3. worker' = [next_worker EXCEPT ![w].initial = l]
    BY DEF MovesOn
  <1> HIDE DEF next_worker
  <1> QED BY <1>1, <1>2, <1>3 DEF StaysAt

LEMMA PrintTypes ==
  ASSUME CaptureTypes, NEW w \in Workers, PrintText(w)
  PROVE  CaptureTypes'
  <1>1. SharedTypes
    BY TypesSplit
  <1>2. Working(w) /\ Token(w) \in Tokens
    BY DoingFacts DEF PrintText, Doing
  <1>3. StaysAt(w)
    <2>1. /\ worker[w].initial \in RootLevels \cup {None}
          /\ MovesOn(w, worker[w].initial)
      BY <1>1 DEF MovesOn, SharedTypes, PrintText
    <2> QED BY <1>2, <2>1, NextStep
  <1>4. GrowsBy(buf, w, Token(w)) /\ GrowsBy(records, w, Token(w)) /\ real' \subseteq Tokens
    BY <1>1, <1>2 DEF SharedTypes, GrowsBy, PrintText, Write
  <1>5. /\ DOMAIN buf' = DOMAIN buf /\ DOMAIN records' = DOMAIN records
        /\ \A v \in Workers : WorkerTypes(v)'
    BY <1>2, <1>3, <1>4, SameItemTypes
  <1>6. SharedTypes'
    BY <1>1, <1>3, <1>4, <1>5 DEF SharedTypes, StaysAt, PrintText
  <1> QED BY <1>5, <1>6 DEF CaptureTypes, TypeInv, SharedTypes, WorkerTypes, RootLevels

LEMMA SetLevelTypes ==
  ASSUME CaptureTypes, NEW w \in Workers, SetLevel(w)
  PROVE  CaptureTypes'
  <1>1. SharedTypes
    BY TypesSplit
  <1>2. Working(w) /\ Token(w) \in Tokens /\ Current(w).level \in RootLevels
    BY DoingFacts, OpFields DEF SetLevel, Doing, RootLevels
  <1>3. StaysAt(w)
    <2> DEFINE l == IF worker[w].initial = None THEN root.level ELSE worker[w].initial
    <2>1. l \in RootLevels \cup {None}
      BY <1>1 DEF SharedTypes
    <2>2. MovesOn(w, l)
      BY <1>1 DEF SetLevel, SharedTypes, MovesOn
    <2> QED BY <1>2, <2>1, <2>2, NextStep
  <1>4. GrowsBy(buf, w, Token(w)) /\ GrowsBy(records, w, Token(w))
    BY DEF GrowsBy, SetLevel
  <1>5. /\ DOMAIN buf' = DOMAIN buf /\ DOMAIN records' = DOMAIN records
        /\ \A v \in Workers : WorkerTypes(v)'
    BY <1>2, <1>3, <1>4, SameItemTypes
  <1>6. SharedTypes'
    <2>1. /\ root' \in [level : RootLevels, patched : BOOLEAN, handler : BOOLEAN]
          /\ tl_level' \in [Workers -> RootLevels \cup {None}]
          /\ cache' \in [Loggers -> [Levels -> BOOLEAN \cup {None}]]
      BY <1>1, <1>2, LevelTypes DEF SetLevel
    <2> QED BY <1>1, <1>3, <1>5, <2>1 DEF SharedTypes, StaysAt, SetLevel
  <1> QED BY <1>5, <1>6 DEF CaptureTypes, TypeInv, SharedTypes, WorkerTypes, RootLevels

LEMMA LogRecordTypes ==
  ASSUME CaptureTypes, NEW w \in Workers, LogRecord(w)
  PROVE  CaptureTypes'
  <1>1. SharedTypes
    BY TypesSplit
  <1>2. /\ Working(w) /\ Token(w) \in Tokens /\ worker[w].item \in Items
        /\ Current(w).level \in Levels /\ Current(w).logger \in Loggers
    BY DoingFacts, OpFields DEF LogRecord, Doing
  <1>3. StaysAt(w)
    <2>1. /\ worker[w].initial \in RootLevels \cup {None}
          /\ MovesOn(w, worker[w].initial)
      BY <1>1 DEF MovesOn, SharedTypes, LogRecord
    <2> QED BY <1>2, <2>1, NextStep
  <1>4. /\ GrowsBy(buf, w, Token(w)) /\ GrowsBy(records, w, Token(w))
        /\ real' \subseteq Tokens /\ caplog' \in [Items -> SUBSET Tokens]
    <2>1. /\ buf' = buf \/ buf' = [buf EXCEPT ![w] = @ \cup {Token(w)}]
          /\ real' = real \/ real' = real \cup {Token(w)}
      BY DEF LogRecord, Write
    <2>2. records' = records \/ records' = [records EXCEPT ![w] = @ \cup {Token(w)}]
      BY DEF LogRecord
    <2>3. \/ caplog' = caplog
          \/ caplog' = [caplog EXCEPT ![worker[w].item] = @ \cup {Token(w)}]
      BY DEF LogRecord
    <2> QED BY <1>1, <1>2, <2>1, <2>2, <2>3 DEF SharedTypes, GrowsBy
  <1>5. /\ DOMAIN buf' = DOMAIN buf /\ DOMAIN records' = DOMAIN records
        /\ \A v \in Workers : WorkerTypes(v)'
    BY <1>2, <1>3, <1>4, SameItemTypes
  <1>6. cache' \in [Loggers -> [Levels -> BOOLEAN \cup {None}]]
    <2> DEFINE g == Current(w).logger
               l == Current(w).level
    <2>1. Enabled(w, g, l) \in BOOLEAN
      <3>1. cache[g][l] \in BOOLEAN \cup {None}
        BY <1>1, <1>2 DEF SharedTypes
      <3>2. (l >= EffectiveLevel(w, g)) \in BOOLEAN
        OBVIOUS
      <3> QED BY <3>1, <3>2 DEF Enabled
    <2> QED BY <1>1, <1>2, <2>1 DEF SharedTypes, LogRecord
  <1>7. SharedTypes'
    BY <1>1, <1>3, <1>4, <1>5, <1>6 DEF SharedTypes, StaysAt, LogRecord
  <1> QED BY <1>5, <1>7 DEF CaptureTypes, TypeInv, SharedTypes, WorkerTypes, RootLevels

LEMMA NextPhaseTypes ==
  ASSUME CaptureTypes, NEW w \in Workers, NextPhase(w)
  PROVE  CaptureTypes'
  <1>1. SharedTypes
    BY TypesSplit
  <1>2. Working(w) /\ worker[w].phase \in Phases /\ worker[w].item \in Items
    BY <1>1 DEF NextPhase, SharedTypes, Working
  <1>3. StaysAt(w)
    <2> DEFINE p == CASE worker[w].phase = "setup" -> "call"
                      [] worker[w].phase = "call" -> "teardown"
                      [] worker[w].phase = "teardown" -> "capture"
    <2>1. p \in {"call", "teardown", "capture"}
      BY <1>2 DEF Phases
    <2>2. worker' = [worker EXCEPT ![w].next = 1, ![w].phase = p]
      BY DEF NextPhase
    <2> HIDE DEF p
    <2>3. p \in Places /\ p # "idle"
      BY <2>1 DEF Places, Phases
    <2> DEFINE reset == [worker EXCEPT ![w].next = 1]
    <2>4. /\ reset \in [Workers -> [item : Items \cup {None}, phase : Places,
                                    next : Nat \ {0}, initial : RootLevels \cup {None}]]
          /\ reset[w].item = worker[w].item
          /\ \A v \in Workers : v # w => reset[v] = worker[v]
      BY <1>1 DEF SharedTypes
    <2>5. worker' = [reset EXCEPT ![w].phase = p]
      BY <2>2
    <2> HIDE DEF reset
    <2> QED BY <2>3, <2>4, <2>5 DEF StaysAt
  <1>4. PICK t \in Tokens : GrowsBy(buf, w, t) /\ GrowsBy(records, w, t)
    <2>1. <<worker[w].item, "call", 1>> \in Tokens
      BY <1>2 DEF Tokens, Phases
    <2> QED BY <2>1 DEF NextPhase, GrowsBy
  <1>5. /\ DOMAIN buf' = DOMAIN buf /\ DOMAIN records' = DOMAIN records
        /\ \A v \in Workers : WorkerTypes(v)'
    BY <1>2, <1>3, <1>4, SameItemTypes
  <1>6. /\ root' \in [level : RootLevels, patched : BOOLEAN, handler : BOOLEAN]
        /\ tl_level' \in [Workers -> RootLevels \cup {None}]
        /\ cache' \in [Loggers -> [Levels -> BOOLEAN \cup {None}]]
    <2>1. CASE worker[w].phase = "teardown" /\ worker[w].initial # None
      <3>1. worker[w].initial \in RootLevels /\ RootSetLevel(w, worker[w].initial)
        BY <1>1, <2>1 DEF SharedTypes, NextPhase
      <3> QED BY <1>1, <3>1, LevelTypes
    <2>2. CASE ~(worker[w].phase = "teardown" /\ worker[w].initial # None)
      BY <1>1, <2>2 DEF SharedTypes, NextPhase
    <2> QED BY <2>1, <2>2
  <1>7. SharedTypes'
    BY <1>1, <1>3, <1>5, <1>6 DEF SharedTypes, StaysAt, NextPhase
  <1> QED BY <1>5, <1>7 DEF CaptureTypes, TypeInv, SharedTypes, WorkerTypes, RootLevels

LEMMA TypesKept == CaptureTypes /\ [Next]_vars => CaptureTypes'
  <1> SUFFICES ASSUME CaptureTypes, [Next]_vars PROVE CaptureTypes'
    OBVIOUS
  <1>1. CASE Main
    BY <1>1, MainTypes
  <1>2. ASSUME NEW w \in Workers, Worker(w) PROVE CaptureTypes'
    BY <1>2, ActivateTypes, PrintTypes, SetLevelTypes, LogRecordTypes, NextPhaseTypes,
       DeactivateTypes DEF Worker
  <1>3. CASE UNCHANGED vars
    BY <1>3 DEF vars, CaptureTypes, TypeInv, Working
  <1> QED BY <1>1, <1>2, <1>3 DEF Next

(* The variables have their types in every state, and a thread has a       *)
(* buffer and records exactly while it has an item (_pool_worker activates *)
(* both when it takes an item and deactivates both in its finally).        *)
THEOREM CaptureTypeCorrect == Spec => []TypeInv
  <1>1. CaptureTypes => TypeInv
    BY DEF CaptureTypes
  <1> QED BY <1>1, TypesAtStart, TypesKept, PTL DEF Spec

-----------------------------------------------------------------------------
(* Each item is with one worker.                                           *)

(* The steps of a worker between taking an item and handing it in. *)
Works(w) == PrintText(w) \/ SetLevel(w) \/ LogRecord(w) \/ NextPhase(w)

LEMMA ItemsStay ==
  ASSUME CaptureTypes, NEW w \in Workers, Works(w)
  PROVE  /\ Working(w)
         /\ \A v \in Workers : worker'[v].item = worker[v].item
         /\ \A v \in Workers : v # w => worker'[v] = worker[v]
         /\ stage' = stage /\ main' = main /\ interrupted' = interrupted
         /\ script' = script
         /\ captured_output' = captured_output /\ captured_log' = captured_log
  <1>1. worker \in [Workers -> [item : Items \cup {None}, phase : Places,
                                next : Nat \ {0}, initial : RootLevels \cup {None}]]
    BY DEF CaptureTypes
  <1>2. CASE PrintText(w)
    BY <1>1, <1>2 DEF PrintText, Doing
  <1>3. CASE SetLevel(w)
    BY <1>1, <1>3 DEF SetLevel, Doing
  <1>4. CASE LogRecord(w)
    BY <1>1, <1>4 DEF LogRecord, Doing
  <1>5. CASE NextPhase(w)
    BY <1>1, <1>5 DEF NextPhase
  <1> QED BY <1>2, <1>3, <1>4, <1>5 DEF Works

LEMMA TakenOnceAtStart == Init => TakenOnce
  BY DEF Init, TakenOnce, Working, Idle, Before, After

LEMMA TakenOnceKept == CaptureTypes /\ TakenOnce /\ [Next]_vars => TakenOnce'
  <1> SUFFICES ASSUME CaptureTypes, TakenOnce, [Next]_vars PROVE TakenOnce'
    OBVIOUS
  <1>1. /\ \A w \in Workers : worker[w].item \in Items \cup {None}
        /\ worker \in [Workers -> [item : Items \cup {None}, phase : Places,
                                   next : Nat \ {0}, initial : RootLevels \cup {None}]]
        /\ stage \in [Items -> {"queued", "taken", "put"}]
    BY DEF CaptureTypes, TypeInv
  <1>2. CASE Main
    <2>1. UNCHANGED <<worker, stage>>
      BY <1>2, MainFrame DEF workersOnly
    <2>2. /\ main' \in Before \cup {"unstarted"} => main \in Before /\ ~interrupted'
          /\ ~interrupted' /\ main' \in After \cup {"left"} =>
               ~interrupted /\ (main \in After \/ \A i \in Items : stage[i] = "put")
      BY <1>2 DEF TakenOnce, Main, PatchStreams, AddHandler, PatchMethods, Join, Interrupt,
         InterruptEscapes, ReportEscapes, RestoreStreams, RestoreMethods, RestoreLevel,
         Before, After
    <2> QED BY <2>1, <2>2 DEF TakenOnce, Working
  <1>3. ASSUME NEW w \in Workers, NEW i \in Items, Activate(w, i) PROVE TakenOnce'
    <2>1. i # None
      BY CaptureAssumption
    <2>2. /\ worker'[w].item = i
          /\ \A v \in Workers : v # w => worker'[v] = worker[v]
          /\ stage[i] = "queued" /\ stage'[i] = "taken"
          /\ \A j \in Items : j # i => stage'[j] = stage[j]
          /\ main' = main /\ interrupted' = interrupted
          /\ main \notin Before \cup {"unstarted"}
      BY <1>1, <1>3 DEF Activate
    <2>3. \A v \in Workers : Working(v) => worker[v].item # i
      BY <2>2 DEF TakenOnce
    <2> QED BY <1>1, <2>1, <2>2, <2>3 DEF TakenOnce, Working
  <1>4. ASSUME NEW w \in Workers, Works(w) PROVE TakenOnce'
    BY <1>4, ItemsStay DEF TakenOnce, Working
  <1>5. ASSUME NEW w \in Workers, Deactivate(w) PROVE TakenOnce'
    <2>1. /\ worker[w].item \in Items /\ Working(w)
          /\ worker'[w].item = None
          /\ \A v \in Workers : v # w => worker'[v] = worker[v]
          /\ stage'[worker[w].item] = "put"
          /\ \A j \in Items : j # worker[w].item => stage'[j] = stage[j]
          /\ main' = main /\ interrupted' = interrupted
      BY <1>1, <1>5 DEF Deactivate, Working, Idle
    <2> QED BY <1>1, <2>1 DEF TakenOnce, Working
  <1>6. CASE UNCHANGED vars
    BY <1>6 DEF vars, TakenOnce, Working
  <1> QED BY <1>2, <1>3, <1>4, <1>5, <1>6 DEF Next, Worker, Works

-----------------------------------------------------------------------------
(* What main replaces, and what Python's loggers remember meanwhile.       *)

LEMMA PatchedAtStart == Init => Patched
  BY CaptureAssumption DEF Init, Patched

LEMMA PatchedByMain ==
  ASSUME CaptureTypes, TakenOnce, Patched, Main
  PROVE  Patched'
  <1> USE DEF Before, After, MainPlaces
  <1>1. CASE PatchStreams
    BY <1>1 DEF Patched, PatchStreams
  <1>2. CASE AddHandler
    <2>1. /\ root'.level = NOTSET /\ root'.handler = TRUE /\ root'.patched = root.patched
      BY <1>2 DEF AddHandler, CaptureTypes, TypeInv
    <2>2. \A l \in Levels : cache'["child"][l] = None
      BY <1>2 DEF AddHandler, ClearCache, Loggers
    <2> QED BY <1>2, <2>1, <2>2 DEF Patched, AddHandler
  <1>3. CASE PatchMethods
    <2>1. root'.level = root.level /\ root'.handler = root.handler /\ root'.patched = TRUE
      BY <1>3 DEF PatchMethods, CaptureTypes, TypeInv
    <2> QED BY <1>3, <2>1 DEF Patched, PatchMethods
  <1>4. CASE Join
    BY <1>4 DEF Patched, Join
  <1>5. CASE Interrupt
    BY <1>5 DEF Patched, Interrupt
  <1>6. CASE InterruptEscapes \/ ReportEscapes
    <2>1. /\ main' \in {"escaped", "unstarted"}
          /\ main' = "escaped" => main = "run" \/ \A i \in Items : stage[i] = "put"
          /\ UNCHANGED <<stdout, stream, root, cache, stage>>
      BY <1>6 DEF InterruptEscapes, ReportEscapes, workersOnly, TakenOnce
    <2> QED BY <2>1 DEF Patched
  <1>7. CASE RestoreStreams
    BY <1>7 DEF Patched, RestoreStreams
  <1>8. CASE RestoreMethods
    <2>1. /\ root'.level = root.level /\ root'.handler = FALSE /\ root'.patched = FALSE
      BY <1>8 DEF RestoreMethods, CaptureTypes, TypeInv
    <2> QED BY <1>8, <2>1 DEF Patched, RestoreMethods
  <1>9. CASE RestoreLevel
    <2>1. /\ root'.level = saved_root_level
          /\ root'.handler = root.handler /\ root'.patched = root.patched
      BY <1>9 DEF RestoreLevel, CaptureTypes, TypeInv
    <2>2. \A g \in Loggers, l \in Levels : cache'[g][l] = None
      BY <1>9 DEF RestoreLevel, ClearCache
    <2> QED BY <1>9, <2>1, <2>2 DEF Patched, RestoreLevel
  <1> QED BY <1>1, <1>2, <1>3, <1>4, <1>5, <1>6, <1>7, <1>8, <1>9 DEF Main

(* A level that is set while the logger is patched is the thread's; after  *)
(* that it is the root logger's and the loggers forget their answers.      *)
LEMMA PatchedByLevel ==
  ASSUME CaptureTypes, Patched, NEW w \in Workers, NEW l \in RootLevels, RootSetLevel(w, l),
         main' = main, interrupted' = interrupted, stdout' = stdout, stream' = stream,
         stage' = stage, main # "methods", main = "left" => interrupted
  PROVE  Patched'
  <1>1. CASE root.patched
    BY <1>1 DEF Patched, RootSetLevel
  <1>2. CASE ~root.patched
    <2>1. /\ root' = [root EXCEPT !.level = l]
          /\ cache' = [g \in Loggers |-> [k \in Levels |-> None]]
      BY <1>2 DEF RootSetLevel, ClearCache
    <2>2. root'.patched = root.patched /\ root'.handler = root.handler
      BY <2>1 DEF CaptureTypes, TypeInv
    <2> QED BY <1>2, <2>1, <2>2 DEF Patched
  <1> QED BY <1>1, <1>2

LEMMA PatchedByLog ==
  ASSUME CaptureTypes, Patched, NEW w \in Workers, LogRecord(w), main # "methods"
  PROVE  Patched'
  <1> DEFINE g == Current(w).logger
             l == Current(w).level
  <1>1. g \in Loggers /\ l \in Levels
    BY DoingFacts, OpFields DEF LogRecord
  <1>2. /\ cache \in [Loggers -> [Levels -> BOOLEAN \cup {None}]]
        /\ cache' = [cache EXCEPT ![g][l] = Enabled(w, g, l)]
        /\ main' = main /\ interrupted' = interrupted /\ root' = root
        /\ stdout' = stdout /\ stream' = stream /\ stage' = stage
    BY DEF CaptureTypes, TypeInv, LogRecord
  <1>3. l >= NOTSET
    <2>1. \A k \in Levels : k \in Nat
      BY CaptureAssumption
    <2>2. \A k \in Nat : k >= NOTSET
      BY DEF NOTSET
    <2> QED BY <1>1, <2>1, <2>2
  <1>4. ASSUME root.patched PROVE \A k \in Levels : cache'["child"][k] \in {None, TRUE}
    <2>1. \A k \in Levels : cache["child"][k] \in {None, TRUE}
      BY <1>4 DEF Patched
    <2>2. g = "child" => Enabled(w, g, l) = TRUE
      BY <1>1, <1>3, <1>4, <2>1 DEF Patched, Enabled, EffectiveLevel
    <2> QED BY <1>1, <1>2, <2>1, <2>2 DEF Loggers
  <1>5. ASSUME main = "left"
        PROVE  \A h \in Loggers, k \in Levels : cache'[h][k] \in {None, k >= root.level}
    <2>1. /\ \A h \in Loggers, k \in Levels : cache[h][k] \in {None, k >= root.level}
          /\ ~root.patched
      BY <1>5 DEF Patched, MainPlaces
    <2>2. Enabled(w, g, l) \in {None, l >= root.level}
      BY <1>1, <1>5, <2>1 DEF Enabled, EffectiveLevel
    <2> HIDE DEF g, l
    <2> QED BY <1>1, <1>2, <2>1, <2>2
  <1> QED BY <1>2, <1>4, <1>5 DEF Patched

LEMMA PatchedKept == CaptureTypes /\ TakenOnce /\ Patched /\ [Next]_vars => Patched'
  <1> SUFFICES ASSUME CaptureTypes, TakenOnce, Patched, [Next]_vars PROVE Patched'
    OBVIOUS
  <1>1. CASE Main
    BY <1>1, PatchedByMain
  <1>2. ASSUME NEW w \in Workers, NEW i \in Items, Activate(w, i) PROVE Patched'
    <2>1. stage[i] # "put"
      BY <1>2 DEF Activate
    <2> QED BY <1>2, <2>1 DEF Patched, Activate
  <1>3. ASSUME NEW w \in Workers, Works(w) PROVE Patched'
    <2>1. (main = "left" => interrupted) /\ main # "methods"
      <3>1. Working(w) /\ worker[w].item \in Items
        BY <1>3, ItemsStay DEF CaptureTypes, TypeInv, Working
      <3> QED BY <3>1 DEF TakenOnce, Before, After
    <2>2. CASE PrintText(w)
      BY <2>2 DEF Patched, PrintText
    <2>3. CASE SetLevel(w)
      <3>1. Current(w).level \in RootLevels /\ RootSetLevel(w, Current(w).level)
        BY <2>3, DoingFacts, OpFields DEF SetLevel, RootLevels
      <3> QED BY <2>1, <2>3, <3>1, PatchedByLevel DEF SetLevel
    <2>4. CASE LogRecord(w)
      BY <2>1, <2>4, PatchedByLog
    <2>5. CASE NextPhase(w)
      <3>1. CASE worker[w].phase = "teardown" /\ worker[w].initial # None
        <4>1. worker[w].initial \in RootLevels /\ RootSetLevel(w, worker[w].initial)
          BY <2>5, <3>1 DEF NextPhase, CaptureTypes
        <4> QED BY <2>1, <2>5, <4>1, PatchedByLevel DEF NextPhase
      <3>2. CASE ~(worker[w].phase = "teardown" /\ worker[w].initial # None)
        BY <2>5, <3>2 DEF Patched, NextPhase
      <3> QED BY <3>1, <3>2
    <2> QED BY <1>3, <2>2, <2>3, <2>4, <2>5 DEF Works
  <1>4. ASSUME NEW w \in Workers, Deactivate(w) PROVE Patched'
    <2>1. \A i \in Items : stage'[i] # "put" => stage[i] # "put"
      BY <1>4 DEF Deactivate, CaptureTypes, TypeInv
    <2> QED BY <1>4, <2>1 DEF Patched, Deactivate
  <1>5. CASE UNCHANGED vars
    BY <1>5 DEF vars, Patched
  <1> QED BY <1>1, <1>2, <1>3, <1>4, <1>5 DEF Next, Worker, Works

(* Where _run_parallel reaches its end, normally or after the SIGINT of    *)
(* the collection loop, the streams and the logging are as before it, with *)
(* whatever tests, levels and threads still at work, and no logger         *)
(* remembers an answer that was given under another level (the original    *)
(* setLevel clears the caches).  An exception that leaves it elsewhere is  *)
(* in Spec and not in AllPutBack: it puts nothing back.                    *)
THEOREM StreamsAndLoggingPutBack == Spec => []AllPutBack
  <1> DEFINE PutBackInv == CaptureTypes /\ TakenOnce /\ Patched
  <1>1. Init => PutBackInv
    BY TypesAtStart, TakenOnceAtStart, PatchedAtStart
  <1>2. PutBackInv /\ [Next]_vars => PutBackInv'
    BY TypesKept, TakenOnceKept, PatchedKept
  <1>3. PutBackInv => AllPutBack
    BY DEF AllPutBack, Patched, MainPlaces
  <1> QED BY <1>1, <1>2, <1>3, PTL DEF Spec

-----------------------------------------------------------------------------
(* Whose text and records.                                                 *)

(* What the workers collect when w works: w at most its own token.         *)
LEMMA WorksCollect ==
  ASSUME CaptureTypes, NEW w \in Workers, Works(w)
  PROVE  /\ worker[w].item \in Items /\ w \in DOMAIN buf /\ w \in DOMAIN records
         /\ DOMAIN buf' = DOMAIN buf /\ DOMAIN records' = DOMAIN records
         /\ \A v \in DOMAIN buf : v # w => buf'[v] = buf[v]
         /\ \A v \in DOMAIN records : v # w => records'[v] = records[v]
         /\ buf'[w] \subseteq buf[w] \cup {Token(w)}
         /\ records'[w] \subseteq records[w] \cup {Token(w)}
         /\ \A i \in Items : i # worker[w].item => caplog'[i] = caplog[i]
         /\ caplog'[worker[w].item] \subseteq caplog[worker[w].item] \cup {Token(w)}
  <1>1. /\ worker[w].item \in Items /\ w \in DOMAIN buf /\ w \in DOMAIN records
        /\ caplog \in [Items -> SUBSET Tokens]
    BY ItemsStay DEF CaptureTypes, TypeInv, Working
  <1>2. CASE PrintText(w)
    BY <1>1, <1>2 DEF PrintText, Write
  <1>3. CASE SetLevel(w)
    BY <1>1, <1>3 DEF SetLevel
  <1>4. CASE LogRecord(w)
    <2>1. buf' = buf \/ buf' = [buf EXCEPT ![w] = @ \cup {Token(w)}]
      BY <1>4 DEF LogRecord, Write
    <2>2. records' = records \/ records' = [records EXCEPT ![w] = @ \cup {Token(w)}]
      BY <1>4 DEF LogRecord
    <2>3. \/ caplog' = caplog
          \/ caplog' = [caplog EXCEPT ![worker[w].item] = @ \cup {Token(w)}]
      BY <1>4 DEF LogRecord
    <2> QED BY <1>1, <2>1, <2>2, <2>3
  <1>5. CASE NextPhase(w)
    BY <1>1, <1>5 DEF NextPhase
  <1> QED BY <1>2, <1>3, <1>4, <1>5 DEF Works

LEMMA OwnTokensAtStart == Init => OwnTokens
  BY DEF Init, OwnTokens, Working, Idle

LEMMA OwnTokensKept == CaptureTypes /\ OwnTokens /\ [Next]_vars => OwnTokens'
  <1> SUFFICES ASSUME CaptureTypes, OwnTokens, [Next]_vars PROVE OwnTokens'
    OBVIOUS
  <1>1. /\ \A w \in Workers : Working(w) <=> w \in DOMAIN buf
        /\ \A w \in Workers : Working(w) <=> w \in DOMAIN records
        /\ \A w \in Workers : Working(w) => worker[w].item \in Items
        /\ worker \in [Workers -> [item : Items \cup {None}, phase : Places,
                                   next : Nat \ {0}, initial : RootLevels \cup {None}]]
        /\ captured_output \in [Items -> SUBSET Tokens]
        /\ captured_log \in [Items -> SUBSET Tokens]
    BY DEF CaptureTypes, TypeInv, Working
  <1>2. CASE Main
    BY <1>2, MainFrame DEF OwnTokens, Working, workersOnly
  <1>3. ASSUME NEW w \in Workers, NEW i \in Items, Activate(w, i) PROVE OwnTokens'
    <2>1. /\ buf'[w] = {} /\ records'[w] = {}
          /\ \A v \in DOMAIN buf : v # w => buf'[v] = buf[v]
          /\ \A v \in DOMAIN records : v # w => records'[v] = records[v]
      <3>1. buf' = Opened(buf, w) /\ records' = Opened(records, w)
        BY <1>3 DEF Activate
      <3> QED BY <3>1 DEF Opened
    <2>2. /\ \A v \in Workers : v # w => worker'[v] = worker[v]
          /\ captured_output' = captured_output /\ captured_log' = captured_log
          /\ caplog' = caplog
      BY <1>1, <1>3 DEF Activate
    <2> QED BY <1>1, <2>1, <2>2 DEF OwnTokens, Working
  <1>4. ASSUME NEW w \in Workers, Works(w) PROVE OwnTokens'
    <2>1. Token(w)[1] = worker[w].item
      BY DEF Token
    <2>2. ASSUME NEW v \in Workers, Working(v)', NEW t \in buf'[v] \cup records'[v]
          PROVE  t[1] = worker'[v].item
      <3>1. Working(v) /\ worker'[v].item = worker[v].item
        BY <1>4, <2>2, ItemsStay DEF Working
      <3>2. \/ t \in buf[v] \cup records[v]
            \/ v = w /\ t = Token(w)
        BY <1>1, <1>4, <2>2, <3>1, WorksCollect
      <3> QED BY <2>1, <3>1, <3>2 DEF OwnTokens
    <2>3. ASSUME NEW i \in Items,
                 NEW t \in captured_output'[i] \cup captured_log'[i] \cup caplog'[i]
          PROVE  t[1] = i
      <3>1. \/ t \in captured_output[i] \cup captured_log[i] \cup caplog[i]
            \/ i = worker[w].item /\ t = Token(w)
        BY <1>4, ItemsStay, WorksCollect
      <3> QED BY <2>1, <3>1 DEF OwnTokens
    <2> QED BY <2>2, <2>3 DEF OwnTokens
  <1>5. ASSUME NEW w \in Workers, Deactivate(w) PROVE OwnTokens'
    <2> DEFINE i == worker[w].item
    <2>1. /\ \A v \in DOMAIN buf : v # w => buf'[v] = buf[v]
          /\ \A v \in DOMAIN records : v # w => records'[v] = records[v]
      <3>1. buf' = Closed(buf, w) /\ records' = Closed(records, w)
        BY <1>5 DEF Deactivate
      <3> QED BY <3>1 DEF Closed, Restrict
    <2>2. /\ Working(w) /\ worker'[w].item = None
          /\ \A v \in Workers : v # w => worker'[v] = worker[v]
          /\ captured_output'[i] = buf[w] /\ captured_log'[i] = records[w]
          /\ \A j \in Items : j # i => /\ captured_output'[j] = captured_output[j]
                                       /\ captured_log'[j] = captured_log[j]
          /\ caplog' = caplog
      BY <1>1, <1>5 DEF Deactivate, Idle
    <2> QED BY <1>1, <2>1, <2>2 DEF OwnTokens, Working
  <1>6. CASE UNCHANGED vars
    BY <1>6 DEF vars, OwnTokens, Working
  <1> QED BY <1>2, <1>3, <1>4, <1>5, <1>6 DEF Next, Worker, Works

-----------------------------------------------------------------------------
(* Nothing is lost.                                                        *)

LEMMA DoesFacts ==
  ASSUME CaptureTypes, NEW i \in Items, NEW kind, NEW t \in Does(i, kind)
  PROVE  /\ t = <<i, t[2], t[3]>>
         /\ t[2] \in Phases /\ t[3] \in Nat \ {0}
         /\ t[3] <= Len(script[i][t[2]]) /\ OpAt(t).kind = kind
  <1>1. /\ t = <<i, t[2], t[3]>> /\ t[2] \in Phases
        /\ t[3] \in DOMAIN script[i][t[2]] /\ OpAt(t).kind = kind
    BY DEF Does, OpAt
  <1>2. script \in [Items -> Scripts]
    BY DEF CaptureTypes
  <1> QED BY <1>1, <1>2, ScriptShape, CaptureAssumption

(* A worker with an item works while main waits, or has left without       *)
(* undoing anything, unless it was interrupted.                            *)
LEMMA WorksWhileRun ==
  ASSUME CaptureTypes, TakenOnce, Patched, ~interrupted, NEW w \in Workers, Working(w)
  PROVE  stdout = "proxy" /\ stream = "proxy" /\ root.patched
  <1>1. worker[w].item \in Items /\ main \in MainPlaces
    BY DEF CaptureTypes, TypeInv, Working
  <1>2. stage[worker[w].item] # "put" /\ main \in {"run", "escaped"}
    BY <1>1 DEF TakenOnce, MainPlaces, Before, After
  <1> QED BY <1>1, <1>2 DEF Patched, MainPlaces

LEMMA NothingLostAtStart == Init => NothingLost
  <1> SUFFICES ASSUME Init PROVE NothingLost
    OBVIOUS
  <1>1. \A w \in Workers : ~Working(w)
    BY DEF Init, Working, Idle
  <1> QED BY <1>1 DEF Init, NothingLost, InHand, Stored

(* A step of one worker leaves what another has in hand alone.             *)
LEMMA OthersInHand ==
  ASSUME CaptureTypes, NEW v \in Workers, InHand(v), script' = script,
         worker'[v] = worker[v],
         Working(v) => /\ buf'[v] = buf[v] /\ records'[v] = records[v]
                       /\ caplog'[worker[v].item] = caplog[worker[v].item]
  PROVE  InHand(v)'
  BY DEF InHand, Working, Does, Kept, OpAt, Past

LEMMA OthersStored ==
  ASSUME NEW i \in Items, Stored(i), script' = script, stage'[i] = stage[i],
         caplog'[i] = caplog[i],
         captured_output'[i] = captured_output[i], captured_log'[i] = captured_log[i]
  PROVE  Stored(i)'
  BY DEF Stored, Does, Kept, OpAt

(* What is behind a worker after its next operation: this one, and what    *)
(* was already.                                                            *)
LEMMA PastGrows ==
  ASSUME CaptureTypes, NEW w \in Workers, NEW kind, Doing(w, kind),
         worker'[w].phase = worker[w].phase, worker'[w].next = worker[w].next + 1,
         NEW any, NEW t \in Does(worker[w].item, any), Past(w, t)'
  PROVE  \/ Past(w, t)
         \/ t = Token(w) /\ OpAt(t) = Current(w) /\ any = kind
  <1>1. /\ worker[w].item \in Items /\ worker[w].next \in Nat
        /\ Current(w).kind = kind
    BY DoingFacts, CaptureAssumption DEF CaptureTypes
  <1>2. /\ t = <<worker[w].item, t[2], t[3]>> /\ t[3] \in Nat /\ OpAt(t).kind = any
    BY <1>1, DoesFacts
  <1>3. \/ Rank[t[2]] < Rank[worker[w].phase]
        \/ t[2] = worker[w].phase /\ t[3] < worker[w].next + 1
    BY DEF Past
  <1>4. CASE t[2] = worker[w].phase /\ t[3] = worker[w].next
    <2>1. t = Token(w) /\ OpAt(t) = Current(w)
      BY <1>2, <1>4 DEF Token, OpAt, Current
    <2> QED BY <1>1, <1>2, <2>1
  <1>5. CASE ~(t[2] = worker[w].phase /\ t[3] = worker[w].next)
    BY <1>1, <1>2, <1>3, <1>5 DEF Past
  <1> QED BY <1>4, <1>5

(* At the end of a phase all its operations are behind the worker.         *)
LEMMA PastOfPhase ==
  ASSUME CaptureTypes, NEW w \in Workers, Working(w), worker[w].phase \in Phases,
         worker[w].next > Len(script[worker[w].item][worker[w].phase]),
         worker'[w].phase = CASE worker[w].phase = "setup" -> "call"
                              [] worker[w].phase = "call" -> "teardown"
                              [] worker[w].phase = "teardown" -> "capture",
         worker'[w].next = 1,
         NEW any, NEW t \in Does(worker[w].item, any), Past(w, t)'
  PROVE  Past(w, t)
  <1>1. worker[w].item \in Items
    BY DEF CaptureTypes, TypeInv, Working
  <1>2. /\ t[2] \in Phases /\ t[3] \in Nat \ {0} /\ t[3] <= Len(script[worker[w].item][t[2]])
    BY <1>1, DoesFacts
  <1>3. Rank[t[2]] < Rank[worker'[w].phase]
    <2>1. ~(t[3] < worker'[w].next)
      BY <1>2
    <2> QED BY <2>1 DEF Past
  <1>4. Rank[t[2]] < Rank[worker[w].phase] \/ t[2] = worker[w].phase
    <2>1. CASE worker[w].phase = "setup"
      BY <1>2, <1>3, <2>1 DEF Rank, Places, Phases
    <2>2. CASE worker[w].phase = "call"
      BY <1>2, <1>3, <2>2 DEF Rank, Places, Phases
    <2>3. CASE worker[w].phase = "teardown"
      BY <1>2, <1>3, <2>3 DEF Rank, Places, Phases
    <2> QED BY <2>1, <2>2, <2>3 DEF Phases
  <1>5. CASE t[2] = worker[w].phase
    <2>1. Len(script[worker[w].item][worker[w].phase]) \in Nat /\ worker[w].next \in Nat
      BY <1>1, ScriptShape, CaptureAssumption DEF CaptureTypes
    <2> QED BY <1>2, <1>5, <2>1 DEF Past
  <1> QED BY <1>4, <1>5 DEF Past

LEMMA ActivateKeepsAll ==
  ASSUME CaptureTypes, TakenOnce, Patched, NothingLost, ~interrupted,
         NEW w \in Workers, NEW i \in Items, Activate(w, i)
  PROVE  NothingLost'
  <1>1. /\ \A v \in Workers : Working(v) <=> v \in DOMAIN buf
        /\ \A v \in Workers : Working(v) <=> v \in DOMAIN records
        /\ worker \in [Workers -> [item : Items \cup {None}, phase : Places,
                                   next : Nat \ {0}, initial : RootLevels \cup {None}]]
        /\ stage \in [Items -> {"queued", "taken", "put"}]
    BY DEF CaptureTypes, TypeInv
  <1>2. /\ buf'[w] = {} /\ records'[w] = {}
        /\ \A v \in DOMAIN buf : v # w => buf'[v] = buf[v]
        /\ \A v \in DOMAIN records : v # w => records'[v] = records[v]
    <2>1. buf' = Opened(buf, w) /\ records' = Opened(records, w)
      BY DEF Activate
    <2> QED BY <2>1 DEF Opened
  <1>3. /\ worker'[w].item = i /\ worker'[w].phase = "setup" /\ worker'[w].next = 1
        /\ \A v \in Workers : v # w => worker'[v] = worker[v]
        /\ stage[i] = "queued" /\ stage'[i] = "taken"
        /\ \A j \in Items : j # i => stage'[j] = stage[j]
        /\ script' = script /\ caplog' = caplog /\ real' = real
        /\ captured_output' = captured_output /\ captured_log' = captured_log
    BY <1>1 DEF Activate
  <1>4. InHand(w)'
    <2>1. caplog[i] = {}
      BY <1>3 DEF NothingLost, Stored
    <2>2. ASSUME NEW any, NEW t \in Does(i, any) PROVE ~Past(w, t)'
      BY <1>3, DoesFacts DEF Past, Rank, Places, Phases
    <2>3. Kept(i) \subseteq Does(i, "log")
      BY DEF Kept
    <2>4. /\ \A t \in Does(i, "print") : ~Past(w, t)'
          /\ \A t \in Kept(i) : ~Past(w, t)'
      BY <2>2, <2>3
    <2> QED BY <1>2, <1>3, <2>1, <2>4 DEF InHand, Does, Kept, OpAt
  <1>5. ASSUME NEW v \in Workers, v # w PROVE InHand(v)'
    BY <1>1, <1>2, <1>3, <1>5, OthersInHand DEF NothingLost
  <1>6. ASSUME NEW j \in Items PROVE Stored(j)'
    <2>1. CASE j = i
      BY <1>3, <2>1 DEF Stored
    <2>2. CASE j # i
      BY <1>3, <2>2, OthersStored DEF NothingLost
    <2> QED BY <2>1, <2>2
  <1> QED BY <1>3, <1>4, <1>5, <1>6 DEF NothingLost

LEMMA DeactivateKeepsAll ==
  ASSUME CaptureTypes, TakenOnce, NothingLost, ~interrupted,
         NEW w \in Workers, Deactivate(w)
  PROVE  NothingLost'
  <1> PICK i \in Items : i = worker[w].item
    BY DEF CaptureTypes, TypeInv, Deactivate, Working
  <1>1. /\ \A v \in Workers : Working(v) <=> v \in DOMAIN buf
        /\ \A v \in Workers : Working(v) <=> v \in DOMAIN records
        /\ worker \in [Workers -> [item : Items \cup {None}, phase : Places,
                                   next : Nat \ {0}, initial : RootLevels \cup {None}]]
        /\ stage \in [Items -> {"queued", "taken", "put"}]
        /\ captured_output \in [Items -> SUBSET Tokens]
        /\ captured_log \in [Items -> SUBSET Tokens]
    BY DEF CaptureTypes, TypeInv
  <1>2. Working(w) /\ worker[w].phase = "capture"
    BY DEF Deactivate
  <1>3. /\ \A v \in DOMAIN buf : v # w => buf'[v] = buf[v]
        /\ \A v \in DOMAIN records : v # w => records'[v] = records[v]
    <2>1. buf' = Closed(buf, w) /\ records' = Closed(records, w)
      BY DEF Deactivate
    <2> QED BY <2>1 DEF Closed, Restrict
  <1>4. /\ worker'[w].item = None
        /\ \A v \in Workers : v # w => worker'[v] = worker[v]
        /\ captured_output'[i] = buf[w] /\ captured_log'[i] = records[w]
        /\ \A j \in Items : j # i => /\ captured_output'[j] = captured_output[j]
                                     /\ captured_log'[j] = captured_log[j]
                                     /\ stage'[j] = stage[j]
        /\ stage'[i] = "put"
        /\ script' = script /\ caplog' = caplog /\ real' = real
    BY <1>1, <1>2 DEF Deactivate, Idle
  <1>5. ASSUME NEW v \in Workers PROVE InHand(v)'
    <2>1. CASE v = w
      BY <1>4, <2>1 DEF InHand, Working
    <2>2. CASE v # w
      BY <1>1, <1>3, <1>4, <2>2, OthersInHand DEF NothingLost
    <2> QED BY <2>1, <2>2
  <1>6. Stored(i)'
    <2>1. ASSUME NEW any, NEW t \in Does(i, any) PROVE Past(w, t)
      BY <1>2, DoesFacts DEF Past, Rank, Places, Phases
    <2>2. InHand(w)
      BY DEF NothingLost
    <2>3. Does(i, "print") \subseteq buf[w]
      BY <1>2, <2>1, <2>2 DEF InHand
    <2>4. Kept(i) \subseteq records[w]
      BY <1>2, <2>1, <2>2 DEF InHand, Kept
    <2>5. caplog[i] = {t \in records[w] : t[2] = "call"}
      BY <1>2, <2>2 DEF InHand
    <2>6. Does(i, "print")' = Does(i, "print") /\ Kept(i)' = Kept(i)
      BY <1>4 DEF Does, Kept, OpAt
    <2>7. /\ Does(i, "print") \subseteq captured_output'[i]
          /\ Kept(i) \subseteq captured_log'[i]
          /\ caplog'[i] = {t \in captured_log'[i] : t[2] = "call"}
      BY <1>4, <2>3, <2>4, <2>5
    <2> QED BY <1>4, <2>6, <2>7 DEF Stored
  <1>7. ASSUME NEW j \in Items, j # i PROVE Stored(j)'
    BY <1>4, <1>7, OthersStored DEF NothingLost
  <1> QED BY <1>2, <1>4, <1>5, <1>6, <1>7 DEF NothingLost

(* A worker that works: what the others have and what is stored stays, so  *)
(* there is its own item and the real stream to look at.                   *)
LEMMA WorksKeeps ==
  ASSUME CaptureTypes, TakenOnce, NothingLost, ~interrupted,
         NEW w \in Workers, Works(w), InHand(w)', real' = {}
  PROVE  NothingLost'
  <1>1. /\ \A v \in Workers : Working(v) <=> v \in DOMAIN buf
        /\ \A v \in Workers : Working(v) <=> v \in DOMAIN records
        /\ \A v \in Workers : Working(v) => worker[v].item \in Items
    BY DEF CaptureTypes, TypeInv, Working
  <1>2. ASSUME NEW v \in Workers, v # w PROVE InHand(v)'
    <2>1. Working(v) => /\ worker[v].item # worker[w].item
                        /\ caplog'[worker[v].item] = caplog[worker[v].item]
      BY <1>1, <1>2, ItemsStay, WorksCollect DEF TakenOnce
    <2>2. /\ worker'[v] = worker[v] /\ script' = script
          /\ Working(v) => buf'[v] = buf[v] /\ records'[v] = records[v]
      BY <1>1, <1>2, ItemsStay, WorksCollect
    <2> QED BY <2>1, <2>2, OthersInHand DEF NothingLost
  <1>3. ASSUME NEW i \in Items PROVE Stored(i)'
    <2>1. CASE i = worker[w].item
      <3>1. stage'[i] = "taken"
        BY <2>1, ItemsStay DEF TakenOnce
      <3> QED BY <3>1 DEF Stored
    <2>2. CASE i # worker[w].item
      BY <2>2, ItemsStay, WorksCollect, OthersStored DEF NothingLost
    <2> QED BY <2>1, <2>2
  <1> QED BY <1>2, <1>3 DEF NothingLost

(* What the worker has to have in hand after a step that keeps its item.   *)
LEMMA InHandAfter ==
  ASSUME NEW w \in Workers, NEW i, i = worker'[w].item, script' = script,
         \A t \in Does(i, "print") : Past(w, t)' => t \in buf'[w],
         \A t \in Kept(i) : Past(w, t)' => t \in records'[w],
         caplog'[i] = {t \in records'[w] : t[2] = "call"}
  PROVE  InHand(w)'
  <1>1. Does(i, "print")' = Does(i, "print") /\ Kept(i)' = Kept(i)
    BY DEF Does, Kept, OpAt
  <1> QED BY <1>1 DEF InHand

LEMMA PrintKeepsAll ==
  ASSUME CaptureTypes, TakenOnce, Patched, NothingLost, ~interrupted,
         NEW w \in Workers, PrintText(w)
  PROVE  NothingLost'
  <1> PICK i \in Items : i = worker[w].item
    BY DoingFacts DEF PrintText
  <1>1. Works(w) /\ Working(w) /\ Doing(w, "print")
    BY DEF Works, PrintText, Doing
  <1>2. /\ w \in DOMAIN buf /\ stdout = "proxy"
    BY <1>1, DoingFacts, WorksWhileRun
  <1>3. /\ buf' = [buf EXCEPT ![w] = @ \cup {Token(w)}]
        /\ real' = {} /\ records' = records /\ caplog' = caplog /\ script' = script
    BY <1>2 DEF PrintText, Write, NothingLost
  <1>4. worker'[w].item = i /\ worker'[w].phase = worker[w].phase
        /\ worker'[w].next = worker[w].next + 1
    BY DEF PrintText, CaptureTypes
  <1>5. InHand(w)
    BY DEF NothingLost
  <1>6. ASSUME NEW t \in Does(i, "print"), Past(w, t)' PROVE t \in buf'[w]
    BY <1>1, <1>2, <1>3, <1>4, <1>5, <1>6, PastGrows DEF InHand
  <1>7. ASSUME NEW t \in Kept(i), Past(w, t)' PROVE t \in records'[w]
    <2>1. ASSUME NEW any, any # "print", t \in Does(i, any) PROVE Past(w, t)
      BY <1>1, <1>4, <1>7, <2>1, PastGrows
    <2>2. t \in Does(i, "log")
      BY DEF Kept
    <2>3. Past(w, t)
      BY <2>1, <2>2
    <2> QED BY <1>1, <1>3, <1>5, <2>3 DEF InHand
  <1>8. caplog'[i] = {t \in records'[w] : t[2] = "call"}
    BY <1>1, <1>3, <1>5 DEF InHand
  <1>9. InHand(w)'
    BY <1>3, <1>4, <1>6, <1>7, <1>8, InHandAfter
  <1> QED BY <1>1, <1>3, <1>9, WorksKeeps

LEMMA SetLevelKeepsAll ==
  ASSUME CaptureTypes, TakenOnce, Patched, NothingLost, ~interrupted,
         NEW w \in Workers, SetLevel(w)
  PROVE  NothingLost'
  <1> PICK i \in Items : i = worker[w].item
    BY DoingFacts DEF SetLevel
  <1>1. Works(w) /\ Working(w) /\ Doing(w, "set")
    BY DEF Works, SetLevel, Doing
  <1>2. /\ buf' = buf /\ real' = {} /\ records' = records /\ caplog' = caplog
        /\ script' = script
    BY DEF SetLevel, NothingLost
  <1>3. worker'[w].item = i /\ worker'[w].phase = worker[w].phase
        /\ worker'[w].next = worker[w].next + 1
    <2> DEFINE l == IF worker[w].initial = None THEN root.level ELSE worker[w].initial
    <2>1. worker' = [worker EXCEPT ![w].next = @ + 1, ![w].initial = l]
      BY DEF SetLevel, CaptureTypes
    <2> HIDE DEF l
    <2> QED BY <2>1 DEF CaptureTypes
  <1>4. InHand(w)
    BY DEF NothingLost
  <1>5. ASSUME NEW any, any \in {"print", "log"}, NEW t \in Does(i, any), Past(w, t)'
        PROVE  Past(w, t)
    BY <1>1, <1>3, <1>5, PastGrows
  <1>6. /\ \A t \in Does(i, "print") : Past(w, t)' => t \in buf'[w]
        /\ \A t \in Kept(i) : Past(w, t)' => t \in records'[w]
        /\ caplog'[i] = {t \in records'[w] : t[2] = "call"}
    BY <1>1, <1>2, <1>4, <1>5 DEF InHand, Kept
  <1>7. InHand(w)'
    BY <1>2, <1>3, <1>6, InHandAfter
  <1> QED BY <1>1, <1>2, <1>7, WorksKeeps

LEMMA NextPhaseKeepsAll ==
  ASSUME CaptureTypes, TakenOnce, Patched, NothingLost, ~interrupted,
         NEW w \in Workers, NextPhase(w)
  PROVE  NothingLost'
  <1> PICK i \in Items : i = worker[w].item
    BY DEF CaptureTypes, TypeInv, NextPhase, Working
  <1> DEFINE p == CASE worker[w].phase = "setup" -> "call"
                    [] worker[w].phase = "call" -> "teardown"
                    [] worker[w].phase = "teardown" -> "capture"
  <1>1. /\ Works(w) /\ Working(w) /\ worker[w].phase \in Phases
        /\ worker[w].next > Len(script[worker[w].item][worker[w].phase])
    BY DEF Works, NextPhase
  <1>2. /\ buf' = buf /\ real' = {} /\ records' = records /\ caplog' = caplog
        /\ script' = script
    BY DEF NextPhase, NothingLost
  <1>3. worker'[w].item = i /\ worker'[w].phase = p /\ worker'[w].next = 1
    <2>1. worker' = [worker EXCEPT ![w].next = 1, ![w].phase = p]
      BY DEF NextPhase
    <2> HIDE DEF p
    <2> QED BY <2>1 DEF CaptureTypes
  <1>4. InHand(w)
    BY DEF NothingLost
  <1>5. ASSUME NEW any, NEW t \in Does(i, any), Past(w, t)' PROVE Past(w, t)
    BY <1>1, <1>3, <1>5, PastOfPhase
  <1>6. /\ \A t \in Does(i, "print") : Past(w, t)' => t \in buf'[w]
        /\ \A t \in Kept(i) : Past(w, t)' => t \in records'[w]
        /\ caplog'[i] = {t \in records'[w] : t[2] = "call"}
    BY <1>1, <1>2, <1>4, <1>5 DEF InHand, Kept
  <1>7. InHand(w)'
    BY <1>2, <1>3, <1>6, InHandAfter
  <1> QED BY <1>1, <1>2, <1>7, WorksKeeps

(* What a child logs at the handler's level or above is enabled, because   *)
(* the child reads the level of the patched root logger, NOTSET.           *)
LEMMA LogRecordKeepsAll ==
  ASSUME CaptureTypes, TakenOnce, Patched, NothingLost, ~interrupted,
         NEW w \in Workers, LogRecord(w)
  PROVE  NothingLost'
  <1> DEFINE g == Current(w).logger
             l == Current(w).level
             on == Enabled(w, g, l)
             kept == on /\ root.handler /\ l >= handler_level /\ w \in DOMAIN records
  <1> PICK i \in Items : i = worker[w].item
    BY DoingFacts DEF LogRecord
  <1>1. /\ Works(w) /\ Working(w) /\ Doing(w, "log")
        /\ g \in Loggers /\ l \in Levels
    BY DoingFacts, OpFields DEF Works, LogRecord, Doing
  <1>2. /\ w \in DOMAIN buf /\ w \in DOMAIN records /\ stream = "proxy"
        /\ root.patched /\ root.handler
    BY <1>1, DoingFacts, WorksWhileRun DEF Patched
  <1>3. /\ buf' = buf \/ buf' = [buf EXCEPT ![w] = @ \cup {Token(w)}]
        /\ real' = {} /\ script' = script
    BY <1>2 DEF LogRecord, Write, NothingLost
  <1>4. /\ kept => records' = [records EXCEPT ![w] = @ \cup {Token(w)}]
        /\ ~kept => records' = records
        /\ kept /\ worker[w].phase = "call" =>
             caplog' = [caplog EXCEPT ![i] = @ \cup {Token(w)}]
        /\ ~(kept /\ worker[w].phase = "call") => caplog' = caplog
    BY DEF LogRecord
  <1>5. /\ worker'[w].item = i /\ worker'[w].phase = worker[w].phase
        /\ worker'[w].next = worker[w].next + 1
    BY DEF LogRecord, CaptureTypes
  <1>6. InHand(w)
    BY DEF NothingLost
  <1>7. g = "child" /\ l >= handler_level => kept
    <2>1. /\ root.level = NOTSET
          /\ \A k \in Levels : cache["child"][k] \in {None, TRUE}
      BY <1>2 DEF Patched
    <2>2. \A k \in Levels : k \in Nat
      BY CaptureAssumption
    <2>3. \A k \in Nat : k >= NOTSET
      BY DEF NOTSET
    <2>4. ASSUME g = "child" PROVE Enabled(w, g, l) = TRUE
      BY <1>1, <2>1, <2>2, <2>3, <2>4 DEF Enabled, EffectiveLevel
    <2> QED BY <1>2, <2>4
  <1> HIDE DEF kept, on
  <1>8. ASSUME NEW t \in Does(i, "print"), Past(w, t)' PROVE t \in buf'[w]
    <2>1. ASSUME NEW any, any # "log", t \in Does(i, any) PROVE Past(w, t)
      BY <1>1, <1>5, <1>8, <2>1, PastGrows
    <2>2. t \in buf[w]
      BY <1>1, <1>6, <2>1 DEF InHand
    <2> QED BY <1>2, <1>3, <2>2
  <1>9. ASSUME NEW t \in Kept(i), Past(w, t)' PROVE t \in records'[w]
    <2>1. t \in Does(i, "log") /\ OpAt(t).logger = "child" /\ OpAt(t).level >= handler_level
      BY DEF Kept
    <2>2. CASE Past(w, t)
      <3>1. t \in records[w]
        BY <1>1, <1>6, <2>2 DEF InHand
      <3> QED BY <1>2, <1>4, <3>1
    <2>3. CASE t = Token(w) /\ OpAt(t) = Current(w)
      <3>1. kept
        BY <1>7, <2>1, <2>3
      <3> QED BY <1>2, <1>4, <2>3, <3>1
    <2> QED BY <1>1, <1>5, <1>9, <2>1, <2>2, <2>3, PastGrows
  <1>10. caplog'[i] = {t \in records'[w] : t[2] = "call"}
    <2>1. caplog[i] = {t \in records[w] : t[2] = "call"}
      BY <1>1, <1>6 DEF InHand
    <2>2. Token(w)[2] = worker[w].phase
      BY DEF Token
    <2>3. CASE kept
      <3>1. records'[w] = records[w] \cup {Token(w)}
        BY <1>2, <1>4, <2>3
      <3>2. caplog'[i] = IF worker[w].phase = "call" THEN caplog[i] \cup {Token(w)}
                                                     ELSE caplog[i]
        BY <1>4, <2>3 DEF CaptureTypes
      <3> QED BY <2>1, <2>2, <3>1, <3>2
    <2>4. CASE ~kept
      BY <1>4, <2>1, <2>4
    <2> QED BY <2>3, <2>4
  <1>11. InHand(w)'
    BY <1>3, <1>5, <1>8, <1>9, <1>10, InHandAfter
  <1> QED BY <1>1, <1>3, <1>11, WorksKeeps

LEMMA NothingLostKept ==
  CaptureTypes /\ TakenOnce /\ Patched /\ NothingLost /\ [Next]_vars => NothingLost'
  <1> SUFFICES ASSUME CaptureTypes, TakenOnce, Patched, NothingLost, [Next]_vars,
                      ~interrupted'
               PROVE  NothingLost'
    BY DEF NothingLost
  <1>1. CASE Main
    <2>1. /\ script' = script /\ stage' = stage /\ worker' = worker /\ buf' = buf
          /\ records' = records /\ caplog' = caplog /\ real' = real
          /\ captured_output' = captured_output /\ captured_log' = captured_log
          /\ ~interrupted
      BY <1>1, MainFrame DEF workersOnly, Main, PatchStreams, AddHandler, PatchMethods, Join,
         Interrupt, InterruptEscapes, ReportEscapes, RestoreStreams, RestoreMethods,
         RestoreLevel
    <2>2. \A w \in Workers : InHand(w)'
      BY <2>1, OthersInHand DEF NothingLost
    <2>3. \A i \in Items : Stored(i)'
      BY <2>1, OthersStored DEF NothingLost
    <2> QED BY <2>1, <2>2, <2>3 DEF NothingLost
  <1>2. ASSUME NEW w \in Workers, NEW i \in Items, Activate(w, i) PROVE NothingLost'
    BY <1>2, ActivateKeepsAll DEF Activate
  <1>3. ASSUME NEW w \in Workers, Works(w) PROVE NothingLost'
    <2>1. ~interrupted
      BY <1>3, ItemsStay
    <2> QED BY <1>3, <2>1, PrintKeepsAll, SetLevelKeepsAll, LogRecordKeepsAll,
               NextPhaseKeepsAll DEF Works
  <1>4. ASSUME NEW w \in Workers, Deactivate(w) PROVE NothingLost'
    BY <1>4, DeactivateKeepsAll DEF Deactivate
  <1>5. CASE UNCHANGED vars
    <2>1. /\ script' = script /\ stage' = stage /\ worker' = worker /\ buf' = buf
          /\ records' = records /\ caplog' = caplog /\ real' = real
          /\ captured_output' = captured_output /\ captured_log' = captured_log
          /\ ~interrupted
      BY <1>5 DEF vars
    <2>2. \A w \in Workers : InHand(w)'
      BY <2>1, OthersInHand DEF NothingLost
    <2>3. \A i \in Items : Stored(i)'
      BY <2>1, OthersStored DEF NothingLost
    <2> QED BY <2>1, <2>2, <2>3 DEF NothingLost
  <1> QED BY <1>1, <1>2, <1>3, <1>4, <1>5 DEF Next, Worker, Works

LEMMA CaptureInvariant == Spec => []CaptureInv
  <1>1. Init => CaptureInv
    BY TypesAtStart, TakenOnceAtStart, PatchedAtStart, OwnTokensAtStart, NothingLostAtStart
       DEF CaptureInv
  <1>2. CaptureInv /\ [Next]_vars => CaptureInv'
    BY TypesKept, TakenOnceKept, PatchedKept, OwnTokensKept, NothingLostKept DEF CaptureInv
  <1> QED BY <1>1, <1>2, PTL DEF Spec

(* What a test prints, in its setup, call or teardown, is captured as its  *)
(* own and as nobody else's, and unless the run is interrupted nothing of  *)
(* it reaches the real stream: the proxies have a buffer per thread, and a *)
(* thread has one item between activate and deactivate.                    *)
THEOREM EachTestGetsItsOwnOutput == Spec => []OutputIsOwn
  <1>1. CaptureInv => OutputIsOwn
    BY DEF CaptureInv, OwnTokens, NothingLost, Stored, OutputIsOwn, Finished
  <1> QED BY <1>1, CaptureInvariant, PTL

(* A record is kept for the test that logged it and for no other, and no   *)
(* level that another test sets hides what a child logger logs at the      *)
(* handler's level or above: the level of the patched root logger stays    *)
(* NOTSET (Patched), and child loggers read that one.                      *)
THEOREM EachTestGetsItsOwnRecords == Spec => []RecordsAreOwn
  <1>1. \A i \in Items : Unhidden(i) \subseteq Kept(i)
    BY DEF Unhidden, Kept
  <1>2. CaptureInv => RecordsAreOwn
    BY <1>1 DEF CaptureInv, OwnTokens, NothingLost, Stored, RecordsAreOwn, Finished
  <1> QED BY <1>2, CaptureInvariant, PTL
=============================================================================

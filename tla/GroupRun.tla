------------------------------ MODULE GroupRun ------------------------------
(***************************************************************************)
(* What the execution of one parallel group promises to pytest, without    *)
(* threads or queues: every test of the group is executed at most once,    *)
(* its result is reported once and only after its execution is over, and   *)
(* its teardown is reported only when the result of every test of the      *)
(* group is out.  A keyboard interrupt, or an exception of the hooks that  *)
(* take the reports, suspends the last promise: teardown reports are then  *)
(* emitted from wherever the tests are, or not at all.                     *)
(***************************************************************************)
EXTENDS FiniteSets

CONSTANTS Tests,     \* the tests of the group
          Settled    \* those that phase 1 skipped: nothing left to execute

VARIABLES phase,     \* [Tests -> Phases]
          aborted    \* interrupted, or given up by an exception

groupVars == <<phase, aborted>>

Phases == {"waiting", "executing", "finished", "reported", "closed"}

PhaseOK == /\ phase \in [Tests -> Phases]
           /\ aborted \in BOOLEAN

GroupInit == /\ phase = [t \in Tests |->
                            IF t \in Settled THEN "finished" ELSE "waiting"]
             /\ aborted = FALSE

Advance(t, from, to) == /\ phase[t] = from
                        /\ phase' = [phase EXCEPT ![t] = to]
                        /\ UNCHANGED aborted

Begin(t) == Advance(t, "waiting", "executing")

Complete(t) == Advance(t, "executing", "finished")

Report(t) == Advance(t, "finished", "reported")

Close(t) == /\ phase[t] = "reported"
            /\ \A u \in Tests : phase[u] \in {"reported", "closed"}
            /\ phase' = [phase EXCEPT ![t] = "closed"]
            /\ UNCHANGED aborted

Abort == /\ ~aborted
         /\ aborted' = TRUE
         /\ UNCHANGED phase

CloseAborted(t) == /\ aborted
                   /\ phase[t] # "closed"
                   /\ phase' = [phase EXCEPT ![t] = "closed"]
                   /\ UNCHANGED aborted

GroupNext == \/ Abort
             \/ \E t \in Tests : \/ Begin(t) \/ Complete(t) \/ Report(t)
                                 \/ Close(t) \/ CloseAborted(t)

GroupSafety == GroupInit /\ [][GroupNext]_groupVars

(* Unless the group is aborted, the tests are run to the end and closed.   *)
GroupProgress == <>(aborted \/ \A t \in Tests : phase[t] = "closed")

GroupSpec == GroupSafety /\ GroupProgress
=============================================================================

---------------------------- MODULE MCWorkerPool ----------------------------
(***************************************************************************)
(* Instances of WorkerPool for TLC: groups of four and of three items of   *)
(* which phase 1 skipped one, and a pool of two threads.                   *)
(***************************************************************************)
EXTENDS WorkerPool

CONSTANTS i1, i2, i3, i4

Items4 == <<i1, i2, i3, i4>>

Parallel3 == <<i1, i3, i4>>

Items3 == <<i1, i2, i3>>

Parallel2 == <<i1, i3>>
=============================================================================

---------------------------- MODULE MCWorkerPool ----------------------------
(* WorkerPool with lists longer than the channel's capacity.               *)
EXTENDS WorkerPool

CONSTANTS eTimeout, eConflict

MCErrors == {eTimeout, eConflict}

=============================================================================

---------------------------- MODULE MCParallelIo ----------------------------
(* Model checking of the read-ahead: which worker threads exist. *)
EXTENDS ParallelIo

\* Any of them, or none, could be created.
AnyWorkers == SUBSET (1 .. NWorkers)

\* A read returns by itself only if somebody reads ahead.
SomeWorkers == AnyWorkers \ {{}}
=============================================================================

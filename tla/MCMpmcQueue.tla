---------------------------- MODULE MCMpmcQueue ------------------------------
(* Instances of MpmcQueue for TLC.                                         *)
EXTENDS MpmcQueue

\* async_queue_size: no slots at all, none to use, and the first useful ones.
MCSizes == -1..3
=============================================================================

-------------------------------- MODULE MCOS --------------------------------
(* The kernel on a small instance: three threads and two semaphores, one of *)
(* them created with a count.                                               *)
EXTENDS OS

MCThread == 1 .. 3
MCSemaphore == {"empty", "full"}
MCInitialCount == [s \in MCSemaphore |-> IF s = "full" THEN MaxCount ELSE 0]
=============================================================================

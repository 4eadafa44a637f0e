------------------------------- MODULE MCMutex -------------------------------
(* Instance of Mutex for TLC: three threads, so that two can wait while one *)
(* holds the mutex or gives it back.                                        *)
EXTENDS Mutex
=============================================================================

------------------------ MODULE LoadStoreRefinement ------------------------
(***************************************************************************)
(* The lane as an implementation of SequentialMemory: an access enters     *)
(* with the latch and is performed when the memory subsystem starts it.    *)
(***************************************************************************)
EXTENDS LoadStore

Abstract == INSTANCE SequentialMemory

\* Queues of reads and of writes that are stepped side by side, and found by
\* address, still perform the accesses one by one in the order they came in,
\* a load reads the last store before it, and none waits for ever.
ImplementsSequentialMemory == Abstract!Spec
=============================================================================

------------------------- MODULE PipelineRefinement -------------------------
(***************************************************************************)
(* The pipeline as an implementation of InOrderIssue: an operation starts  *)
(* when DECODE issues it and has finished when it is retired.  The claim   *)
(* is for programs whose branches are predicted right: Recover throws      *)
(* operations away, which the abstract machine never does.                 *)
(***************************************************************************)
EXTENDS Pipeline

Program == [i \in OpId |-> [dest |-> Dest(i), srcs |-> Srcs(i)]]

Abstract == INSTANCE InOrderIssue WITH
    program  <- Program,
    started  <- Cardinality(Issued \cup retired),
    finished <- retired

\* DECODE, the destination tables and the lanes together implement in-order
\* issue with out-of-order completion.
ImplementsInOrderIssue == Abstract!Spec
=============================================================================

---------------------------- MODULE MCPathSetup ----------------------------
(***************************************************************************)
(* Small instances of PathSetup.                                           *)
(***************************************************************************)
EXTENDS PathSetup

\* Any one command by hand next to the orchestrator, or repeated faults.
SmallBudgets ==
    {[hand |-> 1, faults |-> 0, busy |-> 1], [hand |-> 0, faults |-> 2, busy |-> 0]}

=============================================================================

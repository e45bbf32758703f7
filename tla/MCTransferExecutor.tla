-------------------------- MODULE MCTransferExecutor --------------------------
(* Model checking of the Agents against the scheduler. *)
EXTENDS TransferExecutor

\* Large enough that no request is refused for the bound's sake.
VersionBound == [t \in Task |-> 30]
=============================================================================

-------------------------- MODULE MCTransferService --------------------------
(* Model checking of the scheduler under arbitrary requests. *)
EXTENDS TransferService, TLC

\* Devices are interchangeable: nothing names one.
Symmetry == Permutations(Device)

\* One task may live through a whole attempt and its aftermath, the other
\* only compete with it.
VersionBound == <<7, 3>>
=============================================================================

----------------------------- MODULE MCCatalog -----------------------------
(***************************************************************************)
(* Catalog on small instances for TLC.                                      *)
(***************************************************************************)
EXTENDS Catalog, TLC

CONSTANTS d1, d2, f1, f2, n1, n2

\* One file per Agent.
EachItsOwn == f1 :> d1 @@ f2 :> d2

\* One file, whose copy another Agent may hold.
OneFile == f1 :> d1

\* The names are alike.
Symmetry == Permutations(Name)
============================================================================

----------------------------- MODULE MCLibrary -----------------------------
(***************************************************************************)
(* Library on a small instance for TLC.                                     *)
(***************************************************************************)
EXTENDS Library, TLC

\* Calls, files and names are interchangeable.
Symmetry == Permutations(Call) \cup Permutations(File) \cup Permutations(Name) \cup Permutations(FolderName)
============================================================================

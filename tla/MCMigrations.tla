----------------------------- MODULE MCMigrations ------------------------------
(***************************************************************************)
(* Instance of Migrations: the first process is of an older release than the *)
(* others, and the servers are one of each.                                 *)
(***************************************************************************)
EXTENDS Migrations

CONSTANTS p1, s1

ShipsOf == [p \in Process |-> IF p = p1 THEN 2 ELSE 3]
ExpectedBy == [s \in Server |-> IF s = s1 THEN 2 ELSE 3]
================================================================================

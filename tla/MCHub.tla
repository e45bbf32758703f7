--------------------------------- MODULE MCHub ---------------------------------
(***************************************************************************)
(* Instance of Hub: the first connection is of one account, the others of    *)
(* another.                                                                 *)
(***************************************************************************)
EXTENDS Hub

CONSTANTS a1, a2, c1

Accounts == {a1, a2}
Owner == [c \in Conn |-> IF c = c1 THEN a1 ELSE a2]
================================================================================

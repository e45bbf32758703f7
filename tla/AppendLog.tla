------------------------------- MODULE AppendLog -------------------------------
(***************************************************************************)
(* What the account's events promise: a log that only grows at its end, and  *)
(* readers each of whom has seen a prefix of it.                            *)
(***************************************************************************)
EXTENDS Integers

CONSTANTS Event, Reader

VARIABLES
    log,    \* the events, a function on 1 .. n
    seen    \* what each reader has seen

vars == <<log, seen>>

Prefix(n) == [i \in 1 .. n |-> log[i]]

Init ==
    /\ log = [i \in 1 .. 0 |-> 0]
    /\ seen = [r \in Reader |-> [i \in 1 .. 0 |-> 0]]

\* The log has n events; e becomes the next one.
Publish(n, e) ==
    /\ DOMAIN log = 1 .. n
    /\ log' = [i \in 1 .. n + 1 |-> IF i = n + 1 THEN e ELSE log[i]]
    /\ UNCHANGED seen

\* A reader has now seen the first n events, no fewer than before.
Catch(r, n) ==
    /\ 1 .. n \subseteq DOMAIN log
    /\ DOMAIN seen[r] \subseteq 1 .. n
    /\ seen' = [seen EXCEPT ![r] = Prefix(n)]
    /\ UNCHANGED log

Next ==
    \E n \in {0} \cup DOMAIN log : \/ \E e \in Event : Publish(n, e)
                                  \/ \E r \in Reader : Catch(r, n)

Spec == Init /\ [][Next]_vars
================================================================================

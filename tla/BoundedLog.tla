----------------------------- MODULE BoundedLog -----------------------------
(***************************************************************************)
(* What the notification hubs of a cluster promise of their histories: one *)
(* log of distinct notifications per node, the newest last, that forgets   *)
(* its oldest entry when it is full, and all of them when the process of   *)
(* the node restarts.                                                      *)
(***************************************************************************)
EXTENDS Integers, Sequences

CONSTANTS
    Nodes,     \* one log for each
    Entries,   \* what a log may hold
    Capacity   \* how many entries it holds at most, a positive number

VARIABLE log

Holds(n, e) == \E k \in DOMAIN log[n] : log[n][k] = e

Init == log = [n \in Nodes |-> <<>>]

Add(n, e) ==
    /\ ~Holds(n, e)
    /\ log' = [log EXCEPT ![n] = Append(IF Len(@) = Capacity THEN Tail(@) ELSE @, e)]

Forget(n) == log' = [log EXCEPT ![n] = <<>>]

Next == \E n \in Nodes : Forget(n) \/ \E e \in Entries : Add(n, e)

Spec == Init /\ [][Next]_log

=============================================================================

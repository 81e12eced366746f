----------------------------- MODULE MCHotReload -----------------------------
(***************************************************************************)
(* Instances of HotReload: one that starts with an empty datastore or one  *)
(* definition and two clients that add, spoil, rename and delete it; one   *)
(* that starts with two definitions and a client that changes or deletes   *)
(* them; and one that starts with none and a client that adds both.        *)
(***************************************************************************)
EXTENDS HotReload

MCEmpty == {[n \in Names |-> NoPath]}

MCBodies == {[name |-> 1, path |-> "p"], [name |-> 2, path |-> "q"]}

MCBoth == {[n \in Names |-> IF n = 1 THEN "p" ELSE "q"]}

\* The datastore is empty, or holds the first definition.
MCEither == MCEmpty \union {[n \in Names |-> IF n = 1 THEN "p" ELSE NoPath]}

MCFirst == {[name |-> 1, path |-> "p"]}

\* The first definition takes the path of the second, or a path that is not valid; or it
\* takes the name of the second.
MCUpdates == {[name |-> 1, path |-> "q"], [name |-> 1, path |-> "bad"],
              [name |-> 2, path |-> "p"]}

\* A body that is refused, and one that renames the definition.
MCSpoils == {[name |-> 1, path |-> "bad"], [name |-> 2, path |-> "p"]}

=============================================================================

-------------------------------- MODULE Rows --------------------------------
(***************************************************************************)
(* Rows of a table as functions from keys to values: what a transaction    *)
(* has written, seen over what is committed.                               *)
(***************************************************************************)

Nothing == [x \in {} |-> x]

\* The rows of new, and those of old that new has not.
Over(new, old) ==
    [x \in DOMAIN new \cup DOMAIN old |-> IF x \in DOMAIN new THEN new[x] ELSE old[x]]

=============================================================================

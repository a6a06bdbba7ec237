------------------------------ MODULE MCAdminStore ------------------------------
(* Small instances of AdminStore for TLC. *)
EXTENDS AdminStore, TLC

Creates ==
    {[name |-> "orders", upstream |-> "stable"],
     [name |-> "users", upstream |-> "stable", retries |-> 2],
     [name |-> "orders", upstream |-> "stable", retries |-> 2, canary |-> "canary"]}

Updates ==
    {[upstream |-> "moved"],
     [enabled |-> FALSE, retries |-> 2],
     [name |-> "users", retries |-> 2]}

Policies == {[route |-> "orders", auth |-> TRUE], [route |-> "users", auth |-> FALSE]}

Symmetry == Permutations(Admins)
=============================================================================

----------------------------- MODULE MCQueryLog -----------------------------
(* The query log on small instances: its entries are interchangeable. *)
EXTENDS QueryLog, TLC

Symmetry == Permutations(Entries)
=============================================================================

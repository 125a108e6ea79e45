------------------------------ MODULE MCStores ------------------------------
(***************************************************************************)
(* Stores for TLC: clients, keys and values are interchangeable.           *)
(***************************************************************************)
EXTENDS Stores, TLC

Symmetry == Permutations(Clients) \cup Permutations(Keys) \cup Permutations(Values)
=============================================================================

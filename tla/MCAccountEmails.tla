--------------------------- MODULE MCAccountEmails ---------------------------
(* Instances of AccountEmails.  Addresses and accounts are interchangeable  *)
(* and no property is about fairness, so symmetry is sound.                 *)
EXTENDS AccountEmails, TLC

Interchangeable == Permutations(Accounts) \union Permutations(Addresses)
=============================================================================

------------------------------ MODULE MCPoints ------------------------------
(* Instances of Points.  Users and sessions are interchangeable, and no     *)
(* property is about fairness.                                              *)
EXTENDS Points, TLC

Interchangeable == Permutations(Users) \union Permutations(Sessions)
=============================================================================

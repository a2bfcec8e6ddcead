-------------------------- MODULE MCOneTimeSecrets --------------------------
(* Instances of OneTimeSecrets: small limits, so that each of them is met.  *)
EXTENDS OneTimeSecrets, TLC

Interchangeable == Permutations(Numbers) \union Permutations(Sessions)
=============================================================================

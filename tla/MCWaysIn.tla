------------------------------ MODULE MCWaysIn ------------------------------
(* An instance of WaysIn: two callers, two providers, one passkey, and two   *)
(* sessions; the password may be there from the start and is set once more.  *)
(* The requests are about the providers and the password, about the passkeys *)
(* and what was set up, or about the second factors and the address they are *)
(* written with.                                                             *)
EXTENDS WaysIn, TLC

AtTheDesks == {{"methods", "disconnect", "connected", "password"},
               {"passkeys", "added", "remove", "factors", "enabled"},
               {"disable", "enroll", "recover", "email"}}

Interchangeable ==
    Permutations(Callers) \union Permutations(Aliases) \union Permutations(Devices)
=============================================================================

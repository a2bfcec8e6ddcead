-------------------------- MODULE MCOrganizations --------------------------
(***************************************************************************)
(* Instances of Organizations for TLC.  The first user reads mail at two   *)
(* addresses, the one on the token and a verified one; the last user has   *)
(* never had an address.                                                   *)
(***************************************************************************)
EXTENDS Organizations, TLC

CONSTANTS u1, u2, u3, home, work, other

TwoUsersSignIn == (u1 :> home) @@ (u2 :> other)
TwoUsersVerified == (u1 :> {home, work}) @@ (u2 :> {other})
ThreeUsersSignIn == (u1 :> home) @@ (u2 :> work) @@ (u3 :> NoOne)
ThreeUsersVerified == (u1 :> {home}) @@ (u2 :> {work}) @@ (u3 :> {})
=============================================================================

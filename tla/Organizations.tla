--------------------------- MODULE Organizations ---------------------------
(***************************************************************************)
(* Organizations, memberships and invitations: the dbo functions that      *)
(* write "Organizations", "UserOrganizations" and "OrganizationInvitations"*)
(* as the API calls them.                                                  *)
(*                                                                         *)
(* Every call is one pool.query of one function, so one READ COMMITTED     *)
(* transaction of its own: each statement reads what is committed when it  *)
(* starts, nothing it writes is seen before the commit, and no function    *)
(* takes a lock before its first write.  A call is therefore a few steps   *)
(* of one database session: a step per read that another transaction can   *)
(* come between, then one step for the writes and the commit.  A refusal   *)
(* (RAISE EXCEPTION) writes nothing and frees the session.                 *)
(***************************************************************************)
EXTENDS FiniteSets, Naturals

CONSTANTS
    Users,              \* dbo."Users" rows
    Orgs,               \* organizations that exist or may be added
    Addresses,          \* email addresses, folded to lower case
    Sessions,           \* connections of the pool, one call at a time each
    SignInAddress,      \* Users."Email": a user's address, or NoOne for ''
    VerifiedAddresses,  \* the verified rows of dbo."UserEmails", per user
    NoOne               \* SQL NULL

ASSUME ConstantsAssumption ==
    /\ NoOne \notin Users \union Addresses
    /\ SignInAddress \in [Users -> Addresses \union {NoOne}]
    /\ VerifiedAddresses \in [Users -> SUBSET Addresses]

VARIABLES
    enabled,    \* Users."IsEnabled"
    org,        \* Organizations."IsEnabled", or "absent" before the insert
    role,       \* UserOrganizations: "none" is no row, else "IsOwner"
    inv,        \* OrganizationInvitations, one row per (org, address)
    call        \* what each session is in the middle of

vars == <<enabled, org, role, inv, call>>

-----------------------------------------------------------------------------
Statuses == {"Pending", "Accepted", "Declined", "Revoked"}

\* Rows that no statement has inserted yet have status "none".
Invitation == [status : Statuses \union {"none"}, asOwner : BOOLEAN,
               expired : BOOLEAN, acceptedBy : Users \union {NoOne}]

NoInvitation ==
    [status |-> "none", asOwner |-> FALSE, expired |-> FALSE, acceptedBy |-> NoOne]

\* What a session remembers between two statements of a call: the arguments
\* it still needs and, for an acceptance, the offered role it read.
Idle == [op |-> "idle"]
InviteCall  == [op : {"invite"}, at : {"authorised", "guarded"},
                org : Orgs, addr : Addresses, asOwner : BOOLEAN]
AcceptCall  == [op : {"accept"}, at : {"read", "guarded"},
                user : Users, org : Orgs, addr : Addresses, asOwner : BOOLEAN]
DeclineCall == [op : {"decline"}, org : Orgs, addr : Addresses]
RevokeCall  == [op : {"revoke"}, at : {"read", "guarded"},
                user : Users, org : Orgs, addr : Addresses]
RoleCall    == [op : {"role"}, at : {"authorised", "guarded"},
                org : Orgs, user : Users, asOwner : BOOLEAN]
LeaveCall   == [op : {"leave"}, at : {"authorised", "guarded"},
                org : Orgs, user : Users]
EnableCall  == [op : {"enable"}, org : Orgs, to : {"enabled", "archived"}]

Calls == {Idle} \union InviteCall \union AcceptCall \union DeclineCall
           \union RevokeCall \union RoleCall \union LeaveCall \union EnableCall

TypeOK ==
    /\ enabled \in [Users -> BOOLEAN]
    /\ org \in [Orgs -> {"absent", "enabled", "archived"}]
    /\ role \in [Orgs -> [Users -> {"none", "member", "owner"}]]
    /\ inv \in [Orgs -> [Addresses -> Invitation]]
    /\ call \in [Sessions -> Calls]

Init ==
    /\ enabled = [u \in Users |-> TRUE]
    /\ org = [o \in Orgs |-> "absent"]
    /\ role = [o \in Orgs |-> [u \in Users |-> "none"]]
    /\ inv = [o \in Orgs |-> [a \in Addresses |-> NoInvitation]]
    /\ call = [s \in Sessions |-> Idle]

-----------------------------------------------------------------------------
(* The predicates the functions share.  Each is one SELECT, one snapshot.  *)

IsOwnerOfOrganization(u, o) ==
    enabled[u] /\ org[o] = "enabled" /\ role[o][u] = "owner"

OwnsEvenArchived(u, o) == enabled[u] /\ role[o][u] = "owner"

\* Mutant: a disabled owner counts as a successor.
IsLastOwnerCountingDisabled(o, u) ==
    role[o][u] = "owner" /\ \A v \in Users \ {u} : role[o][v] # "owner"

IsLastOwnerOfOrganization(o, u) ==
    /\ role[o][u] = "owner"
    /\ \A v \in Users \ {u} : ~(enabled[v] /\ role[o][v] = "owner")

AddressesOf(u) == {SignInAddress[u]} \union VerifiedAddresses[u]

IsMemberAddress(o, a) ==
    \E u \in Users : enabled[u] /\ role[o][u] # "none" /\ a \in AddressesOf(u)

\* Mutant: an offer is anybody's to take up.
MayAcceptAny(u, a) == TRUE

MayAccept(u, a) == SignInAddress[u] # NoOne /\ a \in AddressesOf(u)

MayDecline(u, a) == SignInAddress[u] # NoOne /\ a = SignInAddress[u]

-----------------------------------------------------------------------------
(* The life of a call in a session.                                        *)

\* The guard of the API lets in enabled accounts only; an organization the
\* caller can name has been inserted.
Begins(s, u, o, c) ==
    /\ call[s] = Idle
    /\ enabled[u]
    /\ org[o] # "absent"
    /\ call' = [call EXCEPT ![s] = c]
    /\ UNCHANGED <<enabled, org, role, inv>>

\* The second read of a call either lets it go on to its writes or refuses.
Guards(s, passes) ==
    /\ call' = [call EXCEPT ![s] = IF passes THEN [@ EXCEPT !.at = "guarded"] ELSE Idle]
    /\ UNCHANGED <<enabled, org, role, inv>>

Commits(s) == call' = [call EXCEPT ![s] = Idle]

AddOrganization(s, u, o) ==
    /\ call[s] = Idle
    /\ enabled[u]
    /\ org[o] = "absent"
    /\ org' = [org EXCEPT ![o] = "enabled"]
    /\ role' = [role EXCEPT ![o][u] = "owner"]
    /\ UNCHANGED <<enabled, inv, call>>

-----------------------------------------------------------------------------
(* Invitations.                                                            *)

InviteAuthorise(s, u, o, a, asOwner) ==
    /\ IsOwnerOfOrganization(u, o)
    /\ Begins(s, u, o, [op |-> "invite", at |-> "authorised",
                        org |-> o, addr |-> a, asOwner |-> asOwner])

InviteGuard(s) ==
    /\ call[s].op = "invite" /\ call[s].at = "authorised"
    /\ Guards(s, ~IsMemberAddress(call[s].org, call[s].addr))

\* Mutants: the conflict branch forgets a column; a status the table refuses.
InviteCommitKeepingAnswer(s) ==
    /\ call[s].op = "invite" /\ call[s].at = "guarded"
    /\ inv' = [inv EXCEPT ![call[s].org][call[s].addr] =
                 [@ EXCEPT !.status = "Pending", !.asOwner = call[s].asOwner,
                           !.expired = FALSE]]
    /\ Commits(s)
    /\ UNCHANGED <<enabled, org, role>>

\* INSERT ... ON CONFLICT DO UPDATE: a row in any status becomes a fresh offer.
InviteCommit(s) ==
    /\ call[s].op = "invite" /\ call[s].at = "guarded"
    /\ inv' = [inv EXCEPT ![call[s].org][call[s].addr] =
                 [status |-> "Pending", asOwner |-> call[s].asOwner,
                  expired |-> FALSE, acceptedBy |-> NoOne]]
    /\ Commits(s)
    /\ UNCHANGED <<enabled, org, role>>

AcceptRead(s, u, o, a) ==
    /\ MayAccept(u, a)
    /\ inv[o][a].status = "Pending" /\ ~inv[o][a].expired
    /\ Begins(s, u, o, [op |-> "accept", at |-> "read", user |-> u,
                        org |-> o, addr |-> a, asOwner |-> inv[o][a].asOwner])

\* Mutant: an archived organization's offers can still be taken up.
AcceptGuardArchived(s) ==
    /\ call[s].op = "accept" /\ call[s].at = "read"
    /\ Guards(s, org[call[s].org] # "absent")

AcceptGuard(s) ==
    /\ call[s].op = "accept" /\ call[s].at = "read"
    /\ Guards(s, org[call[s].org] = "enabled")

\* The insert does nothing for somebody already in; the update is by key and
\* asks nothing of the row it finds.
AcceptCommit(s) ==
    /\ call[s].op = "accept" /\ call[s].at = "guarded"
    /\ role' = [role EXCEPT ![call[s].org][call[s].user] =
                  IF @ # "none" THEN @
                  ELSE IF call[s].asOwner THEN "owner" ELSE "member"]
    /\ inv' = [inv EXCEPT ![call[s].org][call[s].addr] =
                 [@ EXCEPT !.status = "Accepted", !.acceptedBy = call[s].user]]
    /\ Commits(s)
    /\ UNCHANGED <<enabled, org>>

DeclineRead(s, u, o, a) ==
    /\ MayDecline(u, a)
    /\ inv[o][a].status = "Pending"
    /\ Begins(s, u, o, [op |-> "decline", org |-> o, addr |-> a])

DeclineCommit(s) ==
    /\ call[s].op = "decline"
    /\ inv' = [inv EXCEPT ![call[s].org][call[s].addr].status = "Declined"]
    /\ Commits(s)
    /\ UNCHANGED <<enabled, org, role>>

RevokeRead(s, u, o, a) ==
    /\ inv[o][a].status = "Pending"
    /\ Begins(s, u, o, [op |-> "revoke", at |-> "read", user |-> u,
                        org |-> o, addr |-> a])

RevokeGuard(s) ==
    /\ call[s].op = "revoke" /\ call[s].at = "read"
    /\ Guards(s, IsOwnerOfOrganization(call[s].user, call[s].org))

RevokeCommit(s) ==
    /\ call[s].op = "revoke" /\ call[s].at = "guarded"
    /\ inv' = [inv EXCEPT ![call[s].org][call[s].addr].status = "Revoked"]
    /\ Commits(s)
    /\ UNCHANGED <<enabled, org, role>>

\* Fourteen days pass over an offer nobody has answered.
Expire(o, a) ==
    /\ inv[o][a].status = "Pending" /\ ~inv[o][a].expired
    /\ inv' = [inv EXCEPT ![o][a].expired = TRUE]
    /\ UNCHANGED <<enabled, org, role, call>>

-----------------------------------------------------------------------------
(* Roles, departures and archiving.                                        *)

RoleAuthorise(s, u, o, target, asOwner) ==
    /\ IsOwnerOfOrganization(u, o)
    /\ Begins(s, u, o, [op |-> "role", at |-> "authorised",
                        org |-> o, user |-> target, asOwner |-> asOwner])

\* Mutant: demotion does not ask who is left.
RoleGuardMemberOnly(s) ==
    LET c == call[s] IN
    /\ c.op = "role" /\ c.at = "authorised"
    /\ Guards(s, role[c.org][c.user] # "none" /\ enabled[c.user])

RoleGuard(s) ==
    LET c == call[s] IN
    /\ c.op = "role" /\ c.at = "authorised"
    /\ Guards(s, /\ role[c.org][c.user] # "none" /\ enabled[c.user]
                 /\ c.asOwner \/ ~IsLastOwnerOfOrganization(c.org, c.user))

\* The update finds no row when the membership has gone meanwhile.
RoleCommit(s) ==
    /\ call[s].op = "role" /\ call[s].at = "guarded"
    /\ role' = [role EXCEPT ![call[s].org][call[s].user] =
                  IF @ = "none" THEN @
                  ELSE IF call[s].asOwner THEN "owner" ELSE "member"]
    /\ Commits(s)
    /\ UNCHANGED <<enabled, org, inv>>

\* A user may remove themselves, whatever state the organization is in; an
\* owner may remove anybody.
LeaveAuthorise(s, u, o, target) ==
    /\ u = target \/ IsOwnerOfOrganization(u, o)
    /\ Begins(s, u, o, [op |-> "leave", at |-> "authorised",
                        org |-> o, user |-> target])

LeaveGuard(s) ==
    /\ call[s].op = "leave" /\ call[s].at = "authorised"
    /\ Guards(s, ~IsLastOwnerOfOrganization(call[s].org, call[s].user))

LeaveCommit(s) ==
    /\ call[s].op = "leave" /\ call[s].at = "guarded"
    /\ role' = [role EXCEPT ![call[s].org][call[s].user] = "none"]
    /\ Commits(s)
    /\ UNCHANGED <<enabled, org, inv>>

EnableAuthorise(s, u, o, to) ==
    /\ OwnsEvenArchived(u, o)
    /\ Begins(s, u, o, [op |-> "enable", org |-> o, to |-> to])

EnableCommit(s) ==
    /\ call[s].op = "enable"
    /\ org' = [org EXCEPT ![call[s].org] = call[s].to]
    /\ Commits(s)
    /\ UNCHANGED <<enabled, role, inv>>

\* An operator's statement on "IsEnabled": every function reads the column,
\* none writes it.
SetUserEnabled(s, u) ==
    /\ call[s] = Idle
    /\ enabled' = [enabled EXCEPT ![u] = ~@]
    /\ UNCHANGED <<org, role, inv, call>>

-----------------------------------------------------------------------------
StartCall(s) ==
    \E u \in Users, o \in Orgs :
        \/ AddOrganization(s, u, o)
        \/ SetUserEnabled(s, u)
        \/ \E a \in Addresses : AcceptRead(s, u, o, a) \/ DeclineRead(s, u, o, a)
                                  \/ RevokeRead(s, u, o, a)
        \/ \E a \in Addresses, b \in BOOLEAN : InviteAuthorise(s, u, o, a, b)
        \/ \E v \in Users, b \in BOOLEAN : RoleAuthorise(s, u, o, v, b)
        \/ \E v \in Users : LeaveAuthorise(s, u, o, v)
        \/ \E to \in {"enabled", "archived"} : EnableAuthorise(s, u, o, to)

ContinueCall(s) ==
    \/ InviteGuard(s) \/ AcceptGuard(s) \/ RevokeGuard(s) \/ RoleGuard(s) \/ LeaveGuard(s)
    \/ InviteCommit(s) \/ AcceptCommit(s) \/ DeclineCommit(s) \/ RevokeCommit(s)
    \/ RoleCommit(s) \/ LeaveCommit(s) \/ EnableCommit(s)

Next ==
    \/ \E s \in Sessions : StartCall(s) \/ ContinueCall(s)
    \/ \E o \in Orgs, a \in Addresses : Expire(o, a)

Spec == Init /\ [][Next]_vars

-----------------------------------------------------------------------------
(* Correctness.                                                            *)

EnabledOwners(o) == {u \in Users : enabled[u] /\ role[o][u] = "owner"}

\* LeaveOrganization and SetOrganizationRole refuse to take the last enabled
\* owner: an organization is left without one only by an account being
\* disabled, never by a call.  True of calls that run one at a time.
LastOwnerKept ==
    [][\A o \in Orgs :
          (EnabledOwners(o) # {} /\ EnabledOwners(o)' = {})
             => \E u \in Users : enabled[u] /\ ~enabled'[u]]_vars

\* Nobody becomes a member without their consent: a membership appears with
\* the organization itself, for its founder, or in the step that turns an
\* invitation to one of that user's own addresses into one they accepted.
\* Holds however many calls run at once.
MembershipByConsent ==
    [][\A o \in Orgs, u \in Users :
          (role[o][u] = "none" /\ role'[o][u] # "none")
             => \/ org[o] = "absent" /\ org'[o] = "enabled"
                \/ \E a \in AddressesOf(u) \ {NoOne} :
                      inv'[o][a].status = "Accepted" /\ inv'[o][a].acceptedBy = u]_vars

\* SetOrganizationEnabled archives an organization as it stands: while it is
\* archived no membership appears, no role changes, and nothing is offered,
\* taken up or withdrawn; members may still leave and offers still be turned
\* down.  True of calls that run one at a time.
ArchivedStaysAsItWas ==
    [][\A o \in Orgs : org[o] = "archived" /\ org'[o] = "archived" =>
          /\ \A u \in Users : role'[o][u] \in {role[o][u], "none"}
          /\ \A a \in Addresses :
                inv'[o][a].status \in {inv[o][a].status, "Declined"}]_vars

\* OrganizationInvitations."AcceptedByUserUUID" is NULL unless the status is
\* Accepted: an answer is given once, so no row says both that somebody took
\* the offer up and that it was declined or withdrawn.  True of calls that
\* run one at a time.
AcceptedByOnlyWhenAccepted ==
    \A o \in Orgs, a \in Addresses :
        inv[o][a].acceptedBy # NoOne => inv[o][a].status = "Accepted"

\* Every organization has an owner, enabled or not: "an organization cannot be
\* left without an owner", whichever of the two callers asks, archived or
\* not.  True of calls that run one at a time.
AlwaysAdministered ==
    \A o \in Orgs : org[o] # "absent" => \E u \in Users : role[o][u] = "owner"

-----------------------------------------------------------------------------
(* The inductive invariant behind AlwaysAdministered and LastOwnerKept for *)
(* calls that run one at a time: nothing comes between the last-owner      *)
(* guard of a call and its write, so the guard still holds at the write.   *)

\* A departure or a demotion that is past its guard, and about to be written.
TakesOwnership(c) ==
    /\ c \in LeaveCall \/ (c \in RoleCall /\ ~c.asOwner)
    /\ c.at = "guarded"

\* The guard still holds when the write comes.
GuardHolds ==
    \A s \in Sessions :
        TakesOwnership(call[s]) => ~IsLastOwnerOfOrganization(call[s].org, call[s].user)

\* Calls name organizations that have been inserted.
CallsNameOrganizations ==
    \A s \in Sessions : call[s] # Idle => org[call[s].org] # "absent"

SerialInv == TypeOK /\ AlwaysAdministered /\ GuardHolds /\ CallsNameOrganizations
=============================================================================

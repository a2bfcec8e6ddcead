------------------------ MODULE Organizations_proofs ------------------------
(***************************************************************************)
(* Theorems about Organizations, for any sets of users, organizations,     *)
(* addresses and sessions.                                                 *)
(***************************************************************************)
EXTENDS Organizations, TLAPS

\* The shapes a session's memory may have, written once for the provers.
USE DEF Calls, Idle, InviteCall, AcceptCall, DeclineCall, RevokeCall,
        RoleCall, LeaveCall, EnableCall

-----------------------------------------------------------------------------
\* Answering, or re-opening, one invitation leaves a well-typed table.
LEMMA OneInvitationWritten ==
    ASSUME NEW f \in [Orgs -> [Addresses -> Invitation]],
           NEW o \in Orgs, NEW a \in Addresses, NEW i \in Invitation
    PROVE  [f EXCEPT ![o][a] = i] \in [Orgs -> [Addresses -> Invitation]]
  OBVIOUS

\* A session's memory holds the arguments its kind of call carries.
LEMMA CallShapes ==
    ASSUME NEW c \in Calls
    PROVE  /\ c.op = "invite" => c \in InviteCall
           /\ c.op = "accept" => c \in AcceptCall
           /\ c.op = "decline" => c \in DeclineCall
           /\ c.op = "revoke" => c \in RevokeCall
           /\ c.op = "role" => c \in RoleCall
           /\ c.op = "leave" => c \in LeaveCall
           /\ c.op = "enable" => c \in EnableCall
  OBVIOUS

\* A step of one session leaves what the others are in the middle of alone.
LEMMA OneCallMoves ==
    ASSUME TypeOK, NEW s \in Sessions, StartCall(s) \/ ContinueCall(s),
           NEW t \in Sessions \ {s}
    PROVE  call'[t] = call[t]
<1>1. ASSUME NEW u, NEW o, NEW c, Begins(s, u, o, c) PROVE call'[t] = call[t]
  BY <1>1 DEF Begins, TypeOK
<1>2. ASSUME NEW passes, Guards(s, passes) PROVE call'[t] = call[t]
  BY <1>2 DEF Guards, TypeOK
<1>3. ASSUME Commits(s) PROVE call'[t] = call[t]
  BY <1>3 DEF Commits, TypeOK
<1>4. CASE StartCall(s)
  <2>1. ASSUME NEW u \in Users, NEW o \in Orgs,
               AddOrganization(s, u, o) \/ SetUserEnabled(s, u)
        PROVE  call'[t] = call[t]
    BY <2>1 DEF AddOrganization, SetUserEnabled
  <2>2. ASSUME NEW u \in Users, NEW o \in Orgs, NEW a \in Addresses, NEW b \in BOOLEAN,
               \/ AcceptRead(s, u, o, a) \/ DeclineRead(s, u, o, a)
               \/ RevokeRead(s, u, o, a) \/ InviteAuthorise(s, u, o, a, b)
        PROVE  call'[t] = call[t]
    BY <1>1, <2>2 DEF AcceptRead, DeclineRead, RevokeRead, InviteAuthorise
  <2>3. ASSUME NEW u \in Users, NEW o \in Orgs, NEW v \in Users, NEW b \in BOOLEAN,
               RoleAuthorise(s, u, o, v, b) \/ LeaveAuthorise(s, u, o, v)
        PROVE  call'[t] = call[t]
    BY <1>1, <2>3 DEF RoleAuthorise, LeaveAuthorise
  <2>4. ASSUME NEW u \in Users, NEW o \in Orgs, NEW to \in {"enabled", "archived"},
               EnableAuthorise(s, u, o, to)
        PROVE  call'[t] = call[t]
    BY <1>1, <2>4 DEF EnableAuthorise
  <2>5. QED
    BY <1>4, <2>1, <2>2, <2>3, <2>4 DEF StartCall
<1>5. CASE ContinueCall(s)
  <2>1. CASE InviteGuard(s) \/ AcceptGuard(s) \/ RevokeGuard(s) \/ RoleGuard(s) \/ LeaveGuard(s)
    BY <1>2, <2>1 DEF InviteGuard, AcceptGuard, RevokeGuard, RoleGuard, LeaveGuard
  <2>2. QED
    BY <1>3, <1>5, <2>1 DEF ContinueCall, InviteCommit, AcceptCommit,
       DeclineCommit, RevokeCommit, RoleCommit, LeaveCommit, EnableCommit
<1>6. QED
  BY <1>4, <1>5

\* Every reachable state is well typed, whatever runs at once.
THEOREM TypeCorrect == Spec => []TypeOK
<1>1. Init => TypeOK
  BY ConstantsAssumption DEF Init, TypeOK, Invitation, NoInvitation, Statuses
<1>2. TypeOK /\ [Next]_vars => TypeOK'
  <2> SUFFICES ASSUME TypeOK, [Next]_vars PROVE TypeOK'
    OBVIOUS
  <2> USE DEF TypeOK
  <2>1. ASSUME NEW s \in Sessions, StartCall(s) PROVE TypeOK'
    <3>0. PICK u \in Users, o \in Orgs :
          \/ AddOrganization(s, u, o)
          \/ SetUserEnabled(s, u)
          \/ \E a \in Addresses : AcceptRead(s, u, o, a) \/ DeclineRead(s, u, o, a)
                                    \/ RevokeRead(s, u, o, a)
          \/ \E a \in Addresses, b \in BOOLEAN : InviteAuthorise(s, u, o, a, b)
          \/ \E v \in Users, b \in BOOLEAN : RoleAuthorise(s, u, o, v, b)
          \/ \E v \in Users : LeaveAuthorise(s, u, o, v)
          \/ \E to \in {"enabled", "archived"} : EnableAuthorise(s, u, o, to)
      BY <2>1 DEF StartCall
    <3>1. CASE AddOrganization(s, u, o)
      BY <3>1 DEF AddOrganization
    <3>2. CASE SetUserEnabled(s, u)
      BY <3>2 DEF SetUserEnabled
    <3>3. ASSUME NEW a \in Addresses, AcceptRead(s, u, o, a) PROVE TypeOK'
      <4>1. inv[o][a].asOwner \in BOOLEAN
        BY DEF Invitation
      <4>2. QED
        BY <3>3, <4>1 DEF AcceptRead, Begins
    <3>4. ASSUME NEW a \in Addresses, DeclineRead(s, u, o, a) PROVE TypeOK'
      BY <3>4 DEF DeclineRead, Begins
    <3>5. ASSUME NEW a \in Addresses, RevokeRead(s, u, o, a) PROVE TypeOK'
      BY <3>5 DEF RevokeRead, Begins
    <3>6. ASSUME NEW a \in Addresses, NEW b \in BOOLEAN, InviteAuthorise(s, u, o, a, b)
          PROVE TypeOK'
      BY <3>6 DEF InviteAuthorise, Begins
    <3>7. ASSUME NEW v \in Users, NEW b \in BOOLEAN, RoleAuthorise(s, u, o, v, b)
          PROVE TypeOK'
      BY <3>7 DEF RoleAuthorise, Begins
    <3>8. ASSUME NEW v \in Users, LeaveAuthorise(s, u, o, v) PROVE TypeOK'
      BY <3>8 DEF LeaveAuthorise, Begins
    <3>9. ASSUME NEW to \in {"enabled", "archived"}, EnableAuthorise(s, u, o, to)
          PROVE TypeOK'
      BY <3>9 DEF EnableAuthorise, Begins
    <3>10. QED
      BY <3>0, <3>1, <3>2, <3>3, <3>4, <3>5, <3>6, <3>7, <3>8, <3>9
  <2>2. ASSUME NEW s \in Sessions, ContinueCall(s) PROVE TypeOK'
    <3>0. call[s] \in Calls
      OBVIOUS
    <3>1. CASE InviteGuard(s)
      BY <3>0, <3>1 DEF InviteGuard, Guards
    <3>2. CASE AcceptGuard(s)
      BY <3>0, <3>2 DEF AcceptGuard, Guards
    <3>3. CASE RevokeGuard(s)
      BY <3>0, <3>3 DEF RevokeGuard, Guards
    <3>4. CASE RoleGuard(s)
      BY <3>0, <3>4 DEF RoleGuard, Guards
    <3>5. CASE LeaveGuard(s)
      BY <3>0, <3>5 DEF LeaveGuard, Guards
    <3>6. CASE InviteCommit(s)
      <4> DEFINE c == call[s]
                 i == [status |-> "Pending", asOwner |-> c.asOwner,
                       expired |-> FALSE, acceptedBy |-> NoOne]
      <4>1. c \in InviteCall
        BY <3>0, <3>6, CallShapes DEF InviteCommit
      <4>2. i \in Invitation
        BY <4>1 DEF Invitation, Statuses
      <4>3. inv' \in [Orgs -> [Addresses -> Invitation]]
        BY <3>6, <4>1, <4>2, OneInvitationWritten DEF InviteCommit
      <4>4. QED
        BY <3>6, <4>3 DEF InviteCommit, Commits
    <3>7. CASE AcceptCommit(s)
      <4> DEFINE c == call[s]
                 i == [inv[c.org][c.addr] EXCEPT !.status = "Accepted", !.acceptedBy = c.user]
      <4>1. c \in AcceptCall
        BY <3>0, <3>7, CallShapes DEF AcceptCommit
      <4>2. i \in Invitation
        <5>1. inv[c.org][c.addr] \in Invitation
          BY <4>1
        <5>2. QED
          BY <4>1, <5>1 DEF Invitation, Statuses
      <4>3. inv' \in [Orgs -> [Addresses -> Invitation]]
        <5>1. inv' = [inv EXCEPT ![c.org][c.addr] = i]
          BY <3>7, <4>1 DEF AcceptCommit
        <5>2. QED
          BY <4>1, <4>2, <5>1, OneInvitationWritten
      <4>4. QED
        BY <3>7, <4>1, <4>3 DEF AcceptCommit, Commits
    <3>8. CASE DeclineCommit(s)
      <4> DEFINE c == call[s]
                 i == [inv[c.org][c.addr] EXCEPT !.status = "Declined"]
      <4>1. c \in DeclineCall
        BY <3>0, <3>8, CallShapes DEF DeclineCommit
      <4>2. i \in Invitation
        <5>1. inv[c.org][c.addr] \in Invitation
          BY <4>1
        <5>2. QED
          BY <4>1, <5>1 DEF Invitation, Statuses
      <4>3. inv' \in [Orgs -> [Addresses -> Invitation]]
        <5>1. inv' = [inv EXCEPT ![c.org][c.addr] = i]
          BY <3>8, <4>1 DEF DeclineCommit
        <5>2. QED
          BY <4>1, <4>2, <5>1, OneInvitationWritten
      <4>4. QED
        BY <3>8, <4>1, <4>3 DEF DeclineCommit, Commits
    <3>9. CASE RevokeCommit(s)
      <4> DEFINE c == call[s]
                 i == [inv[c.org][c.addr] EXCEPT !.status = "Revoked"]
      <4>1. c \in RevokeCall
        BY <3>0, <3>9, CallShapes DEF RevokeCommit
      <4>2. i \in Invitation
        <5>1. inv[c.org][c.addr] \in Invitation
          BY <4>1
        <5>2. QED
          BY <4>1, <5>1 DEF Invitation, Statuses
      <4>3. inv' \in [Orgs -> [Addresses -> Invitation]]
        <5>1. inv' = [inv EXCEPT ![c.org][c.addr] = i]
          BY <3>9, <4>1 DEF RevokeCommit
        <5>2. QED
          BY <4>1, <4>2, <5>1, OneInvitationWritten
      <4>4. QED
        BY <3>9, <4>1, <4>3 DEF RevokeCommit, Commits
    <3>10. CASE RoleCommit(s)
      BY <3>0, <3>10 DEF RoleCommit, Commits
    <3>11. CASE LeaveCommit(s)
      BY <3>0, <3>11 DEF LeaveCommit, Commits
    <3>12. CASE EnableCommit(s)
      BY <3>0, <3>12 DEF EnableCommit, Commits
    <3>13. QED
      BY <2>2, <3>1, <3>2, <3>3, <3>4, <3>5, <3>6, <3>7, <3>8, <3>9, <3>10, <3>11, <3>12
         DEF ContinueCall
  <2>3. ASSUME NEW o \in Orgs, NEW a \in Addresses, Expire(o, a) PROVE TypeOK'
    <3> DEFINE i == [inv[o][a] EXCEPT !.expired = TRUE]
    <3>1. i \in Invitation
      <4>1. inv[o][a] \in Invitation
        OBVIOUS
      <4>2. QED
        BY <4>1 DEF Invitation
    <3>2. inv' = [inv EXCEPT ![o][a] = i]
      BY <2>3 DEF Expire
    <3>3. QED
      BY <2>3, <3>1, <3>2, OneInvitationWritten DEF Expire
  <2>4. CASE UNCHANGED vars
    BY <2>4 DEF vars
  <2>5. QED
    BY <2>1, <2>2, <2>3, <2>4 DEF Next
<1>3. QED
  BY <1>1, <1>2, PTL DEF Spec
-----------------------------------------------------------------------------
(* Consent, whatever runs at once.                                         *)

\* An acceptance under way is of an offer to an address of its caller.
ConsentInv ==
    /\ TypeOK
    /\ \A s \in Sessions : call[s].op = "accept" => MayAccept(call[s].user, call[s].addr)

\* A step that starts a call, or takes one past its guard, writes no row of
\* the three tables: only commits and additions do.
LEMMA ConsentInvariant == Spec => []ConsentInv
<1>1. Init => ConsentInv
  BY ConstantsAssumption DEF Init, ConsentInv, TypeOK, Invitation, NoInvitation, Statuses
<1>2. TypeOK /\ TypeOK' /\ ConsentInv /\ [Next]_vars => ConsentInv'
  <2> SUFFICES ASSUME TypeOK, TypeOK', ConsentInv, [Next]_vars,
                      NEW t \in Sessions, call'[t].op = "accept"
               PROVE  MayAccept(call'[t].user, call'[t].addr)
    BY DEF ConsentInv, MayAccept, AddressesOf
  <2>1. CASE call'[t] = call[t]
    BY <2>1 DEF ConsentInv
  <2>2. CASE call'[t] # call[t]
    <3>1. PICK s \in Sessions : StartCall(s) \/ ContinueCall(s)
      BY <2>2 DEF Next, vars, Expire
    <3>2. s = t
      BY <2>2, <3>1, OneCallMoves
    <3>3. CASE StartCall(t)
      <4>1. PICK u \in Users, o \in Orgs, a \in Addresses : AcceptRead(t, u, o, a)
        BY <2>2, <3>3 DEF TypeOK, StartCall, AddOrganization, SetUserEnabled,
             DeclineRead, RevokeRead, InviteAuthorise, RoleAuthorise,
             LeaveAuthorise, EnableAuthorise, Begins
      <4>2. QED
        BY <4>1 DEF AcceptRead, Begins, TypeOK
    <3>4. CASE ContinueCall(t)
      <4>1. AcceptGuard(t)
        <5>0. call[t] \in Calls
          BY DEF TypeOK
        <5>1. ~InviteGuard(t)
          BY <5>0, CallShapes DEF InviteGuard, Guards, TypeOK
        <5>2. ~RevokeGuard(t)
          BY <5>0, CallShapes DEF RevokeGuard, Guards, TypeOK
        <5>3. ~RoleGuard(t)
          BY <5>0, CallShapes DEF RoleGuard, Guards, TypeOK
        <5>4. ~LeaveGuard(t)
          BY <5>0, CallShapes DEF LeaveGuard, Guards, TypeOK
        <5>5. ~Commits(t)
          BY DEF Commits, TypeOK
        <5>6. QED
          BY <3>4, <5>1, <5>2, <5>3, <5>4, <5>5 DEF ContinueCall,
             InviteCommit, AcceptCommit, DeclineCommit, RevokeCommit,
             RoleCommit, LeaveCommit, EnableCommit
      <4>2. call'[t] = [call[t] EXCEPT !.at = "guarded"]
        BY <4>1 DEF AcceptGuard, Guards, TypeOK
      <4>3. call[t] \in AcceptCall
        BY <4>1, CallShapes DEF AcceptGuard, TypeOK
      <4>4. QED
        BY <4>1, <4>2, <4>3 DEF ConsentInv, AcceptGuard
    <3>5. QED
      BY <3>1, <3>2, <3>3, <3>4
  <2>3. QED
    BY <2>1, <2>2
<1>3. QED
  BY <1>1, <1>2, TypeCorrect, PTL DEF Spec

\* Nobody becomes a member without founding the organization or accepting an
\* offer to an address of theirs, for any number of sessions interleaved
\* between their statements.
THEOREM Consent == Spec => MembershipByConsent
<1>1. ConsentInv /\ [Next]_vars =>
        [\A o \in Orgs, u \in Users :
          (role[o][u] = "none" /\ role'[o][u] # "none")
             => \/ org[o] = "absent" /\ org'[o] = "enabled"
                \/ \E a \in AddressesOf(u) \ {NoOne} :
                      inv'[o][a].status = "Accepted" /\ inv'[o][a].acceptedBy = u]_vars
  <2> SUFFICES ASSUME ConsentInv, Next, NEW o \in Orgs, NEW u \in Users,
                      role[o][u] = "none", role'[o][u] # "none",
                      ~(org[o] = "absent" /\ org'[o] = "enabled")
               PROVE  \E a \in AddressesOf(u) \ {NoOne} :
                        inv'[o][a].status = "Accepted" /\ inv'[o][a].acceptedBy = u
    BY DEF vars
  <2> USE DEF ConsentInv, TypeOK
  <2>1. PICK s \in Sessions : AcceptCommit(s)
    <3>1. PICK s \in Sessions : StartCall(s) \/ ContinueCall(s)
      BY DEF Next, Expire
    <3>2. ~StartCall(s)
      <4>1. ASSUME NEW v \in Users, NEW p \in Orgs, AddOrganization(s, v, p)
            PROVE  FALSE
        <5>1. p # o
          BY <4>1 DEF AddOrganization
        <5>2. role'[o] = role[o]
          BY <4>1, <5>1 DEF AddOrganization
        <5>3. QED
          BY <5>2
      <4>2. role' # role
        OBVIOUS
      <4>3. QED
        BY <4>1, <4>2 DEF StartCall, SetUserEnabled, AcceptRead, DeclineRead,
           RevokeRead, InviteAuthorise, RoleAuthorise, LeaveAuthorise,
           EnableAuthorise, Begins
    <3>3. ~RoleCommit(s) /\ ~LeaveCommit(s)
      <4>1. call[s] \in Calls
        OBVIOUS
      <4>2. QED
        BY <4>1, CallShapes DEF RoleCommit, LeaveCommit
    <3>4. QED
      BY <3>1, <3>2, <3>3 DEF ContinueCall, Guards, InviteGuard, AcceptGuard,
         RevokeGuard, RoleGuard, LeaveGuard, InviteCommit, DeclineCommit,
         RevokeCommit, EnableCommit
  <2> DEFINE c == call[s]
  <2>2. c \in AcceptCall
    BY <2>1, CallShapes DEF AcceptCommit
  <2>3. c.org = o /\ c.user = u
    BY <2>1, <2>2 DEF AcceptCommit
  <2>4. c.addr \in AddressesOf(u) \ {NoOne}
    BY <2>1, <2>2, <2>3, ConstantsAssumption DEF AcceptCommit, MayAccept
  <2>5. inv'[o][c.addr] = [inv[o][c.addr] EXCEPT !.status = "Accepted", !.acceptedBy = u]
    BY <2>1, <2>2, <2>3 DEF AcceptCommit
  <2>6. inv[o][c.addr] \in Invitation
    BY <2>2
  <2>7. QED
    BY <2>4, <2>5, <2>6 DEF Invitation
<1>2. QED
  BY <1>1, ConsentInvariant, PTL DEF Spec, MembershipByConsent
-----------------------------------------------------------------------------
(* What holds of calls that run one at a time: one session, so nothing comes *)
(* between the last-owner guard of a call and its write.                     *)

OneAtATime == \A s, t \in Sessions : s = t

\* Starting a call adds an organization, changes an account, or remembers a
\* call on an organization that exists and is not yet past any guard.
LEMMA StartForms ==
    ASSUME TypeOK, NEW s \in Sessions, StartCall(s)
    PROVE  \/ \E u \in Users, o \in Orgs : AddOrganization(s, u, o)
           \/ \E u \in Users : SetUserEnabled(s, u)
           \/ /\ UNCHANGED <<enabled, org, role, inv>>
              /\ call'[s] # Idle => org[call'[s].org] # "absent"
              /\ ~TakesOwnership(call'[s])
<1> USE DEF TypeOK, Begins, TakesOwnership
<1>1. PICK u \in Users, o \in Orgs :
          \/ AddOrganization(s, u, o)
          \/ SetUserEnabled(s, u)
          \/ \E a \in Addresses : AcceptRead(s, u, o, a) \/ DeclineRead(s, u, o, a)
                                    \/ RevokeRead(s, u, o, a)
          \/ \E a \in Addresses, b \in BOOLEAN : InviteAuthorise(s, u, o, a, b)
          \/ \E v \in Users, b \in BOOLEAN : RoleAuthorise(s, u, o, v, b)
          \/ \E v \in Users : LeaveAuthorise(s, u, o, v)
          \/ \E to \in {"enabled", "archived"} : EnableAuthorise(s, u, o, to)
  BY DEF StartCall
<1>2. ASSUME NEW a \in Addresses,
             AcceptRead(s, u, o, a) \/ DeclineRead(s, u, o, a) \/ RevokeRead(s, u, o, a)
      PROVE  /\ UNCHANGED <<enabled, org, role, inv>>
             /\ org[call'[s].org] # "absent"
             /\ ~TakesOwnership(call'[s])
  BY <1>2 DEF AcceptRead, DeclineRead, RevokeRead
<1>3. ASSUME NEW a \in Addresses, NEW b \in BOOLEAN, InviteAuthorise(s, u, o, a, b)
      PROVE  /\ UNCHANGED <<enabled, org, role, inv>>
             /\ org[call'[s].org] # "absent"
             /\ ~TakesOwnership(call'[s])
  BY <1>3 DEF InviteAuthorise
<1>4. ASSUME NEW v \in Users, NEW b \in BOOLEAN, RoleAuthorise(s, u, o, v, b)
      PROVE  /\ UNCHANGED <<enabled, org, role, inv>>
             /\ org[call'[s].org] # "absent"
             /\ ~TakesOwnership(call'[s])
  BY <1>4 DEF RoleAuthorise
<1>5. ASSUME NEW v \in Users, LeaveAuthorise(s, u, o, v)
      PROVE  /\ UNCHANGED <<enabled, org, role, inv>>
             /\ org[call'[s].org] # "absent"
             /\ ~TakesOwnership(call'[s])
  BY <1>5 DEF LeaveAuthorise
<1>6. ASSUME NEW to \in {"enabled", "archived"}, EnableAuthorise(s, u, o, to)
      PROVE  /\ UNCHANGED <<enabled, org, role, inv>>
             /\ org[call'[s].org] # "absent"
             /\ ~TakesOwnership(call'[s])
  BY <1>6 DEF EnableAuthorise
<1>7. QED
  BY <1>1, <1>2, <1>3, <1>4, <1>5, <1>6

\* Going on with a call either remembers it past its guard, or commits.
LEMMA ContinueForms ==
    ASSUME TypeOK, NEW s \in Sessions, ContinueCall(s)
    PROVE  /\ call[s] # Idle
           /\ \/ /\ UNCHANGED <<enabled, org, role, inv>>
                 /\ call'[s] # Idle => call'[s].org = call[s].org
                 /\ TakesOwnership(call'[s])
                       => ~IsLastOwnerOfOrganization(call'[s].org, call'[s].user)
              \/ /\ Commits(s)
                 /\ UNCHANGED enabled
                 /\ \/ UNCHANGED <<org, role>>
                    \/ AcceptCommit(s) \/ RoleCommit(s) \/ LeaveCommit(s)
                    \/ EnableCommit(s)
<1> USE DEF TypeOK
<1>1. call[s] \in Calls
  OBVIOUS
<1>2. CASE InviteGuard(s)
  BY <1>1, <1>2, CallShapes DEF InviteGuard, Guards, TakesOwnership
<1>3. CASE AcceptGuard(s)
  BY <1>1, <1>3, CallShapes DEF AcceptGuard, Guards, TakesOwnership
<1>4. CASE RevokeGuard(s)
  BY <1>1, <1>4, CallShapes DEF RevokeGuard, Guards, TakesOwnership
<1>5. CASE RoleGuard(s)
  BY <1>1, <1>5, CallShapes DEF RoleGuard, Guards, TakesOwnership
<1>6. CASE LeaveGuard(s)
  BY <1>1, <1>6, CallShapes DEF LeaveGuard, Guards, TakesOwnership
<1>7. CASE InviteCommit(s) \/ DeclineCommit(s) \/ RevokeCommit(s)
  BY <1>7 DEF InviteCommit, DeclineCommit, RevokeCommit
<1>8. CASE AcceptCommit(s) \/ RoleCommit(s) \/ LeaveCommit(s) \/ EnableCommit(s)
  BY <1>8 DEF AcceptCommit, RoleCommit, LeaveCommit, EnableCommit
<1>9. QED
  BY <1>2, <1>3, <1>4, <1>5, <1>6, <1>7, <1>8 DEF ContinueCall

\* No commit takes the last enabled owner when its guard still holds: an
\* organization that has an owner keeps one, and one that has an enabled
\* owner keeps an enabled one.
LEMMA CommitKeepsAnOwner ==
    ASSUME TypeOK, GuardHolds, NEW s \in Sessions,
           AcceptCommit(s) \/ RoleCommit(s) \/ LeaveCommit(s), NEW o \in Orgs
    PROVE  /\ (\E u \in Users : role[o][u] = "owner")
                 => \E u \in Users : role'[o][u] = "owner"
           /\ EnabledOwners(o) # {} => EnabledOwners(o)' # {}
<1> USE DEF TypeOK
<1> DEFINE c == call[s]
<1>0. c \in Calls
  OBVIOUS
<1>1. CASE AcceptCommit(s)
  <2>1. c \in AcceptCall
    BY <1>0, <1>1, CallShapes DEF AcceptCommit
  <2>2. \A u \in Users : role[o][u] = "owner" => role'[o][u] = "owner"
    BY <1>1, <2>1 DEF AcceptCommit
  <2>3. QED
    BY <1>1, <2>2 DEF AcceptCommit, EnabledOwners
<1>2. ASSUME RoleCommit(s) \/ LeaveCommit(s) PROVE
          /\ c.org \in Orgs /\ c.user \in Users
          /\ UNCHANGED enabled
          /\ \A u \in Users : (o # c.org \/ u # c.user) => role'[o][u] = role[o][u]
          /\ TakesOwnership(c)
               \/ (o = c.org /\ role[o][c.user] = "owner" => role'[o][c.user] = "owner")
  <2>1. CASE RoleCommit(s)
    <3>1. c \in RoleCall
      BY <1>0, <2>1, CallShapes DEF RoleCommit
    <3>2. QED
      BY <2>1, <3>1 DEF RoleCommit, TakesOwnership
  <2>2. CASE LeaveCommit(s)
    <3>1. c \in LeaveCall
      BY <1>0, <2>2, CallShapes DEF LeaveCommit
    <3>2. QED
      BY <2>2, <3>1 DEF LeaveCommit, TakesOwnership
  <2>3. QED
    BY <1>2, <2>1, <2>2
<1>3. CASE RoleCommit(s) \/ LeaveCommit(s)
  <2>1. CASE ~TakesOwnership(c)
    <3>1. \A u \in Users : role[o][u] = "owner" => role'[o][u] = "owner"
      BY <1>2, <1>3, <2>1
    <3>2. QED
      BY <1>2, <1>3, <3>1 DEF EnabledOwners
  <2>2. CASE TakesOwnership(c)
    <3>1. ~IsLastOwnerOfOrganization(c.org, c.user)
      BY <2>2 DEF GuardHolds
    <3>2. CASE o = c.org /\ role[o][c.user] = "owner"
      <4>1. PICK v \in Users \ {c.user} : enabled[v] /\ role[o][v] = "owner"
        BY <3>1, <3>2 DEF IsLastOwnerOfOrganization
      <4>2. role'[o][v] = "owner" /\ enabled'[v]
        BY <1>2, <1>3, <4>1
      <4>3. QED
        BY <4>1, <4>2 DEF EnabledOwners
    <3>3. CASE ~(o = c.org /\ role[o][c.user] = "owner")
      <4>1. \A u \in Users : role[o][u] = "owner" => role'[o][u] = "owner"
        BY <1>2, <1>3, <3>3
      <4>2. QED
        BY <1>2, <1>3, <4>1 DEF EnabledOwners
    <3>4. QED
      BY <3>2, <3>3
  <2>3. QED
    BY <2>1, <2>2
<1>4. QED
  BY <1>1, <1>3

\* The serial invariant is inductive.
LEMMA SerialStep ==
    ASSUME OneAtATime, SerialInv, TypeOK', [Next]_vars
    PROVE  SerialInv'
<1> USE DEF SerialInv, TypeOK
<1>1. ASSUME UNCHANGED <<enabled, org, role, call>> PROVE SerialInv'
  BY <1>1 DEF AlwaysAdministered, GuardHolds, CallsNameOrganizations, IsLastOwnerOfOrganization
<1>2. ASSUME \A t \in Sessions : call'[t] = Idle, AlwaysAdministered' PROVE SerialInv'
  BY <1>2 DEF GuardHolds, CallsNameOrganizations, TakesOwnership
<1>3. ASSUME NEW s \in Sessions, StartCall(s) PROVE SerialInv'
  <2>1. CASE \E u \in Users, o \in Orgs : AddOrganization(s, u, o)
    <3>1. \A t \in Sessions : call'[t] = Idle
      BY <2>1 DEF AddOrganization, OneAtATime
    <3>2. AlwaysAdministered'
      BY <2>1 DEF AddOrganization, AlwaysAdministered
    <3>3. QED
      BY <1>2, <3>1, <3>2
  <2>2. CASE \E u \in Users : SetUserEnabled(s, u)
    <3>1. \A t \in Sessions : call'[t] = Idle
      BY <2>2 DEF SetUserEnabled, OneAtATime
    <3>2. AlwaysAdministered'
      BY <2>2 DEF SetUserEnabled, AlwaysAdministered
    <3>3. QED
      BY <1>2, <3>1, <3>2
  <2>3. CASE /\ UNCHANGED <<enabled, org, role, inv>>
             /\ call'[s] # Idle => org[call'[s].org] # "absent"
             /\ ~TakesOwnership(call'[s])
    BY <2>3 DEF OneAtATime, AlwaysAdministered, GuardHolds, CallsNameOrganizations
  <2>4. QED
    BY <1>3, <2>1, <2>2, <2>3, StartForms
<1>4. ASSUME NEW s \in Sessions, ContinueCall(s) PROVE SerialInv'
  <2>1. org[call[s].org] # "absent"
    BY <1>4, ContinueForms DEF CallsNameOrganizations
  <2>2. CASE /\ UNCHANGED <<enabled, org, role, inv>>
             /\ call'[s] # Idle => call'[s].org = call[s].org
             /\ TakesOwnership(call'[s])
                  => ~IsLastOwnerOfOrganization(call'[s].org, call'[s].user)
    BY <2>1, <2>2 DEF OneAtATime, AlwaysAdministered, GuardHolds,
       CallsNameOrganizations, IsLastOwnerOfOrganization
  <2>3. ASSUME Commits(s) PROVE \A t \in Sessions : call'[t] = Idle
    BY <2>3 DEF Commits, OneAtATime
  <2>4. CASE Commits(s) /\ UNCHANGED <<org, role>>
    <3>1. AlwaysAdministered'
      BY <2>4 DEF AlwaysAdministered
    <3>2. QED
      BY <1>2, <2>3, <2>4, <3>1
  <2>5. CASE AcceptCommit(s) \/ RoleCommit(s) \/ LeaveCommit(s)
    <3>1. org' = org /\ Commits(s)
      BY <2>5 DEF AcceptCommit, RoleCommit, LeaveCommit
    <3>2. AlwaysAdministered'
      BY <2>5, <3>1, CommitKeepsAnOwner DEF AlwaysAdministered
    <3>3. QED
      BY <1>2, <2>3, <3>1, <3>2
  <2>6. CASE EnableCommit(s)
    <3>1. call[s] \in EnableCall
      BY <2>6, CallShapes DEF EnableCommit
    <3>2. \A o \in Orgs : org'[o] # "absent" => org[o] # "absent"
      BY <2>1, <2>6, <3>1 DEF EnableCommit
    <3>3. AlwaysAdministered'
      BY <2>6, <3>2 DEF EnableCommit, AlwaysAdministered
    <3>4. QED
      BY <1>2, <2>3, <2>6, <3>3 DEF EnableCommit
  <2>7. QED
    BY <1>4, <2>2, <2>4, <2>5, <2>6, ContinueForms
<1>5. ASSUME NEW o \in Orgs, NEW a \in Addresses, Expire(o, a) PROVE SerialInv'
  BY <1>1, <1>5 DEF Expire
<1>6. CASE UNCHANGED vars
  BY <1>1, <1>6 DEF vars
<1>7. QED
  BY <1>3, <1>4, <1>5, <1>6 DEF Next

LEMMA SerialInvariant == ASSUME OneAtATime PROVE Spec => []SerialInv
<1>1. Init => SerialInv
  <2>1. Init => TypeOK
    BY ConstantsAssumption DEF Init, TypeOK, Invitation, NoInvitation, Statuses
  <2>2. QED
    BY <2>1 DEF Init, SerialInv, AlwaysAdministered, GuardHolds,
       CallsNameOrganizations, TakesOwnership
<1>2. SerialInv /\ TypeOK' /\ [Next]_vars => SerialInv'
  BY SerialStep
<1>3. QED
  BY <1>1, <1>2, TypeCorrect, PTL DEF Spec

\* Of calls that run one at a time: an organization is never left without an
\* owner.
THEOREM Administered == ASSUME OneAtATime PROVE Spec => []AlwaysAdministered
<1>1. SerialInv => AlwaysAdministered
  BY DEF SerialInv
<1>2. QED
  BY <1>1, SerialInvariant, PTL

\* Of calls that run one at a time: only an account being disabled, never a
\* call, leaves an organization without an enabled owner.
THEOREM EnabledOwnerKept == ASSUME OneAtATime PROVE Spec => LastOwnerKept
<1>1. SerialInv /\ [Next]_vars =>
        [\A o \in Orgs :
          (EnabledOwners(o) # {} /\ EnabledOwners(o)' = {})
             => \E u \in Users : enabled[u] /\ ~enabled'[u]]_vars
  <2> SUFFICES ASSUME SerialInv, Next, NEW o \in Orgs,
                      EnabledOwners(o) # {}, EnabledOwners(o)' = {}
               PROVE  \E u \in Users : enabled[u] /\ ~enabled'[u]
    BY DEF vars
  <2> USE DEF SerialInv, TypeOK
  <2>1. ~UNCHANGED <<enabled, role>>
    BY DEF EnabledOwners
  <2>2. PICK s \in Sessions : StartCall(s) \/ ContinueCall(s)
    BY <2>1 DEF Next, Expire
  <2>3. ~(AcceptCommit(s) \/ RoleCommit(s) \/ LeaveCommit(s))
    BY CommitKeepsAnOwner
  <2>4. ~ContinueCall(s)
    BY <2>1, <2>3, ContinueForms DEF EnableCommit
  <2>5. ASSUME NEW u \in Users, NEW p \in Orgs, AddOrganization(s, u, p) PROVE FALSE
    <3>1. \A v \in Users : role[o][v] = "owner" => role'[o][v] = "owner"
      BY <2>5 DEF AddOrganization
    <3>2. QED
      BY <2>5, <3>1 DEF AddOrganization, EnabledOwners
  <2>6. PICK u \in Users : SetUserEnabled(s, u)
    BY <2>1, <2>2, <2>4, <2>5, StartForms
  <2>7. PICK v \in Users : enabled[v] /\ role[o][v] = "owner"
    BY DEF EnabledOwners
  <2>8. ~enabled'[v]
    BY <2>6, <2>7 DEF SetUserEnabled, EnabledOwners
  <2>9. QED
    BY <2>7, <2>8
<1>2. QED
  BY <1>1, SerialInvariant, PTL DEF Spec, LastOwnerKept

-----------------------------------------------------------------------------
(* An answer is given once, and an archive stays as it was: with calls one  *)
(* at a time, what a call has read of the offer and of the organization is  *)
(* still so when it writes.                                                 *)

\* A call that answers an offer has found it open, and one that would change
\* anything but a departure or an answer "no" has found the organization so.
CallFits(c) ==
    /\ c.op \in {"accept", "decline", "revoke"} => inv[c.org][c.addr].status = "Pending"
    /\ \/ c.op \in {"invite", "role"}
       \/ c.op \in {"accept", "revoke"} /\ c.at = "guarded"
       => org[c.org] = "enabled"

AnswerInv ==
    /\ TypeOK /\ AcceptedByOnlyWhenAccepted
    /\ \A s \in Sessions : CallFits(call[s])

\* A step that only begins a call, or takes it past a guard.
LEMMA CallGoesOn ==
    ASSUME OneAtATime, AnswerInv, TypeOK', UNCHANGED <<org, inv>>,
           NEW s \in Sessions, CallFits(call'[s])
    PROVE  AnswerInv'
  BY DEF AnswerInv, OneAtATime, AcceptedByOnlyWhenAccepted, CallFits

LEMMA NobodyAnswers ==
    ASSUME TypeOK', \A t \in Sessions : call'[t] = Idle, AcceptedByOnlyWhenAccepted'
    PROVE  AnswerInv'
  BY DEF AnswerInv, CallFits

LEMMA StartAnswers ==
    ASSUME OneAtATime, AnswerInv, TypeOK', NEW s \in Sessions, StartCall(s)
    PROVE  AnswerInv'
<1> USE DEF AnswerInv, TypeOK
<1>1. ASSUME NEW u, NEW o, NEW c, Begins(s, u, o, c) PROVE call'[s] = c /\ UNCHANGED <<org, inv>>
  BY <1>1 DEF Begins
<1>2. ASSUME NEW u \in Users, NEW o \in Orgs, AddOrganization(s, u, o) \/ SetUserEnabled(s, u)
      PROVE  AnswerInv'
  <2>1. \A t \in Sessions : call'[t] = Idle
    BY <1>2 DEF AddOrganization, SetUserEnabled, OneAtATime
  <2>2. AcceptedByOnlyWhenAccepted'
    BY <1>2 DEF AddOrganization, SetUserEnabled, AcceptedByOnlyWhenAccepted
  <2>3. QED
    BY <2>1, <2>2, NobodyAnswers
<1>3. ASSUME NEW u \in Users, NEW o \in Orgs, NEW a \in Addresses,
             AcceptRead(s, u, o, a) \/ DeclineRead(s, u, o, a) \/ RevokeRead(s, u, o, a)
      PROVE  AnswerInv'
  <2>1. /\ call'[s].org = o /\ call'[s].addr = a /\ inv[o][a].status = "Pending"
        /\ \/ call'[s].op = "accept" /\ call'[s].at = "read"
           \/ call'[s].op = "decline"
           \/ call'[s].op = "revoke" /\ call'[s].at = "read"
        /\ UNCHANGED <<org, inv>>
    BY <1>1, <1>3 DEF AcceptRead, DeclineRead, RevokeRead
  <2>2. CallFits(call'[s])
    BY <2>1 DEF CallFits
  <2>3. QED
    BY <2>1, <2>2, CallGoesOn
<1>4. ASSUME NEW u \in Users, NEW o \in Orgs, NEW a \in Addresses, NEW v \in Users, NEW b \in BOOLEAN,
             InviteAuthorise(s, u, o, a, b) \/ RoleAuthorise(s, u, o, v, b)
      PROVE  AnswerInv'
  <2>1. /\ call'[s].org = o /\ call'[s].op \in {"invite", "role"} /\ org[o] = "enabled"
        /\ UNCHANGED <<org, inv>>
    BY <1>1, <1>4 DEF InviteAuthorise, RoleAuthorise, IsOwnerOfOrganization
  <2>2. CallFits(call'[s])
    BY <2>1 DEF CallFits
  <2>3. QED
    BY <2>1, <2>2, CallGoesOn
<1>5. ASSUME NEW u \in Users, NEW o \in Orgs, NEW v \in Users, NEW to \in {"enabled", "archived"},
             LeaveAuthorise(s, u, o, v) \/ EnableAuthorise(s, u, o, to)
      PROVE  AnswerInv'
  <2>1. call'[s].op \in {"leave", "enable"} /\ UNCHANGED <<org, inv>>
    BY <1>1, <1>5 DEF LeaveAuthorise, EnableAuthorise
  <2>2. CallFits(call'[s])
    BY <2>1 DEF CallFits
  <2>3. QED
    BY <2>1, <2>2, CallGoesOn
<1>6. PICK u \in Users, o \in Orgs :
        \/ AddOrganization(s, u, o)
        \/ SetUserEnabled(s, u)
        \/ \E a \in Addresses : AcceptRead(s, u, o, a) \/ DeclineRead(s, u, o, a)
                                  \/ RevokeRead(s, u, o, a)
        \/ \E a \in Addresses, b \in BOOLEAN : InviteAuthorise(s, u, o, a, b)
        \/ \E v \in Users, b \in BOOLEAN : RoleAuthorise(s, u, o, v, b)
        \/ \E v \in Users : LeaveAuthorise(s, u, o, v)
        \/ \E to \in {"enabled", "archived"} : EnableAuthorise(s, u, o, to)
  BY DEF StartCall
<1>7. ASSUME NEW a \in Addresses, NEW b \in BOOLEAN, InviteAuthorise(s, u, o, a, b)
      PROVE  AnswerInv'
  BY <1>4, <1>7
<1>8. ASSUME NEW v \in Users, NEW b \in BOOLEAN, RoleAuthorise(s, u, o, v, b)
      PROVE  AnswerInv'
  <2>1. call'[s].org = o /\ call'[s].op = "role" /\ org[o] = "enabled" /\ UNCHANGED <<org, inv>>
    BY <1>1, <1>8 DEF RoleAuthorise, IsOwnerOfOrganization
  <2>2. CallFits(call'[s])
    BY <2>1 DEF CallFits
  <2>3. QED
    BY <2>1, <2>2, CallGoesOn
<1>9. ASSUME NEW v \in Users, LeaveAuthorise(s, u, o, v) PROVE AnswerInv'
  BY <1>5, <1>9
<1>10. ASSUME NEW to \in {"enabled", "archived"}, EnableAuthorise(s, u, o, to) PROVE AnswerInv'
  BY <1>5, <1>10
<1>11. QED
  BY <1>2, <1>3, <1>6, <1>7, <1>8, <1>9, <1>10

LEMMA ContinueAnswers ==
    ASSUME OneAtATime, AnswerInv, TypeOK', NEW s \in Sessions, ContinueCall(s)
    PROVE  AnswerInv'
<1> USE DEF AnswerInv, TypeOK
<1>1. call[s] \in Calls /\ CallFits(call[s])
  OBVIOUS
<1>2. ASSUME NEW passes, Guards(s, passes),
             passes /\ call[s].op \in {"accept", "revoke", "invite", "role"}
                => org[call[s].org] = "enabled",
             call[s] \in InviteCall \/ call[s] \in AcceptCall \/ call[s] \in RevokeCall
               \/ call[s] \in RoleCall \/ call[s] \in LeaveCall
      PROVE  AnswerInv'
  <2>1. UNCHANGED <<org, inv>>
    BY <1>2 DEF Guards
  <2>2. CASE passes
    <3>1. call'[s] = [call[s] EXCEPT !.at = "guarded"]
      BY <1>2, <2>2 DEF Guards
    <3>2. /\ call'[s].op = call[s].op /\ call'[s].org = call[s].org
          /\ call[s].op \in {"accept", "decline", "revoke"} => call'[s].addr = call[s].addr
      BY <1>2, <3>1
    <3>3. call[s].op # "decline"
      BY <1>2
    <3>4. CallFits(call'[s])
      BY <1>1, <1>2, <2>2, <3>2, <3>3 DEF CallFits
    <3>5. QED
      BY <2>1, <3>4, CallGoesOn
  <2>3. CASE ~passes
    <3>1. call'[s] = Idle
      BY <1>2, <2>3 DEF Guards
    <3>2. CallFits(call'[s])
      BY <3>1 DEF CallFits
    <3>3. QED
      BY <2>1, <3>2, CallGoesOn
  <2>4. QED
    BY <2>2, <2>3
<1>3. CASE InviteGuard(s) \/ RoleGuard(s) \/ LeaveGuard(s)
  <2>1. CASE InviteGuard(s)
    BY <1>1, <1>2, <2>1, CallShapes DEF InviteGuard, CallFits
  <2>2. CASE RoleGuard(s)
    BY <1>1, <1>2, <2>2, CallShapes DEF RoleGuard, CallFits
  <2>3. CASE LeaveGuard(s)
    BY <1>1, <1>2, <2>3, CallShapes DEF LeaveGuard
  <2>4. QED
    BY <1>3, <2>1, <2>2, <2>3
<1>4. CASE AcceptGuard(s)
  BY <1>1, <1>2, <1>4, CallShapes DEF AcceptGuard
<1>5. CASE RevokeGuard(s)
  BY <1>1, <1>2, <1>5, CallShapes DEF RevokeGuard, IsOwnerOfOrganization
<1>6. ASSUME Commits(s) PROVE \A t \in Sessions : call'[t] = Idle
  BY <1>6 DEF Commits, OneAtATime
<1>7. CASE RoleCommit(s) \/ LeaveCommit(s) \/ EnableCommit(s)
  <2>1. Commits(s) /\ inv' = inv
    BY <1>7 DEF RoleCommit, LeaveCommit, EnableCommit
  <2>2. QED
    BY <1>6, <2>1, NobodyAnswers DEF AcceptedByOnlyWhenAccepted
<1>8. ASSUME NEW o \in Orgs, NEW a \in Addresses, NEW i \in Invitation,
             i.acceptedBy # NoOne => i.status = "Accepted",
             inv' = [inv EXCEPT ![o][a] = i], Commits(s)
      PROVE  AnswerInv'
  <2>1. \A p \in Orgs, b \in Addresses : inv'[p][b] = IF p = o /\ b = a THEN i ELSE inv[p][b]
    BY <1>8
  <2>2. AcceptedByOnlyWhenAccepted'
    BY <1>8, <2>1 DEF AcceptedByOnlyWhenAccepted
  <2>3. QED
    BY <1>6, <1>8, <2>2, NobodyAnswers
<1>9. CASE InviteCommit(s)
  <2>1. call[s] \in InviteCall
    BY <1>1, <1>9, CallShapes DEF InviteCommit
  <2>2. PICK i : i = [status |-> "Pending", asOwner |-> call[s].asOwner,
                      expired |-> FALSE, acceptedBy |-> NoOne]
    OBVIOUS
  <2>3. i \in Invitation
    BY <2>1, <2>2 DEF Invitation, Statuses
  <2>4. QED
    BY <1>8, <1>9, <2>1, <2>2, <2>3 DEF InviteCommit
<1>10. CASE AcceptCommit(s)
  <2>1. call[s] \in AcceptCall
    BY <1>1, <1>10, CallShapes DEF AcceptCommit
  <2>2. PICK i : i = [inv[call[s].org][call[s].addr] EXCEPT
                        !.status = "Accepted", !.acceptedBy = call[s].user]
    OBVIOUS
  <2>3. i \in Invitation /\ i.status = "Accepted"
    <3>1. inv[call[s].org][call[s].addr] \in Invitation /\ call[s].user \in Users
      BY <2>1
    <3>2. QED
      BY <2>2, <3>1 DEF Invitation, Statuses
  <2>4. QED
    BY <1>8, <1>10, <2>1, <2>2, <2>3 DEF AcceptCommit
<1>11. CASE DeclineCommit(s) \/ RevokeCommit(s)
  <2>1. /\ call[s].org \in Orgs /\ call[s].addr \in Addresses
        /\ inv[call[s].org][call[s].addr].status = "Pending"
    BY <1>1, <1>11, CallShapes DEF DeclineCommit, RevokeCommit, CallFits
  <2>2. PICK i : /\ i = [inv[call[s].org][call[s].addr] EXCEPT !.status = "Declined"]
                    \/ i = [inv[call[s].org][call[s].addr] EXCEPT !.status = "Revoked"]
                 /\ inv' = [inv EXCEPT ![call[s].org][call[s].addr] = i]
                 /\ Commits(s)
    <3>1. CASE DeclineCommit(s)
      <4>1. PICK j : j = [inv[call[s].org][call[s].addr] EXCEPT !.status = "Declined"]
        OBVIOUS
      <4>2. inv' = [inv EXCEPT ![call[s].org][call[s].addr] = j]
        BY <3>1, <4>1 DEF DeclineCommit
      <4>3. QED
        BY <3>1, <4>1, <4>2 DEF DeclineCommit
    <3>2. CASE RevokeCommit(s)
      <4>1. PICK j : j = [inv[call[s].org][call[s].addr] EXCEPT !.status = "Revoked"]
        OBVIOUS
      <4>2. inv' = [inv EXCEPT ![call[s].org][call[s].addr] = j]
        BY <3>2, <4>1 DEF RevokeCommit
      <4>3. QED
        BY <3>2, <4>1, <4>2 DEF RevokeCommit
    <3>3. QED
      BY <1>11, <3>1, <3>2
  <2>3. i \in Invitation /\ i.acceptedBy = inv[call[s].org][call[s].addr].acceptedBy
    <3>1. inv[call[s].org][call[s].addr] \in Invitation
      BY <2>1
    <3>2. QED
      BY <2>2, <3>1 DEF Invitation, Statuses
  <2>4. i.acceptedBy = NoOne
    BY <2>1, <2>3 DEF AcceptedByOnlyWhenAccepted
  <2>5. QED
    BY <1>8, <2>1, <2>2, <2>3, <2>4
<1>12. QED
  BY <1>3, <1>4, <1>5, <1>7, <1>9, <1>10, <1>11 DEF ContinueCall

LEMMA AnswerInvariant == ASSUME OneAtATime PROVE Spec => []AnswerInv
<1>1. Init => AnswerInv
  <2>1. Init => TypeOK
    BY ConstantsAssumption DEF Init, TypeOK, Invitation, NoInvitation, Statuses
  <2>2. QED
    BY <2>1 DEF Init, AnswerInv, AcceptedByOnlyWhenAccepted, NoInvitation, CallFits
<1>2. AnswerInv /\ TypeOK' /\ [Next]_vars => AnswerInv'
  <2> SUFFICES ASSUME AnswerInv, TypeOK', [Next]_vars PROVE AnswerInv'
    OBVIOUS
  <2>1. ASSUME NEW o \in Orgs, NEW a \in Addresses, Expire(o, a) PROVE AnswerInv'
    <3>1. \A p \in Orgs, b \in Addresses :
            inv'[p][b].status = inv[p][b].status /\ inv'[p][b].acceptedBy = inv[p][b].acceptedBy
      BY <2>1 DEF Expire, AnswerInv, TypeOK, Invitation
    <3>2. AcceptedByOnlyWhenAccepted'
      BY <3>1 DEF AnswerInv, AcceptedByOnlyWhenAccepted
    <3>3. ASSUME NEW s \in Sessions PROVE CallFits(call[s])'
      <4>1. call'[s] = call[s] /\ org' = org /\ call[s] \in Calls /\ CallFits(call[s])
        BY <2>1 DEF Expire, AnswerInv, TypeOK
      <4>2. call[s].op \in {"accept", "decline", "revoke"} =>
              call[s].org \in Orgs /\ call[s].addr \in Addresses
        BY <4>1, CallShapes
      <4>3. QED
        BY <3>1, <4>1, <4>2 DEF CallFits
    <3>4. QED
      BY <3>2, <3>3 DEF AnswerInv
  <2>2. CASE UNCHANGED vars
    BY <2>2 DEF vars, AnswerInv, AcceptedByOnlyWhenAccepted, CallFits
  <2>3. QED
    BY <2>1, <2>2, StartAnswers, ContinueAnswers DEF Next
<1>3. QED
  BY <1>1, <1>2, TypeCorrect, PTL DEF Spec

\* Of calls that run one at a time: no row says both that somebody took an
\* offer up and that it was declined or withdrawn.
THEOREM AnsweredOnce == ASSUME OneAtATime PROVE Spec => []AcceptedByOnlyWhenAccepted
<1>1. AnswerInv => AcceptedByOnlyWhenAccepted
  BY DEF AnswerInv
<1>2. QED
  BY <1>1, AnswerInvariant, PTL

\* Of calls that run one at a time: while an organization is archived nobody
\* joins it, no role changes, and no offer is made, taken up or withdrawn.
THEOREM ArchiveKept == ASSUME OneAtATime PROVE Spec => ArchivedStaysAsItWas
<1> DEFINE Stays(o) == /\ \A u \in Users : role'[o][u] \in {role[o][u], "none"}
                       /\ \A a \in Addresses :
                             inv'[o][a].status \in {inv[o][a].status, "Declined"}
<1>1. AnswerInv /\ [Next]_vars =>
        [\A o \in Orgs : org[o] = "archived" /\ org'[o] = "archived" => Stays(o)]_vars
  <2> SUFFICES ASSUME AnswerInv, Next, NEW o \in Orgs, org[o] = "archived"
               PROVE  Stays(o)
    BY DEF vars
  <2> USE DEF AnswerInv, TypeOK
  <2>1. CASE UNCHANGED <<role, inv>>
    BY <2>1
  <2>2. ASSUME NEW p \in Orgs, NEW a \in Addresses, Expire(p, a) PROVE Stays(o)
    BY <2>2 DEF Expire, Invitation
  <2>3. ASSUME NEW s \in Sessions, StartCall(s) PROVE Stays(o)
    <3>1. ASSUME NEW u \in Users, NEW p \in Orgs, AddOrganization(s, u, p) PROVE Stays(o)
      BY <3>1 DEF AddOrganization
    <3>2. (\E u \in Users, p \in Orgs : AddOrganization(s, u, p)) \/ UNCHANGED <<role, inv>>
      BY <2>3, StartForms DEF SetUserEnabled
    <3>3. QED
      BY <2>1, <3>1, <3>2
  <2>4. ASSUME NEW s \in Sessions, ContinueCall(s) PROVE Stays(o)
    <3>1. call[s] \in Calls /\ CallFits(call[s])
      OBVIOUS
    <3>2. CASE InviteCommit(s) \/ AcceptCommit(s) \/ RoleCommit(s) \/ RevokeCommit(s)
      <4>1. call[s].org # o
        BY <3>1, <3>2, CallShapes DEF InviteCommit, AcceptCommit, RoleCommit, RevokeCommit, CallFits
      <4>2. role'[o] = role[o] /\ inv'[o] = inv[o]
        BY <3>2, <4>1 DEF InviteCommit, AcceptCommit, RoleCommit, RevokeCommit
      <4>3. QED
        BY <4>2
    <3>3. CASE DeclineCommit(s)
      <4>1. call[s] \in DeclineCall
        BY <3>1, <3>3, CallShapes DEF DeclineCommit
      <4>2. QED
        BY <3>3, <4>1 DEF DeclineCommit, Invitation
    <3>4. CASE LeaveCommit(s)
      <4>1. call[s] \in LeaveCall
        BY <3>1, <3>4, CallShapes DEF LeaveCommit
      <4>2. QED
        BY <3>4, <4>1 DEF LeaveCommit
    <3>5. CASE UNCHANGED <<role, inv>>
      BY <2>1, <3>5
    <3>6. QED
      BY <2>4, <3>2, <3>3, <3>4, <3>5 DEF ContinueCall, InviteGuard, AcceptGuard, RevokeGuard,
         RoleGuard, LeaveGuard, Guards, EnableCommit
  <2>5. QED
    BY <2>2, <2>3, <2>4 DEF Next
<1>2. QED
  BY <1>1, AnswerInvariant, PTL DEF Spec, ArchivedStaysAsItWas
=============================================================================

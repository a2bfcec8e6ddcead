------------------------------ MODULE Handlers ------------------------------
(***************************************************************************)
(* What the handlers of main-api that ask the provider about one account   *)
(* have in common.  The API keeps nothing: every handler asks, decides on  *)
(* what it was told, and asks again.  A step is one request to the         *)
(* provider, and the requests of two callers interleave between them.  An  *)
(* entry of the security log is written with the answer that calls for it, *)
(* since no handler here reads the log; record() swallows its failures.    *)
(***************************************************************************)
EXTENDS KeycloakAdmin

CONSTANTS
    Callers,    \* requests to main-api being served at the same time
    None,       \* no provider, no passkey
    Desks,      \* bound: sets of operations, of which the requests are for one
    MaxAsked,   \* bound: requests to main-api
    MaxElsewhere \* bound: changes of the account at Keycloak itself

ASSUME NothingAssumption == None \notin Aliases \union Passkeys \union Devices \union Factors
ASSUME BoundAssumption == MaxAsked \in Nat /\ MaxElsewhere \in Nat

VARIABLES
    desk,       \* bound: the operations that are asked for
    asked,      \* bound: how many requests were made
    elsewhere,  \* bound: changes of the account at Keycloak itself
    call,       \* what each request is in the middle of
    log,        \* entries of the security log
    happened,   \* history: what the provider has seen happen to the account
    calm,       \* history: no two disconnections were about to unlink at once
    mails,      \* history: addresses the account was given
    raced       \* history: an address was set while the account was being rewritten

ledger == <<log, happened>>
mail == <<mails, raced>>
vars == <<account, desk, asked, elsewhere, call, ledger, calm, mail>>

-----------------------------------------------------------------------------
Ops == {"methods", "disconnect", "connected", "passkeys", "added", "remove",
        "password", "email", "factors", "enabled", "disable", "enroll", "recover"}
Steps == {"none", "links", "hasPassword", "unlink", "again", "draw", "keys",
          "removeKey", "verify", "set", "sessions", "end", "setEmail",
          "credentials", "attributes", "removeApp", "user", "write", "answered"}

Call == [op : Ops \union {"none"}, at : Steps,
         what : Aliases \union Passkeys \union Devices \union Factors \union {None},
         seen : SUBSET Factors,         \* the factors that are to go
         doomed : SUBSET (Devices \union Factors), \* and those, or sessions, not yet gone
         skipped : BOOLEAN,             \* one of them would not end
         counted : BOOLEAN,             \* the answer has a number of sessions, not null
         version : 0 .. MaxPasswords,   \* the password that was set
         asRead : 0 .. MaxEmails]       \* the address the account was read with
Request(op, step, what) ==
    [op |-> op, at |-> step, what |-> what, seen |-> {}, doomed |-> {},
     skipped |-> FALSE, counted |-> FALSE, version |-> 0, asRead |-> 0]
Idle == Request("none", "none", None)

Fact == [what : {"connected", "disconnected", "added", "removed"},
         of : Aliases \union Passkeys]
          \union [what : {"enabled", "disabled"}, of : Factors]
          \union [what : {"password"}, of : 1 .. MaxPasswords]
fact(what, of) == [what |-> what, of |-> of]

TypeOK ==
    /\ AdminTypeOK
    /\ asked \in 0 .. MaxAsked /\ elsewhere \in 0 .. MaxElsewhere /\ desk \in Desks
    /\ call \in [Callers -> Call]
    /\ log \subseteq Fact /\ happened \subseteq Fact
    /\ calm \in BOOLEAN /\ raced \in BOOLEAN /\ mails \in 1 .. MaxEmails

Init ==
    /\ AdminInit
    /\ asked = 0 /\ elsewhere = 0 /\ desk \in Desks
    /\ call = [c \in Callers |-> Idle]
    /\ log = {}
    /\ happened = {fact("connected", a) : a \in linked}
                    \union {fact("enabled", f) : f \in factors}
    /\ calm = TRUE /\ raced = FALSE /\ mails = 1

-----------------------------------------------------------------------------
At(c, step) == call[c].at = step
GoTo(c, step) == call' = [call EXCEPT ![c].at = step]
Fails(c) == call' = [call EXCEPT ![c] = Idle]
Ends(c) == Fails(c)

FirstStep(op) ==
    CASE op \in {"methods", "disconnect", "connected"} -> "links"
      [] op \in {"passkeys", "added", "remove"} -> "keys"
      [] op \in {"password", "recover"} -> "verify"
      [] op \in {"factors", "enabled", "disable"} -> "credentials"
      [] op = "enroll" -> "user"
      [] op = "email" -> "setEmail"

\* What a request is about: a provider, a passkey, a factor, or the session it
\* came on.
About(op) ==
    CASE op \in {"disconnect", "connected"} -> Aliases
      [] op = "remove" -> Passkeys
      [] op = "password" -> Devices
      [] op \in {"enabled", "disable"} -> Factors
      [] OTHER -> {None}

\* Every handler first finds the account the token, or the card, names.  For a
\* texted code and a recovery code, see OneTimeSecrets: the one is spent before
\* any request to the provider but this, the other after the password.
Start(c, op, what, how) ==
    /\ op \in desk
    /\ call[c].at \in {"none", "answered"}
    /\ asked < MaxAsked /\ asked' = asked + 1
    /\ call' = [call EXCEPT ![c] =
                  IF how = "done" THEN Request(op, FirstStep(op), what) ELSE Idle]
    /\ UNCHANGED <<account, ledger, calm, mail>>

Records(entry) == log' = log \union {entry}
Sees(entry) == happened' = happened \union {entry}
=============================================================================

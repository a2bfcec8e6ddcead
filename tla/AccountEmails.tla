---------------------------- MODULE AccountEmails ----------------------------
(***************************************************************************)
(* The email addresses of accounts: dbo."UserEmails" and its functions,    *)
(* dbo."ProvisionUser" and the guard that calls it with the address on an  *)
(* access token, the emails service, and the identity provider's own copy  *)
(* of the address an account logs in with.                                 *)
(*                                                                         *)
(* Every function is one READ COMMITTED transaction that locks nothing it  *)
(* only reads: it looks, and then writes by key, and others commit between *)
(* the two.  The change of the primary address is three steps, because the *)
(* statement that clears the old one has a snapshot of its own, and then a *)
(* call to the provider after the commit.                                  *)
(***************************************************************************)
EXTENDS FiniteSets, Naturals

CONSTANTS
    Accounts,
    Addresses,      \* folded to lower case
    Sessions,       \* requests being served at the same time
    MaxHeld,        \* the ten addresses an account can hold
    None,           \* the empty Users."Email"
    MaxMade,        \* bound: row keys and secrets ever made
    MaxTokens,      \* bound: access tokens that may still be used
    MaxTime         \* bound: seconds

ASSUME ConstantsAssumption ==
    /\ None \notin Addresses
    /\ MaxHeld \in Nat \ {0} /\ MaxTime \in Nat \ {0}
    /\ MaxMade \in Nat /\ MaxTokens \in Nat

VARIABLES
    clock,      \* in whole seconds, as an access token counts them
    account,    \* whether a subject has its Users row, made or claimed
    email,      \* Users."Email"
    row,        \* UserEmails, whose addresses are unique
    made,       \* the last row key or verification token that was made
    provider,   \* the provider's address of each account
    tokens,     \* access tokens that may still be used
    mails,      \* verification links that were sent
    call,       \* what each request is in the middle of
    calm,       \* history: no two transactions have overlapped so far
    evidence,   \* history: who has proved, or was vouched for, to read what
    contested,  \* history: accounts whose login address another one holds
    chosenAt    \* history: when the transaction began by which each account last
                \* chose a primary address

copies == <<account, email, row>>
history == <<calm, evidence, contested, chosenAt>>
vars == <<clock, copies, made, provider, tokens, mails, call, history>>

-----------------------------------------------------------------------------
Keys == 1 .. MaxMade
Times == 1 .. MaxTime

\* A key of 0 is no row.  The secret is the token of a link that may still be
\* followed, or 0.  The last change is stamped with the start of the transaction
\* that made it, an instant within its second.
Row == [key : Keys, of : Accounts, primary : BOOLEAN, verified : BOOLEAN,
        secret : Keys \union {0}, changed : Times]
NoRow == [key |-> 0]

Token == [of : Accounts, email : Addresses, verified : BOOLEAN, iat : Times]
Link == [of : Accounts, email : Addresses, secret : Keys]

Idle == [op |-> "idle"]
ProvisionCall == [op : {"provision"}, at : {"asked", "guarded"}, token : Token,
                  known : BOOLEAN, stale : BOOLEAN, began : Times]
AddCall == [op : {"add"}, of : Accounts, email : Addresses, began : Times]
RowCall == [op : {"resend", "verify", "remove"}, of : Accounts, key : Keys, began : Times]
PrimaryCall == [op : {"primary"}, at : {"guarded", "clearing", "provider"},
                of : Accounts, key : Keys, email : Addresses, seen : SUBSET Keys,
                began : Times]
Calls == {Idle} \union ProvisionCall \union AddCall \union RowCall \union PrimaryCall

TypeOK ==
    /\ clock \in Times /\ made \in Keys \union {0}
    /\ account \in [Accounts -> BOOLEAN]
    /\ email \in [Accounts -> Addresses \union {None}]
    /\ row \in [Addresses -> Row \union {NoRow}]
    /\ provider \in [Accounts -> [email : Addresses, verified : BOOLEAN]]
    /\ tokens \subseteq Token /\ mails \subseteq Link
    /\ call \in [Sessions -> Calls]
    /\ calm \in BOOLEAN
    /\ evidence \subseteq Accounts \X Addresses
    /\ contested \subseteq Accounts
    /\ chosenAt \in [Accounts -> Times \union {0}]

Init ==
    /\ clock = 1 /\ made = 0
    /\ account = [u \in Accounts |-> FALSE]
    /\ email = [u \in Accounts |-> None]
    /\ row = [a \in Addresses |-> NoRow]
    /\ \E at \in [Accounts -> Addresses] :
          /\ \A u, v \in Accounts : at[u] = at[v] => u = v
          /\ provider = [u \in Accounts |-> [email |-> at[u], verified |-> FALSE]]
    /\ tokens = {} /\ mails = {}
    /\ call = [s \in Sessions |-> Idle]
    /\ calm = TRUE /\ evidence = {} /\ contested = {}
    /\ chosenAt = [u \in Accounts |-> 0]

-----------------------------------------------------------------------------
Held(u) == {a \in Addresses : row[a] # NoRow /\ row[a].of = u}
Primaries(u) == {a \in Held(u) : row[a].primary}
IsFree(a) == row[a] = NoRow

Starts(s, c) == call[s] = Idle /\ call' = [call EXCEPT ![s] = c]
Ends(s) == call' = [call EXCEPT ![s] = Idle]

\* A transaction is open from its first read to its commit.
IsOpen(c) ==
    \/ c.op \in {"add", "resend", "verify", "remove"}
    \/ c.op = "provision" /\ c.at = "guarded"
    \/ c.op = "primary" /\ c.at # "provider"

Begins == calm' = (calm /\ ~\E s \in Sessions : IsOpen(call[s]))

\* The row of a given key, if it is still there.
Having(key) == {a \in Addresses : ~IsFree(a) /\ row[a].key = key}

-----------------------------------------------------------------------------
(* Time, and the identity provider.                                        *)

Tick ==
    /\ clock < MaxTime
    /\ clock' = clock + 1
    /\ UNCHANGED <<copies, made, provider, tokens, mails, call, history>>

\* A login or a refresh.
Mints(u) ==
    /\ Cardinality(tokens) < MaxTokens
    /\ tokens' = tokens \union {[of |-> u, email |-> provider[u].email,
                                 verified |-> provider[u].verified, iat |-> clock]}
    /\ UNCHANGED <<clock, copies, made, provider, mails, call, history>>

TokenExpires(t) ==
    /\ tokens' = tokens \ {t}
    /\ UNCHANGED <<clock, copies, made, provider, mails, call, history>>

IsTakenAtProvider(u, a) == \E v \in Accounts \ {u} : provider[v].email = a

\* Somebody edits their account at the provider itself, which may then confirm
\* the address by a mail of its own.
ProviderChanges(u, a, verified) ==
    /\ ~IsTakenAtProvider(u, a)
    /\ provider' = [provider EXCEPT ![u] = [email |-> a, verified |-> verified]]
    /\ UNCHANGED <<clock, copies, made, tokens, mails, call, history>>

\* A link is good for 24 hours.  The row keeps the token, which opens nothing.
LinkExpires(a) ==
    /\ ~IsFree(a) /\ row[a].secret # 0
    /\ row' = [row EXCEPT ![a].secret = 0]
    /\ UNCHANGED <<clock, account, email, made, provider, tokens, mails, call, history>>

-----------------------------------------------------------------------------
(* AuthenticationGuard and dbo."ProvisionUser".                            *)

\* The guard reads the account, and provisions only what is not current.
current(t) == account[t.of] /\ email[t.of] = t.email

Authenticate(s, t) ==
    /\ ~current(t)
    /\ Starts(s, [op |-> "provision", at |-> "asked", token |-> t,
                  known |-> account[t.of], stale |-> FALSE, began |-> clock])
    /\ UNCHANGED <<clock, copies, made, provider, tokens, mails, history>>

\* Mutant: the instants are compared as the seconds the token counts in.
PredatesInSeconds(t) == \E a \in Primaries(t.of) : row[a].changed > t.iat

\* _TokenPredatesTheAddress.  The token's second is a whole one, so a change
\* within it is later than the stamp.
Predates(t) == \E a \in Primaries(t.of) : row[a].changed >= t.iat

ProvisionGuard(s) ==
    /\ call[s].op = "provision" /\ call[s].at = "asked"
    /\ LET t == call[s].token
       IN  call' = [call EXCEPT ![s].at = "guarded", ![s].known = account[t.of],
                                ![s].stale = Predates(t), ![s].began = clock]
    /\ Begins
    /\ UNCHANGED <<clock, copies, made, provider, tokens, mails, evidence, contested, chosenAt>>

\* The row of the token's address: a new one, or the account's own, which the
\* provider's claim may verify and never unverifies.
Vouched(t, key, began) ==
    IF IsFree(t.email)
    THEN [key |-> key, of |-> t.of, primary |-> TRUE, verified |-> t.verified,
          secret |-> 0, changed |-> began]
    ELSE [row[t.email] EXCEPT
             !.primary = TRUE, !.changed = began, !.verified = @ \/ t.verified,
             !.secret = IF ~row[t.email].verified /\ t.verified THEN 0 ELSE @]

\* The address list follows the token: its address becomes the primary one,
\* unless the row is another account's, which keeps it.
FollowsToken(t, began) ==
    IF ~IsFree(t.email) /\ row[t.email].of # t.of
    THEN /\ contested' = contested \union {t.of}
         /\ UNCHANGED <<row, made, evidence>>
    ELSE /\ IsFree(t.email) => made < MaxMade
         /\ made' = IF IsFree(t.email) THEN made + 1 ELSE made
         /\ row' = [a \in Addresses |->
               CASE a = t.email -> Vouched(t, made + 1, began)
                 [] a \in Primaries(t.of) \ {t.email} ->
                       [row[a] EXCEPT !.primary = FALSE, !.changed = began]
                 [] OTHER -> row[a]]
         /\ contested' = contested \ {t.of}
         /\ evidence' = IF t.verified
                        THEN evidence \union {<<t.of, t.email>>} ELSE evidence

\* A first sign-in that another request has completed by now only fails.
ProvisionCommit(s) ==
    /\ call[s].op = "provision" /\ call[s].at = "guarded"
    /\ call[s].known = account[call[s].token.of]
    /\ LET t == call[s].token
       IN  /\ account' = [account EXCEPT ![t.of] = TRUE]
           /\ IF call[s].stale THEN UNCHANGED <<email, row, made, evidence, contested>>
              ELSE /\ email' = [email EXCEPT ![t.of] = t.email]
                   /\ FollowsToken(t, call[s].began)
    /\ Ends(s)
    /\ UNCHANGED <<clock, provider, tokens, mails, calm, chosenAt>>

-----------------------------------------------------------------------------
(* Adding an address, and the link that verifies it.                       *)

AddGuard(s, u, a) ==
    /\ account[u]
    /\ Cardinality(Held(u)) < MaxHeld /\ IsFree(a)
    /\ made < MaxMade
    /\ Starts(s, [op |-> "add", of |-> u, email |-> a, began |-> clock])
    /\ Begins
    /\ UNCHANGED <<clock, copies, made, provider, tokens, mails, evidence, contested, chosenAt>>

\* The message goes out after the commit, whether or not it arrives.
AddCommit(s) ==
    /\ call[s].op = "add"
    /\ LET u == call[s].of
           a == call[s].email
           k == made + 1
       IN  IF IsFree(a)
           THEN /\ made < MaxMade /\ made' = k
                /\ row' = [row EXCEPT ![a] =
                       [key |-> k, of |-> u, primary |-> FALSE, verified |-> FALSE,
                        secret |-> k, changed |-> call[s].began]]
                /\ mails' = mails \union {[of |-> u, email |-> a, secret |-> k]}
           ELSE UNCHANGED <<made, row, mails>>
    /\ Ends(s)
    /\ UNCHANGED <<clock, account, email, provider, tokens, history>>

ResendGuard(s, u, a) ==
    /\ account[u] /\ a \in Held(u) /\ ~row[a].verified
    /\ made < MaxMade
    /\ Starts(s, [op |-> "resend", of |-> u, key |-> row[a].key, began |-> clock])
    /\ Begins
    /\ UNCHANGED <<clock, copies, made, provider, tokens, mails, evidence, contested, chosenAt>>

ResendCommit(s) ==
    /\ call[s].op = "resend"
    /\ LET k == made + 1
       IN  /\ made < MaxMade /\ made' = k
           /\ row' = [a \in Addresses |->
                 IF a \in Having(call[s].key)
                 THEN [row[a] EXCEPT !.secret = k, !.changed = call[s].began] ELSE row[a]]
           /\ mails' = mails \union
                 {[of |-> call[s].of, email |-> a, secret |-> k] : a \in Having(call[s].key)}
    /\ Ends(s)
    /\ UNCHANGED <<clock, account, email, provider, tokens, history>>

\* Mutant: a link verifies its address for whoever holds the row by now.
RowOfLinkByAddress(m) == {a \in Addresses : ~IsFree(a) /\ a = m.email}

RowOfLink(m) == {a \in Addresses : ~IsFree(a) /\ row[a].secret = m.secret}

\* Whoever opens the mailbox follows the link; no login is asked for.
VerifyGuard(s, m) ==
    /\ \E a \in RowOfLink(m) :
          Starts(s, [op |-> "verify", of |-> row[a].of, key |-> row[a].key,
                     began |-> clock])
    /\ Begins
    /\ evidence' = evidence \union {<<m.of, m.email>>}
    /\ UNCHANGED <<clock, copies, made, provider, tokens, mails, contested, chosenAt>>

VerifyCommit(s) ==
    /\ call[s].op = "verify"
    /\ row' = [a \in Addresses |->
           IF a \in Having(call[s].key)
           THEN [row[a] EXCEPT !.verified = TRUE, !.secret = 0, !.changed = call[s].began]
           ELSE row[a]]
    /\ Ends(s)
    /\ UNCHANGED <<clock, account, email, made, provider, tokens, mails, history>>

-----------------------------------------------------------------------------
(* Choosing the primary address, and removing one.                         *)

\* Mutant: an address nobody has verified may become the login.
MayBecomePrimaryUnverified(u, a) == a \in Held(u)

MayBecomePrimary(u, a) == a \in Held(u) /\ row[a].verified

PrimaryGuard(s, u, a) ==
    /\ account[u] /\ MayBecomePrimary(u, a)
    /\ Starts(s, [op |-> "primary", at |-> "guarded", of |-> u, key |-> row[a].key,
                  email |-> a, seen |-> {}, began |-> clock])
    /\ Begins
    /\ UNCHANGED <<clock, copies, made, provider, tokens, mails, evidence, contested, chosenAt>>

\* The statement that clears the flag starts: the rows it will look at again.
PrimaryClear(s) ==
    /\ call[s].op = "primary" /\ call[s].at = "guarded"
    /\ call' = [call EXCEPT ![s].at = "clearing",
                            ![s].seen = {row[a].key : a \in Primaries(call[s].of)}]
    /\ UNCHANGED <<clock, copies, made, provider, tokens, mails, history>>

\* Mutant: only the new flag is set.
ChosenBeside(c) ==
    [a \in Addresses |->
        IF a \in Having(c.key)
        THEN [row[a] EXCEPT !.primary = TRUE, !.changed = c.began] ELSE row[a]]

\* Rows the snapshot had and that are primary still are cleared, then one set.
Chosen(c) ==
    [a \in Addresses |->
        CASE a \in Having(c.key) ->
                [row[a] EXCEPT !.primary = TRUE, !.changed = c.began]
          [] row[a] # NoRow /\ row[a].key \in c.seen \ {c.key} /\ row[a].primary ->
                [row[a] EXCEPT !.primary = FALSE, !.changed = c.began]
          [] OTHER -> row[a]]

\* A row that is gone by now is not in the list the function answers with,
\* and the provider is told nothing.
PrimaryCommit(s) ==
    /\ call[s].op = "primary" /\ call[s].at = "clearing"
    /\ LET u == call[s].of
       IN  /\ row' = Chosen(call[s])
           /\ email' = [email EXCEPT ![u] = call[s].email]
           /\ contested' = contested \ {u}
           /\ chosenAt' = [chosenAt EXCEPT ![u] = call[s].began]
           /\ IF Having(call[s].key) # {}
              THEN call' = [call EXCEPT ![s].at = "provider"] ELSE Ends(s)
    /\ UNCHANGED <<clock, account, made, provider, tokens, mails, calm, evidence>>

setEmail(s) ==
    /\ call[s].op = "primary" /\ call[s].at = "provider"
    /\ ~IsTakenAtProvider(call[s].of, call[s].email)
    /\ provider' = [provider EXCEPT ![call[s].of] =
                       [email |-> call[s].email, verified |-> TRUE]]
    /\ Ends(s)
    /\ UNCHANGED <<clock, copies, made, tokens, mails, history>>

RemoveGuard(s, u, a) ==
    /\ account[u] /\ a \in Held(u) /\ ~row[a].primary
    /\ Starts(s, [op |-> "remove", of |-> u, key |-> row[a].key, began |-> clock])
    /\ Begins
    /\ UNCHANGED <<clock, copies, made, provider, tokens, mails, evidence, contested, chosenAt>>

RemoveCommit(s) ==
    /\ call[s].op = "remove"
    /\ row' = [a \in Addresses |->
                  IF a \in Having(call[s].key) THEN NoRow ELSE row[a]]
    /\ Ends(s)
    /\ UNCHANGED <<clock, account, email, made, provider, tokens, mails, history>>

\* A statement fails (the insert of a row that another request has inserted
\* by now does), the process stops, or the provider refuses.
Fails(s) ==
    /\ call[s] # Idle
    /\ Ends(s)
    /\ UNCHANGED <<clock, copies, made, provider, tokens, mails, history>>

-----------------------------------------------------------------------------
SessionSteps(s) ==
    \/ \E t \in tokens : Authenticate(s, t)
    \/ ProvisionGuard(s) \/ ProvisionCommit(s)
    \/ \E u \in Accounts, a \in Addresses :
          AddGuard(s, u, a) \/ ResendGuard(s, u, a) \/ PrimaryGuard(s, u, a)
            \/ RemoveGuard(s, u, a)
    \/ \E m \in mails : VerifyGuard(s, m)
    \/ AddCommit(s) \/ ResendCommit(s) \/ VerifyCommit(s) \/ RemoveCommit(s)
    \/ PrimaryClear(s) \/ PrimaryCommit(s) \/ setEmail(s)
    \/ Fails(s)

ProviderSteps ==
    \/ \E u \in Accounts : Mints(u)
    \/ \E t \in tokens : TokenExpires(t)
    \/ \E u \in Accounts, a \in Addresses, v \in BOOLEAN : ProviderChanges(u, a, v)

Next ==
    \/ \E s \in Sessions : SessionSteps(s)
    \/ ProviderSteps
    \/ \E a \in Addresses : LinkExpires(a)
    \/ Tick

Spec == Init /\ [][Next]_vars

-----------------------------------------------------------------------------
(* Properties.                                                             *)

\* VerifyUserEmail, SetPrimaryUserEmail: in any interleaving, an address that
\* is verified for an account, or on its way to be its login at the provider,
\* was proved by a link mailed for that account or vouched for by its token.
VerifiedByProof ==
    /\ \A a \in Addresses :
          (row[a] # NoRow /\ row[a].verified) => <<row[a].of, a>> \in evidence
    /\ \A s \in Sessions :
          call[s].op = "primary" => <<call[s].of, call[s].email>> \in evidence

\* "The primary row and that column are kept saying the same thing": until
\* transactions overlap, an account has one primary address, the one in
\* Users."Email", unless the token's address is a row of another account.
AddressesAgree ==
    calm => \A u \in Accounts : account[u] =>
        /\ Cardinality(Primaries(u)) <= 1
        /\ u \notin contested => Primaries(u) = {email[u]}

\* "A token cannot tell us about a change it predates": until transactions
\* overlap, a token minted before the transaction began in which the account
\* last chose its primary address, in the same second even, moves neither copy
\* of it back.  (One minted while that transaction was open, in a later second,
\* is as old as the choice and does move them: the change carries the start.)
StaleTokenIgnored ==
    [][calm' => \A s \in Sessions, u \in Accounts :
         (/\ call[s].op = "provision" /\ call'[s] = Idle
          /\ call[s].token.of = u /\ call[s].token.iat <= chosenAt[u]) =>
             email'[u] = email[u] /\ Primaries(u)' = Primaries(u)]_vars
=============================================================================

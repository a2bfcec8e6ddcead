------------------------------- MODULE WaysIn -------------------------------
(***************************************************************************)
(* What main-api does about the ways into one account: the providers it is *)
(* connected to (SingleSignOnService), its passkeys (PasskeysService), its *)
(* password and the sessions under it (PasswordChangeService), its address *)
(* and its second factors (SecondFactors).                                 *)
(***************************************************************************)
EXTENDS SecondFactors

-----------------------------------------------------------------------------
(* Single sign-on: methods, disconnect, confirm.                           *)

\* Mutant: one provider fewer is thought to be left.
OnlyWayInLate(has) == has = {}

\* With one provider left, the password is what would let its owner in.
OnlyWayIn(has) == Cardinality(has) = 1

\* Mutant: what the URL claims is written down.
ConfirmedByUrl(alias, has) == TRUE

Confirmed(alias, has) == alias \in has

\* draw() asks for the password only when there is a provider to take away.
DrawsWith(c, has) == IF has = {} THEN Ends(c) ELSE GoTo(c, "draw")

\* Disconnections that have been allowed, and have not happened yet.
unlinking == {c \in Callers : At(c, "unlink")}

\* Two requests sent together, of which the one for the realm's providers only
\* gives a name: this is done when both are, at the time the other was answered.
LinksRead(c, how) ==
    /\ At(c, "links")
    /\ LET has == linkedLogins(how)
           alias == call[c].what
       IN  CASE how # "done" -> Fails(c) /\ UNCHANGED log
             [] how = "done" /\ call[c].op = "methods" -> DrawsWith(c, has) /\ UNCHANGED log
             [] how = "done" /\ call[c].op = "connected" ->
                  /\ IF Confirmed(alias, has) THEN Records(fact("connected", alias))
                                              ELSE UNCHANGED log
                  /\ DrawsWith(c, has)
             [] how = "done" /\ call[c].op = "disconnect" ->
                  /\ IF alias \notin has THEN Fails(c)
                     ELSE GoTo(c, IF OnlyWayIn(has) THEN "hasPassword" ELSE "unlink")
                  /\ UNCHANGED log
    /\ calm' = (calm /\ (call'[c].at = "unlink" => unlinking = {}))
    /\ UNCHANGED <<account, asked, happened, mail>>

PasswordRead(c, how) ==
    /\ At(c, "hasPassword")
    /\ IF ~Throws(how) /\ hasPassword(how) THEN GoTo(c, "unlink") ELSE Fails(c)
    /\ UNCHANGED <<account, asked, ledger, calm, mail>>

\* A provider that is not there any more is disconnected as well (404).
Unlink(c, how) ==
    /\ At(c, "unlink")
    /\ LET gone == fact("disconnected", call[c].what)
       IN  /\ unlinkLogin(call[c].what, how)
           /\ IF HappensAtProvider(how) THEN Sees(gone) ELSE UNCHANGED happened
           /\ IF how = "done" THEN Records(gone) /\ GoTo(c, "again")
                              ELSE Fails(c) /\ UNCHANGED log
    /\ UNCHANGED <<age, password, open, email, factors, asked, calm, mail>>

LinksAgain(c, how) ==
    /\ At(c, "again")
    /\ IF how = "done" THEN DrawsWith(c, linked) ELSE Fails(c)
    /\ UNCHANGED <<account, asked, ledger, calm, mail>>

\* The read that ends a handler, and only shapes its answer.
Draw(c, how) ==
    /\ At(c, "draw")
    /\ Ends(c)
    /\ UNCHANGED <<account, asked, ledger, calm, mail>>

-----------------------------------------------------------------------------
(* Passkeys: list, confirm, remove.                                        *)

JustRegistered(key) == age[key] = "fresh"

KeysRead(c, how) ==
    /\ At(c, "keys")
    /\ LET held == passkeys(how)
           fresh == {k \in held : JustRegistered(k)}
       IN  CASE call[c].op = "passkeys" -> Ends(c) /\ UNCHANGED log
             [] call[c].op = "added" ->
                  /\ Ends(c)
                  /\ IF fresh = {} THEN UNCHANGED log
                     ELSE \E k \in fresh : Records(fact("added", k))
             [] call[c].op = "remove" ->
                  /\ IF call[c].what \in held THEN GoTo(c, "removeKey") ELSE Fails(c)
                  /\ UNCHANGED log
    /\ UNCHANGED <<account, asked, happened, calm, mail>>

RemoveKey(c, how) ==
    /\ At(c, "removeKey")
    /\ LET gone == fact("removed", call[c].what)
       IN  /\ removePasskey(call[c].what, how)
           /\ IF HappensAtProvider(how) THEN Sees(gone) ELSE UNCHANGED happened
           /\ IF how = "done" THEN Records(gone) /\ GoTo(c, "draw")
                              ELSE Fails(c) /\ UNCHANGED log
    /\ UNCHANGED <<linked, password, open, email, factors, asked, calm, mail>>

-----------------------------------------------------------------------------
(* The password: change; a recovery code asks for it as well.              *)

\* The wrong password and an outage both end it here.
\* A recovery code that is not right, or used before, ends it as well.
Verify(c, right, id, ended) ==
    /\ At(c, "verify")
    /\ right => password # 0
    /\ ended \/ \A o \in open : o.id # id
    /\ verifyPassword(right, id, ended)
    /\ CASE ~right -> Fails(c)
         [] right /\ call[c].op = "password" -> GoTo(c, "set")
         [] right /\ call[c].op = "recover" -> GoTo(c, "credentials") \/ Fails(c)
    /\ UNCHANGED <<linked, age, password, email, factors, asked, ledger, calm, mail>>

SetPassword(c, how) ==
    /\ At(c, "set") /\ (HappensAtProvider(how) => password < MaxPasswords)
    /\ setPassword(how)
    /\ LET set == fact("password", password + 1)
       IN  /\ IF HappensAtProvider(how) THEN Sees(set) ELSE UNCHANGED happened
           /\ IF how = "done"
              THEN /\ Records(set)
                   /\ call' = [call EXCEPT ![c].at = "sessions", ![c].version = password + 1]
              ELSE Fails(c) /\ UNCHANGED log
    /\ UNCHANGED <<linked, age, open, email, factors, asked, calm, mail>>

\* From here on nothing fails any more: an error makes the number null.
ListSessions(c, how) ==
    /\ At(c, "sessions")
    /\ call' = [call EXCEPT ![c].at = IF how = "done" THEN "end" ELSE "answered",
                            ![c].doomed = IF how = "done" THEN OtherSessions(call[c].what) ELSE {}]
    /\ UNCHANGED <<account, asked, ledger, calm, mail>>

\* Mutant: a session that would not end is counted with the others.
SkipsNone(id, how) == FALSE

\* A session that would not end is passed over.
Skips(id, how) == how = "refused" /\ \E o \in open : o.id = id

\* An answer that does not come stops the loop.
EndOther(c, id, how) ==
    /\ At(c, "end") /\ id \in call[c].doomed
    /\ endSession(id, how)
    /\ call' = IF Throws(how)
               THEN [call EXCEPT ![c].at = "answered", ![c].doomed = {}]
               ELSE [call EXCEPT ![c].doomed = call[c].doomed \ {id},
                                 ![c].skipped = call[c].skipped \/ Skips(id, how)]
    /\ UNCHANGED <<linked, age, password, email, factors, asked, ledger, calm, mail>>

AllEnded(c) ==
    /\ At(c, "end") /\ call[c].doomed = {}
    /\ call' = [call EXCEPT ![c].at = "answered", ![c].counted = TRUE]
    /\ UNCHANGED <<account, asked, ledger, calm, mail>>

-----------------------------------------------------------------------------
SetEmail(c, how) ==
    /\ At(c, "setEmail") /\ (HappensAtProvider(how) => mails < MaxEmails)
    /\ setEmail(mails + 1, how)
    /\ mails' = IF HappensAtProvider(how) THEN mails + 1 ELSE mails
    /\ raced' = (raced \/ \E d \in Callers : At(d, "write"))
    /\ Ends(c)
    /\ UNCHANGED <<linked, age, password, open, factors, asked, ledger, calm>>

-----------------------------------------------------------------------------
AtProvider ==
    /\ elsewhere < MaxElsewhere /\ elsewhere' = elsewhere + 1
    /\ \/ \E a \in Aliases : /\ Connected(a) /\ Sees(fact("connected", a))
                             /\ UNCHANGED <<age, open, factors>>
       \/ \E k \in Passkeys : /\ Registered(k) /\ Sees(fact("added", k))
                              /\ UNCHANGED <<linked, open, factors>>
       \/ \E k \in Passkeys : Ages(k) /\ UNCHANGED <<linked, open, factors, happened>>
       \/ \E id \in Devices : LogsIn(id) /\ UNCHANGED <<linked, age, factors, happened>>
       \/ SetUp /\ Sees(fact("enabled", "app")) /\ UNCHANGED <<linked, age, open>>
    /\ UNCHANGED <<password, email, asked, call, log, calm, mail>>

Continues(c) ==
    \/ \E how \in Outcomes :
          \/ LinksRead(c, how) \/ PasswordRead(c, how) \/ Unlink(c, how)
          \/ LinksAgain(c, how) \/ Draw(c, how)
          \/ KeysRead(c, how) \/ RemoveKey(c, how)
          \/ SetPassword(c, how) \/ ListSessions(c, how)
          \/ \E id \in Devices : EndOther(c, id, how)
          \/ SetEmail(c, how) \/ FactorStep(c, how)
    \/ \E right, ended \in BOOLEAN, id \in Devices : Verify(c, right, id, ended)
    \/ AllEnded(c)

Next ==
    /\ UNCHANGED desk
    /\ \/ AtProvider
       \/ /\ UNCHANGED elsewhere
          /\ \/ \E c \in Callers, op \in Ops, how \in Outcomes :
                   \E what \in About(op) : Start(c, op, what, how)
             \/ \E c \in Callers : Continues(c)

Spec == Init /\ [][Next]_vars

-----------------------------------------------------------------------------
(* Properties.                                                             *)

\* The security log tells what happened: a provider, a passkey or a password is
\* written down only when the provider has really seen it come or go, whatever
\* a URL claims and however requests overlap, fail or go unanswered.
LogIsTrue == log \subseteq happened

\* An account always keeps a way in, as long as no disconnection is allowed on
\* the count of its providers while another that was allowed is still to happen:
\* however else requests overlap, fail or go unanswered, the provider that is its
\* last one is taken away only when it has a password.
KeepsAWayIn == calm => linked # {} \/ password # 0

\* A password change that was answered with a number has left no session open
\* that began under an earlier password, but the one the change was made on and
\* those that would not end.
OldSessionsEnded ==
    \A c \in Callers : call[c].at = "answered" /\ call[c].counted /\ ~call[c].skipped =>
        \A o \in open : o.id = call[c].what \/ o.under >= call[c].version

\* Writing a phone number on the account leaves its address alone, unless the
\* address was changed between reading the account and writing it back.
AddressSurvives == ~raced => email = mails
=============================================================================

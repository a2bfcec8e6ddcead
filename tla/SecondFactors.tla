---------------------------- MODULE SecondFactors ----------------------------
(***************************************************************************)
(* TwoFactorService, the part of it that is about the account at the       *)
(* provider: what stands in front of the password, turning it off, writing *)
(* a phone number that was proved, and a recovery code that takes all of   *)
(* it off.  A phone number is an attribute and everything else on the      *)
(* account is read and written back with it.                               *)
(***************************************************************************)
EXTENDS Handlers

\* secondFactors() is two requests, the credentials and then the attributes.
CredentialsRead(c, how) ==
    /\ At(c, "credentials")
    /\ IF how = "done"
       THEN call' = [call EXCEPT ![c].at = "attributes", ![c].seen = factors \intersect {"app"}]
       ELSE Fails(c)
    /\ UNCHANGED <<account, asked, ledger, calm, mail>>

\* An app is removed by its credential, the number by rewriting the account.
\* The app is first in the list.
RemovalOf(left) == IF "app" \in left THEN "removeApp" ELSE "user"

Removes(c, held) ==
    call' = [call EXCEPT ![c].at = RemovalOf(held), ![c].seen = held, ![c].doomed = held]

\* The handler ends by reading the rows again, which only shapes its answer.
DrawsAgain(c) == call' = [call EXCEPT ![c] = Request("factors", "credentials", None)]

AttributesRead(c, how) ==
    /\ At(c, "attributes")
    /\ LET has == call[c].seen \union (factors \intersect {"sms"})
           asked_for == has \intersect {call[c].what}
       IN  CASE how # "done" \/ call[c].op = "factors" -> Fails(c) /\ UNCHANGED log
             [] how = "done" /\ call[c].op = "enabled" ->
                  /\ IF asked_for = {} THEN UNCHANGED log
                     ELSE Records(fact("enabled", call[c].what))
                  /\ Ends(c)
             [] how = "done" /\ call[c].op = "disable" ->
                  /\ IF asked_for = {} THEN Fails(c) ELSE Removes(c, asked_for)
                  /\ UNCHANGED log
             [] how = "done" /\ call[c].op = "recover" ->
                  /\ IF has = {} THEN Ends(c) ELSE Removes(c, has)
                  /\ UNCHANGED log
    /\ UNCHANGED <<account, asked, happened, calm, mail>>

\* Mutant: the entry is written when the first of them is gone.
WentFirst(c, f) == TRUE

\* The last of the factors that were to go.
Went(c, f) == call[c].doomed = {f}

\* When the last of them is gone the log says so.
Removed(c, f) ==
    /\ log' = IF Went(c, f) THEN log \union {fact("disabled", g) : g \in call[c].seen} ELSE log
    /\ CASE call[c].doomed # {f} ->
              LET left == call[c].doomed \ {f}
              IN  call' = [call EXCEPT ![c].doomed = left, ![c].at = RemovalOf(left)]
         [] call[c].doomed = {f} /\ call[c].op = "disable" -> DrawsAgain(c)
         [] call[c].doomed = {f} /\ call[c].op = "recover" -> Ends(c)

RemoveApp(c, how) ==
    /\ At(c, "removeApp")
    /\ removeSecondFactor(how)
    /\ IF HappensAtProvider(how) THEN Sees(fact("disabled", "app")) ELSE UNCHANGED happened
    /\ IF how = "done" THEN Removed(c, "app") ELSE Fails(c) /\ UNCHANGED log
    /\ UNCHANGED <<linked, age, password, open, email, asked, calm, mail>>

ReadUser(c, how) ==
    /\ At(c, "user")
    /\ IF how = "done" THEN call' = [call EXCEPT ![c].at = "write", ![c].asRead = email]
                       ELSE Fails(c)
    /\ UNCHANGED <<account, asked, ledger, calm, mail>>

WritePhone(c, how) ==
    /\ At(c, "write")
    /\ LET number == call[c].op = "enroll"
           written == fact(IF number THEN "enabled" ELSE "disabled", "sms")
       IN  /\ writePhone(call[c].asRead, number, how)
           /\ IF HappensAtProvider(how) THEN Sees(written) ELSE UNCHANGED happened
           /\ CASE how # "done" -> Fails(c) /\ UNCHANGED log
                [] how = "done" /\ number -> Records(written) /\ DrawsAgain(c)
                [] how = "done" /\ ~number -> Removed(c, "sms")
    /\ UNCHANGED <<linked, age, password, open, asked, calm, mail>>

FactorStep(c, how) ==
    \/ CredentialsRead(c, how) \/ AttributesRead(c, how) \/ RemoveApp(c, how)
    \/ ReadUser(c, how) \/ WritePhone(c, how)
=============================================================================

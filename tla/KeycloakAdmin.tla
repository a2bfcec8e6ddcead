--------------------------- MODULE KeycloakAdmin ---------------------------
(***************************************************************************)
(* KeycloakAdminService: one account at the identity provider, and the     *)
(* calls main-api makes to change it.  A call is one HTTP request, and how *)
(* it goes is one of Outcomes: a call that is "late" was carried out by    *)
(* the provider, but its answer came after the five seconds main-api       *)
(* waits, so to the caller it is the same as "down".                       *)
(* The administration token is left out.  Keycloak may stop knowing it at  *)
(* any time, and then any number of calls already under way, and the first *)
(* after them, are answered 401 or 403, each drops it, and the next call   *)
(* asks for another: so every call may be "refused" in every state.  A     *)
(* token that cannot be had is "down".                                     *)
(***************************************************************************)
EXTENDS FiniteSets, Naturals

CONSTANTS
    Aliases,        \* login providers of the realm
    Passkeys,       \* WebAuthn credentials
    Devices,        \* sessions of the account
    MaxPasswords,   \* bound: passwords the account has, one after the other
    MaxEmails       \* bound: addresses the account has, one after the other

ASSUME AdminAssumption == MaxPasswords \in Nat \ {0} /\ MaxEmails \in Nat \ {0}

VARIABLES
    linked,     \* providers connected to the account
    age,        \* of each passkey; one made within the window is "fresh"
    password,   \* the account's passwords in turn; 0 for none
    open,       \* sessions, each with the password the account had when it began
    email,      \* the account's addresses in turn; 0 for a cleared field
    factors     \* second factors: an authenticator app, a phone number

account == <<linked, age, password, open, email, factors>>

-----------------------------------------------------------------------------
Session == [id : Devices, under : 0 .. MaxPasswords]
Factors == {"app", "sms"}

AdminTypeOK ==
    /\ linked \subseteq Aliases
    /\ age \in [Passkeys -> {"none", "fresh", "old"}]
    /\ password \in 0 .. MaxPasswords
    /\ open \subseteq Session
    /\ email \in 0 .. MaxEmails
    /\ factors \subseteq Factors

\* An account that can be got into, seen on one device or on none.
AdminInit ==
    /\ linked \in SUBSET Aliases /\ password \in {0, 1}
    /\ linked # {} \/ password # 0
    /\ age = [k \in Passkeys |-> "none"]
    /\ \E ids \in SUBSET Devices : open = [id : ids, under : {password}]
    /\ email = 1 /\ factors \in SUBSET Factors

-----------------------------------------------------------------------------
(* How a request goes.                                                     *)

Outcomes == {"done", "refused", "late", "down"}
HappensAtProvider(how) == how \in {"done", "late"}
Throws(how) == how \in {"late", "down"}

-----------------------------------------------------------------------------
(* Reading.  Only a read that was answered says anything, but for two that *)
(* take an error for "no".                                                 *)

linkedLogins(how) == IF how = "done" THEN linked ELSE {}
passkeys(how) == {k \in Passkeys : how = "done" /\ age[k] # "none"}

\* Mutant: an outage is taken for a password.
hasPasswordInDoubt(how) == how # "done" \/ password # 0

hasPassword(how) == how = "done" /\ password # 0

\* The ids endOtherSessions lists, but for the one it keeps.
OtherSessions(keep) == {o.id : o \in open} \ {keep}

-----------------------------------------------------------------------------
(* Writing.  Each says what it does to its part of the account.            *)

unlinkLogin(alias, how) ==
    linked' = IF HappensAtProvider(how) THEN linked \ {alias} ELSE linked

removePasskey(key, how) ==
    age' = IF HappensAtProvider(how) THEN [age EXCEPT ![key] = "none"] ELSE age

setPassword(how) ==
    password' = IF HappensAtProvider(how) THEN password + 1 ELSE password

endSession(id, how) ==
    open' = IF HappensAtProvider(how) THEN {o \in open : o.id # id} ELSE open

\* verifyPassword logs in and ends that session again; when ending it fails,
\* which is not told to anybody, the session stays.
verifyPassword(right, id, ended) ==
    open' = IF right /\ ~ended THEN open \union {[id |-> id, under |-> password]} ELSE open

setEmail(new, how) == email' = IF HappensAtProvider(how) THEN new ELSE email

\* A phone number is a pair of attributes of the account.
phoneWritten(number) ==
    factors' = IF number THEN factors \union {"sms"} ELSE factors \ {"sms"}

\* Mutant: only the attributes are sent, and Keycloak clears what is left out.
writePhoneAlone(asRead, number, how) ==
    IF HappensAtProvider(how) THEN phoneWritten(number) /\ email' = 0
                              ELSE UNCHANGED <<factors, email>>

\* The whole account is sent back as it was read, with the attributes changed.
writePhone(asRead, number, how) ==
    IF HappensAtProvider(how) THEN phoneWritten(number) /\ email' = asRead
                              ELSE UNCHANGED <<factors, email>>

\* An authenticator app is a credential; one that is gone is removed as well.
removeSecondFactor(how) ==
    factors' = IF HappensAtProvider(how) THEN factors \ {"app"} ELSE factors

-----------------------------------------------------------------------------
(* What happens to the account at Keycloak itself.                         *)

\* The end of the linking trip, of an app's set-up and of a registration.
Connected(alias) == alias \notin linked /\ linked' = linked \union {alias}
SetUp == "app" \notin factors /\ factors' = factors \union {"app"}
Registered(key) == age[key] = "none" /\ age' = [age EXCEPT ![key] = "fresh"]

\* Ten minutes pass.
Ages(key) == age[key] = "fresh" /\ age' = [age EXCEPT ![key] = "old"]

\* Somebody logs in on a device, with whatever way in the account has.
LogsIn(id) ==
    /\ \A o \in open : o.id # id
    /\ password # 0 \/ linked # {}
    /\ open' = open \union {[id |-> id, under |-> password]}
=============================================================================

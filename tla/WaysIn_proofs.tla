--------------------------- MODULE WaysIn_proofs ---------------------------
(***************************************************************************)
(* What WaysIn promises, for any number of requests, providers, passkeys   *)
(* and sessions.  A handler acts on what it was told, so the invariant     *)
(* that is inductive follows what each request knows: whatever it was      *)
(* shown of the account has happened to it, the address it is to write     *)
(* back is the account's, and the sessions it is still to end are all the  *)
(* old ones.                                                               *)
(* The last part is about the browser's end of a way in, GuiSession.       *)
(***************************************************************************)
EXTENDS WaysIn, GuiSession, FiniteSetTheorems, TLAPS

\* A handler is only ever at a step of its own, and about what it can be about.
Fits(k) ==
    /\ k.at \notin {"none", "answered"} => k.op \in Ops /\ k.what \in About(k.op)
    /\ k.at = "links" => k.op \in {"methods", "disconnect", "connected"}
    /\ k.at \in {"hasPassword", "unlink", "again"} => k.op = "disconnect"
    /\ k.at = "keys" => k.op \in {"passkeys", "added", "remove"}
    /\ k.at = "removeKey" => k.op = "remove"
    /\ k.at = "verify" => k.op \in {"password", "recover"}
    /\ k.at \in {"set", "sessions", "end"} => k.op = "password"
    /\ k.at \in {"credentials", "attributes"} => k.op \in {"factors", "enabled", "disable", "recover"}
    /\ k.at = "removeApp" => k.op \in {"disable", "recover"}
    /\ k.at \in {"user", "write"} => k.op \in {"enroll", "disable", "recover"}

\* What a request was shown, and what it has taken off, has happened.
KnowsFacts(k) ==
    /\ k.at = "attributes" => \A f \in k.seen : fact("enabled", f) \in happened
    /\ k.at \in {"removeApp", "user", "write"} /\ k.op # "enroll" =>
          \A f \in k.seen \ k.doomed : fact("disabled", f) \in happened

\* An account about to be written back was read with the address it still has.
KnowsAddress(k) == ~raced /\ k.at = "write" => k.asRead = mails

\* Old sessions are still to be ended, unless one would not end.
KnowsSessions(k) ==
    /\ k.version <= password
    /\ k.counted => k.at = "answered"
    /\ (k.at = "end" \/ k.counted) /\ ~k.skipped =>
          \A o \in open : \/ o.id = k.what \/ o.under >= k.version
                          \/ k.at = "end" /\ o.id \in k.doomed

\* What is about to be unlinked is not the last way in.
KnowsWayIn(k) == calm /\ k.at = "unlink" => password # 0 \/ \E a \in linked : a # k.what

Good(k) == k \in Call /\ Fits(k) /\ KnowsFacts(k) /\ KnowsAddress(k) /\ KnowsSessions(k) /\ KnowsWayIn(k)

CallsOK ==
    /\ call \in [Callers -> Call]
    /\ \A c \in Callers : Good(call[c])

BoundsOK ==
    /\ asked \in 0 .. MaxAsked /\ elsewhere \in 0 .. MaxElsewhere /\ desk \in Desks
    /\ calm \in BOOLEAN /\ raced \in BOOLEAN /\ mails \in 1 .. MaxEmails

LedgerOK == happened \subseteq Fact /\ log \subseteq happened

\* Whatever the account has came to it, and the history shows how.
AccountOK ==
    /\ \A a \in linked : fact("connected", a) \in happened
    /\ \A k \in Passkeys : age[k] # "none" => fact("added", k) \in happened
    /\ \A f \in factors : fact("enabled", f) \in happened

\* No other request is about to unlink a provider.
Alone(c) == \A d \in Callers \ {c} : ~At(d, "unlink")

\* Without a password, one at a time is allowed to take a provider away.
OneDisconnects ==
    calm /\ password = 0 => \A c \in Callers : At(c, "unlink") => Alone(c)

IInv ==
    /\ AdminTypeOK /\ BoundsOK /\ CallsOK /\ LedgerOK /\ AccountOK
    /\ OneDisconnects /\ KeepsAWayIn /\ AddressSurvives

-----------------------------------------------------------------------------
(* Requests.                                                               *)

LEMMA Facts ==
    /\ \A a \in Aliases : fact("connected", a) \in Fact /\ fact("disconnected", a) \in Fact
    /\ \A k \in Passkeys : fact("added", k) \in Fact /\ fact("removed", k) \in Fact
    /\ \A f \in Factors : fact("enabled", f) \in Fact /\ fact("disabled", f) \in Fact
    /\ \A v \in 1 .. MaxPasswords : fact("password", v) \in Fact
BY DEF Fact, fact

LEMMA IdleIsGood ==
    ASSUME IInv
    PROVE  Good(Idle)
<1>1. Idle \in Call /\ Idle.at = "none" /\ ~Idle.counted /\ Idle.version = 0
    BY AdminAssumption DEF Idle, Request, Call, Steps
<1>2. password \in Nat
    BY AdminAssumption DEF IInv, AdminTypeOK
<1> QED
    BY <1>1, <1>2 DEF Good, Fits, KnowsFacts, KnowsAddress, KnowsSessions, KnowsWayIn

\* One request goes on to be k; what the others know is still so.
LEMMA CallMoves ==
    ASSUME CallsOK, OneDisconnects, NEW c \in Callers, NEW CONSTANT k,
           call' = [call EXCEPT ![c] = k], Good(k)',
           \A j : /\ Good(j)
                  /\ \E d \in Callers : j = call[d]
                  /\ calm /\ password = 0 /\ At(c, "unlink") => j.at # "unlink"
                  => Good(j)',
           calm' => calm, password' = 0 => password = 0,
           calm' /\ password' = 0 /\ k.op = "disconnect" /\ k.at = "unlink" => Alone(c)
    PROVE  CallsOK' /\ OneDisconnects'
<1>1. k \in Call
    BY DEF Good
<1>2. call' \in [Callers -> Call]
    BY <1>1 DEF CallsOK
<1>3. call'[c] = k /\ \A d \in Callers \ {c} : call'[d] = call[d]
    BY DEF CallsOK
<1>4. ASSUME NEW d \in Callers PROVE Good(call[d])'
    <2>1. CASE d = c
        BY <2>1, <1>3
    <2>2. CASE d # c
        <3>1. PICK j : j = call[d]
            OBVIOUS
        <3>2. Good(j)
            BY <3>1 DEF CallsOK
        <3>3. calm /\ password = 0 /\ At(c, "unlink") => j.at # "unlink"
            BY <3>1, <2>2 DEF OneDisconnects, Alone, At
        <3>4. Good(j)'
            BY <3>1, <3>2, <3>3
        <3> QED
            BY <3>1, <3>4, <1>3, <2>2
    <2> QED
        BY <2>1, <2>2
<1>5. OneDisconnects'
    <2> SUFFICES ASSUME calm', password' = 0, NEW a \in Callers, NEW b \in Callers,
                        call'[a].at = "unlink", call'[b].at = "unlink"
                 PROVE  a = b
        BY DEF OneDisconnects, Alone, At
    <2>1. k.at = "unlink" => k.op = "disconnect"
        BY DEF Good, Fits
    <2> QED
        BY <1>3, <2>1 DEF OneDisconnects, Alone, At
<1> QED
    BY <1>2, <1>4, <1>5 DEF CallsOK

\* A step that only reads the account is right when the request that takes it
\* is, and it writes down nothing but what has happened.
LEMMA OnlyReads ==
    ASSUME IInv, NEW c \in Callers, NEW CONSTANT k,
           call' = [call EXCEPT ![c] = k], Good(k),
           UNCHANGED <<account, mail, happened>>,
           log' \subseteq happened, BoundsOK',
           calm' => calm,
           calm' /\ password' = 0 /\ k.op = "disconnect" /\ k.at = "unlink" => Alone(c)
    PROVE  IInv'
<1>1. ASSUME NEW j, Good(j)
      PROVE  Good(j)'
    BY <1>1 DEF Good, Fits, KnowsFacts, KnowsAddress, KnowsSessions, KnowsWayIn, account, mail
<1>2. CallsOK' /\ OneDisconnects'
    BY <1>1, CallMoves DEF IInv, account
<1>3. AdminTypeOK'
    BY DEF IInv, AdminTypeOK, account
<1>4. LedgerOK' /\ AccountOK'
    BY DEF IInv, LedgerOK, AccountOK, account
<1>5. KeepsAWayIn' /\ AddressSurvives'
    BY DEF IInv, KeepsAWayIn, AddressSurvives, account, mail
<1> QED
    BY <1>2, <1>3, <1>4, <1>5 DEF IInv

\* A step at which a request ends is right whatever it was.
LEMMA EndsReading ==
    ASSUME IInv, NEW c \in Callers, NEW how \in Outcomes, Ends(c),
           UNCHANGED <<account, mail, happened, asked, elsewhere, desk, calm>>,
           log' \subseteq happened
    PROVE  IInv'
<1>1. call' = [call EXCEPT ![c] = Idle] /\ Idle.op # "disconnect"
    BY DEF Ends, Fails, Idle, Request
<1>2. BoundsOK'
    BY DEF IInv, BoundsOK, mail
<1> QED
    BY <1>1, <1>2, OnlyReads, IdleIsGood

\* A request that goes on after reading, to be k.
LEMMA GoesOnReading ==
    ASSUME IInv, NEW c \in Callers, NEW how \in Outcomes,
           NEW CONSTANT k, call' = [call EXCEPT ![c] = k], Good(k),
           k.at = "unlink" => password # 0 \/ (calm' => Alone(c)),
           UNCHANGED <<account, mail, happened, asked, elsewhere, desk>>,
           calm' \in {calm, FALSE},
           log' \subseteq happened
    PROVE  IInv'
<1>1. BoundsOK'
    BY DEF IInv, BoundsOK, mail
<1>2. calm' /\ password' = 0 /\ k.at = "unlink" => Alone(c)
    BY DEF account
<1>3. calm' => calm
    OBVIOUS
<1>4. UNCHANGED <<account, mail, happened>>
    OBVIOUS
<1> QED
    BY <1>1, <1>2, <1>3, <1>4, OnlyReads

\* A request on its way somewhere else is the same request.
LEMMA Going ==
    ASSUME CallsOK, NEW c \in Callers, NEW step \in Steps, GoTo(c, step)
    PROVE  \E k \in Call :
              /\ call' = [call EXCEPT ![c] = k] /\ k.at = step
              /\ k.op = call[c].op /\ k.what = call[c].what /\ k.seen = call[c].seen
              /\ k.doomed = call[c].doomed /\ k.skipped = call[c].skipped
              /\ k.counted = call[c].counted /\ k.version = call[c].version
              /\ k.asRead = call[c].asRead
<1>1. PICK k : k = [call[c] EXCEPT !.at = step]
    OBVIOUS
<1>2. call[c] \in Call
    BY DEF CallsOK, Good
<1>3. k \in Call
    BY <1>1, <1>2 DEF Call
<1>4. call' = [call EXCEPT ![c] = k]
    BY <1>1 DEF GoTo
<1>5. /\ k.at = step
      /\ k.op = call[c].op /\ k.what = call[c].what /\ k.seen = call[c].seen
      /\ k.doomed = call[c].doomed /\ k.skipped = call[c].skipped
      /\ k.counted = call[c].counted /\ k.version = call[c].version
      /\ k.asRead = call[c].asRead
    BY <1>1, <1>2 DEF Call
<1> QED
    BY <1>3, <1>4, <1>5

\* Where nothing has to be known, a request that goes on is good.
LEMMA GoesTo ==
    ASSUME IInv, NEW c \in Callers, NEW how \in Outcomes,
           NEW step \in Steps, GoTo(c, step), ~At(c, "answered"),
           \/ step = "hasPassword" \/ step = "draw" \/ step = "removeKey"
           \/ step = "unlink" /\ password # 0
           \/ step = "unlink" /\ (calm' => Alone(c)) /\ \E a \in linked : a # call[c].what,
           ~At(c, "none"),
           step = "hasPassword" \/ step = "unlink" => call[c].op = "disconnect",
           step = "removeKey" => call[c].op = "remove",
           UNCHANGED <<account, mail, happened, asked, elsewhere, desk>>,
           calm' \in {calm, FALSE},
           log' \subseteq happened
    PROVE  IInv'
<1>1. PICK k \in Call :
              /\ call' = [call EXCEPT ![c] = k] /\ k.at = step
              /\ k.op = call[c].op /\ k.what = call[c].what /\ k.seen = call[c].seen
              /\ k.doomed = call[c].doomed /\ k.skipped = call[c].skipped
              /\ k.counted = call[c].counted /\ k.version = call[c].version
              /\ k.asRead = call[c].asRead
    BY Going DEF IInv
<1>2. Good(call[c])
    BY DEF IInv, CallsOK
<1>3. Fits(k)
    BY <1>1, <1>2 DEF Good, Fits, At
<1>4. KnowsFacts(k) /\ KnowsAddress(k) /\ KnowsWayIn(k)
    BY <1>1 DEF KnowsFacts, KnowsAddress, KnowsWayIn
<1>5. KnowsSessions(k)
    BY <1>1, <1>2 DEF Good, KnowsSessions, At
<1>6. Good(k)
    BY <1>3, <1>4, <1>5 DEF Good
<1> QED
    BY <1>1, <1>6, GoesOnReading

-----------------------------------------------------------------------------
(* The steps that only read.                                               *)

LEMMA NewRequest ==
    ASSUME NEW op \in Ops, NEW step \in Steps,
           NEW what \in Aliases \union Passkeys \union Devices \union Factors \union {None}
    PROVE  /\ Request(op, step, what) \in Call
           /\ Request(op, step, what).op = op /\ Request(op, step, what).at = step
           /\ Request(op, step, what).what = what
           /\ Request(op, step, what).version = 0 /\ ~Request(op, step, what).counted
<1>1. 0 \in 0 .. MaxPasswords /\ 0 \in 0 .. MaxEmails
    BY AdminAssumption
<1> QED
    BY <1>1 DEF Call, Request

LEMMA FirstRequest ==
    ASSUME NEW op \in Ops, NEW what \in About(op),
           NEW CONSTANT k, k = Request(op, FirstStep(op), what)
    PROVE  /\ k \in Call /\ Fits(k) /\ k.op = op /\ k.version = 0 /\ ~k.counted
           /\ k.at \notin {"attributes", "removeApp", "write", "end", "unlink"}
           /\ k.at = "user" => op = "enroll"
<1>1. FirstStep(op) \in {"links", "keys", "verify", "credentials", "user", "setEmail"}
    BY DEF Ops, FirstStep
<1>2. what \in Aliases \union Passkeys \union Devices \union Factors \union {None}
    BY DEF About
<1>3. FirstStep(op) \in Steps
    BY <1>1 DEF Steps
<1>4. /\ k \in Call /\ k.op = op /\ k.at = FirstStep(op)
      /\ k.what = what /\ k.version = 0 /\ ~k.counted
    BY <1>2, <1>3, NewRequest
<1>5. /\ FirstStep(op) = "links" => op \in {"methods", "disconnect", "connected"}
      /\ FirstStep(op) = "keys" => op \in {"passkeys", "added", "remove"}
      /\ FirstStep(op) = "verify" => op \in {"password", "recover"}
      /\ FirstStep(op) = "credentials" => op \in {"factors", "enabled", "disable"}
      /\ FirstStep(op) = "user" => op = "enroll"
    BY DEF Ops, FirstStep
<1>6. Fits(k)
    BY <1>1, <1>4, <1>5 DEF Fits
<1> QED
    BY <1>1, <1>4, <1>5, <1>6

LEMMA StartStep ==
    ASSUME IInv, NEW c \in Callers, NEW op \in Ops, NEW how \in Outcomes,
           NEW what \in About(op), Start(c, op, what, how), UNCHANGED <<desk, elsewhere>>
    PROVE  IInv'
<1>1. PICK k : k = IF how = "done" THEN Request(op, FirstStep(op), what) ELSE Idle
    OBVIOUS
<1>2. call' = [call EXCEPT ![c] = k]
    BY <1>1 DEF Start
<1>3. Good(k)
    <2>1. CASE how = "done"
        <3>1. /\ k \in Call /\ Fits(k) /\ k.op = op /\ k.version = 0 /\ ~k.counted
              /\ k.at \notin {"attributes", "removeApp", "write", "end", "unlink"}
              /\ k.at = "user" => k.op = "enroll"
            BY <1>1, <2>1, FirstRequest
        <3>2. password \in Nat
            BY AdminAssumption DEF IInv, AdminTypeOK
        <3> QED
            BY <3>1, <3>2 DEF Good, KnowsFacts, KnowsAddress, KnowsSessions, KnowsWayIn
    <2>2. CASE how # "done"
        BY <1>1, <2>2, IdleIsGood
    <2> QED
        BY <2>1, <2>2
<1>4. UNCHANGED <<account, mail, happened, log>>
    BY DEF Start, ledger
<1>5. BoundsOK'
    BY <1>4, BoundAssumption DEF Start, IInv, BoundsOK, mail
<1>7. calm' => calm
    BY DEF Start
<1>9. k.at # "unlink"
    BY <1>1, FirstRequest DEF Idle, Request
<1>10. log' \subseteq happened
    BY <1>4 DEF IInv, LedgerOK
<1> QED
    BY <1>2, <1>3, <1>4, <1>5, <1>7, <1>9, <1>10, OnlyReads

\* draw() goes on or ends, and either is right.
LEMMA DrawsWithStep ==
    ASSUME IInv, NEW c \in Callers, NEW how \in Outcomes, NEW has,
           DrawsWith(c, has), ~At(c, "answered"), ~At(c, "none"),
           UNCHANGED <<account, mail, happened, asked, elsewhere, desk, calm>>,
           log' \subseteq happened
    PROVE  IInv'
<1>1. CASE has = {}
    BY <1>1, EndsReading DEF DrawsWith
<1>2. CASE has # {}
    <2>1. GoTo(c, "draw") /\ "draw" \in Steps
        BY <1>2 DEF DrawsWith, Steps
    <2> QED
        BY <2>1, GoesTo
<1> QED
    BY <1>1, <1>2

LEMMA LinksReadStep ==
    ASSUME IInv, NEW c \in Callers, NEW how \in Outcomes, LinksRead(c, how),
           UNCHANGED <<desk, elsewhere>>
    PROVE  IInv'
<1>1. /\ At(c, "links")
      /\ UNCHANGED <<account, mail, happened, asked, elsewhere, desk>>
      /\ calm' = (calm /\ (call'[c].at = "unlink" => unlinking = {}))
    BY DEF LinksRead
<1>0. /\ calm' \in {calm, FALSE}
      /\ call'[c].at # "unlink" => calm' = calm
    BY <1>1 DEF IInv, BoundsOK
<1>a. /\ \A k : call' = [call EXCEPT ![c] = k] => call'[c] = k
      /\ \A step : GoTo(c, step) => call'[c].at = step
      /\ Idle.at # "unlink"
    BY DEF IInv, CallsOK, Call, GoTo, Idle, Request
<1>2. ~At(c, "answered") /\ ~At(c, "none")
    BY <1>1 DEF At
<1>3. log \subseteq happened
    BY DEF IInv, LedgerOK
<1>4. /\ call[c].op \in {"methods", "disconnect", "connected"}
      /\ call[c].op \in {"disconnect", "connected"} => call[c].what \in Aliases
    BY <1>1 DEF IInv, CallsOK, Good, Fits, At, About
<1>5. CASE how # "done"
    <2>1. Ends(c) /\ UNCHANGED log
        BY <1>5 DEF LinksRead, Ends
    <2>2. calm' = calm
        BY <1>0, <1>a, <2>1 DEF Ends, Fails
    <2> QED
        BY <1>1, <1>3, <2>1, <2>2, EndsReading
<1>6. CASE how = "done" /\ call[c].op = "methods"
    <2>1. DrawsWith(c, linkedLogins(how)) /\ UNCHANGED log
        BY <1>6 DEF LinksRead
    <2>2. calm' = calm
        BY <1>0, <1>a, <2>1 DEF DrawsWith, Ends, Fails
    <2> QED
        BY <1>1, <1>2, <1>3, <2>1, <2>2, DrawsWithStep
<1>7. CASE how = "done" /\ call[c].op = "connected"
    <2>1. /\ DrawsWith(c, linkedLogins(how))
          /\ IF Confirmed(call[c].what, linkedLogins(how))
             THEN Records(fact("connected", call[c].what)) ELSE UNCHANGED log
        BY <1>7 DEF LinksRead
    <2>2. linkedLogins(how) \subseteq linked
        BY DEF linkedLogins
    <2>3. log' \subseteq happened
        BY <1>3, <2>1, <2>2 DEF Confirmed, Records, IInv, AccountOK
    <2>4. calm' = calm
        BY <1>0, <1>a, <2>1 DEF DrawsWith, Ends, Fails
    <2> QED
        BY <1>1, <1>2, <2>1, <2>3, <2>4, DrawsWithStep
<1>8. CASE how = "done" /\ call[c].op = "disconnect"
    <2>1. /\ UNCHANGED log
          /\ IF call[c].what \notin linked THEN Fails(c)
             ELSE GoTo(c, IF OnlyWayIn(linked) THEN "hasPassword" ELSE "unlink")
        BY <1>8 DEF LinksRead, linkedLogins
    <2>2. CASE call[c].what \notin linked
        <3>1. Ends(c)
            BY <2>1, <2>2 DEF Ends
        <3>2. calm' = calm
            BY <1>0, <1>a, <3>1 DEF Ends, Fails
        <3> QED
            BY <1>1, <1>3, <2>1, <3>1, <3>2, EndsReading
    <2>3. CASE call[c].what \in linked /\ OnlyWayIn(linked)
        <3>1. GoTo(c, "hasPassword") /\ "hasPassword" \in Steps
            BY <2>1, <2>3 DEF Steps
        <3> QED
            BY <1>0, <1>1, <1>2, <1>3, <1>8, <2>1, <3>1, GoesTo
    <2>4. CASE call[c].what \in linked /\ ~OnlyWayIn(linked)
        <3>1. GoTo(c, "unlink") /\ "unlink" \in Steps
            BY <2>1, <2>4 DEF Steps
        <3>2. linked # {call[c].what}
            BY <2>4, FS_Singleton DEF OnlyWayIn
        <3>3. \E a \in linked : a # call[c].what
            BY <2>4, <3>2
        <3>4. calm' => Alone(c)
            BY <1>1, <1>a, <3>1 DEF unlinking, Alone
        <3> QED
            BY <1>0, <1>1, <1>2, <1>3, <1>8, <2>1, <3>1, <3>3, <3>4, GoesTo
    <2> QED
        BY <2>2, <2>3, <2>4
<1> QED
    BY <1>4, <1>5, <1>6, <1>7, <1>8

LEMMA PasswordReadStep ==
    ASSUME IInv, NEW c \in Callers, NEW how \in Outcomes, PasswordRead(c, how),
           UNCHANGED <<desk, elsewhere>>
    PROVE  IInv'
<1>1. /\ At(c, "hasPassword")
      /\ UNCHANGED <<account, mail, happened, asked, elsewhere, desk, calm, log>>
    BY DEF PasswordRead, ledger
<1>2. ~At(c, "answered") /\ ~At(c, "none")
    BY <1>1 DEF At
<1>3. log' \subseteq happened
    BY <1>1 DEF IInv, LedgerOK
<1>4. call[c].op = "disconnect"
    BY <1>1 DEF IInv, CallsOK, Good, Fits, At
<1>5. CASE ~Throws(how) /\ hasPassword(how)
    <2>1. GoTo(c, "unlink") /\ "unlink" \in Steps /\ password # 0
        BY <1>5 DEF PasswordRead, hasPassword, Steps
    <2> QED
        BY <1>1, <1>2, <1>3, <1>4, <2>1, GoesTo
<1>6. CASE ~(~Throws(how) /\ hasPassword(how))
    <2>1. Ends(c)
        BY <1>6 DEF PasswordRead, Ends
    <2> QED
        BY <1>1, <1>3, <2>1, EndsReading
<1> QED
    BY <1>5, <1>6

LEMMA LinksAgainStep ==
    ASSUME IInv, NEW c \in Callers, NEW how \in Outcomes, LinksAgain(c, how),
           UNCHANGED <<desk, elsewhere>>
    PROVE  IInv'
<1>1. /\ At(c, "again")
      /\ UNCHANGED <<account, mail, happened, asked, elsewhere, desk, calm, log>>
    BY DEF LinksAgain, ledger
<1>2. ~At(c, "answered") /\ ~At(c, "none")
    BY <1>1 DEF At
<1>3. log' \subseteq happened
    BY <1>1 DEF IInv, LedgerOK
<1>4. CASE how = "done"
    BY <1>1, <1>2, <1>3, <1>4, DrawsWithStep DEF LinksAgain
<1>5. CASE how # "done"
    BY <1>1, <1>3, <1>5, EndsReading DEF LinksAgain, Ends
<1> QED
    BY <1>4, <1>5

LEMMA DrawStep ==
    ASSUME IInv, NEW c \in Callers, NEW how \in Outcomes, Draw(c, how),
           UNCHANGED <<desk, elsewhere>>
    PROVE  IInv'
<1>1. /\ Ends(c)
      /\ UNCHANGED <<account, mail, happened, asked, elsewhere, desk, calm, log>>
    BY DEF Draw, ledger
<1>2. log' \subseteq happened
    BY <1>1 DEF IInv, LedgerOK
<1> QED
    BY <1>1, <1>2, EndsReading

LEMMA KeysReadStep ==
    ASSUME IInv, NEW c \in Callers, NEW how \in Outcomes, KeysRead(c, how),
           UNCHANGED <<desk, elsewhere>>
    PROVE  IInv'
<1>1. /\ At(c, "keys")
      /\ UNCHANGED <<account, mail, happened, asked, elsewhere, desk, calm>>
    BY DEF KeysRead
<1>2. ~At(c, "answered") /\ ~At(c, "none")
    BY <1>1 DEF At
<1>3. log \subseteq happened
    BY DEF IInv, LedgerOK
<1>4. call[c].op \in {"passkeys", "added", "remove"}
    BY <1>1 DEF IInv, CallsOK, Good, Fits, At
<1>5. CASE call[c].op = "passkeys"
    BY <1>1, <1>3, <1>5, EndsReading DEF KeysRead
<1>6. CASE call[c].op = "added"
    <2> DEFINE fresh == {k \in passkeys(how) : JustRegistered(k)}
    <2>1. Ends(c) /\ IF fresh = {} THEN UNCHANGED log
                     ELSE \E k \in fresh : Records(fact("added", k))
        BY <1>6 DEF KeysRead
    <2>2. \A k \in fresh : fact("added", k) \in happened
        BY DEF passkeys, IInv, AccountOK
    <2>3. log' \subseteq happened
        BY <1>3, <2>1, <2>2 DEF Records
    <2> QED
        BY <1>1, <2>1, <2>3, EndsReading
<1>7. CASE call[c].op = "remove"
    <2>1. /\ UNCHANGED log
          /\ IF call[c].what \in passkeys(how) THEN GoTo(c, "removeKey") ELSE Fails(c)
        BY <1>7 DEF KeysRead
    <2>2. CASE call[c].what \in passkeys(how)
        <3>1. GoTo(c, "removeKey") /\ "removeKey" \in Steps
            BY <2>1, <2>2 DEF Steps
        <3> QED
            BY <1>1, <1>2, <1>3, <1>7, <2>1, <3>1, GoesTo
    <2>3. CASE call[c].what \notin passkeys(how)
        BY <1>1, <1>3, <2>1, <2>3, EndsReading DEF Ends
    <2> QED
        BY <2>2, <2>3
<1> QED
    BY <1>4, <1>5, <1>6, <1>7

\* What the loop over the sessions still has to end is all of them.
LEMMA ListSessionsStep ==
    ASSUME IInv, NEW c \in Callers, NEW how \in Outcomes, ListSessions(c, how),
           UNCHANGED <<desk, elsewhere>>
    PROVE  IInv'
<1>1. /\ At(c, "sessions")
      /\ UNCHANGED <<account, mail, happened, asked, elsewhere, desk, calm, log>>
    BY DEF ListSessions, ledger
<1>2. log' \subseteq happened
    BY <1>1 DEF IInv, LedgerOK
<1>3. Good(call[c]) /\ call[c] \in Call
    BY DEF IInv, CallsOK, Good
<1>4. PICK k : k = [call[c] EXCEPT !.at = IF how = "done" THEN "end" ELSE "answered",
                                   !.doomed = IF how = "done" THEN OtherSessions(call[c].what) ELSE {}]
    OBVIOUS
<1>5. call' = [call EXCEPT ![c] = k]
    BY <1>4 DEF ListSessions
<1>6. OtherSessions(call[c].what) \subseteq Devices
    BY DEF OtherSessions, IInv, AdminTypeOK, Session
<1>7. /\ k \in Call
      /\ k.at = IF how = "done" THEN "end" ELSE "answered"
      /\ k.doomed = IF how = "done" THEN OtherSessions(call[c].what) ELSE {}
      /\ k.op = call[c].op /\ k.what = call[c].what /\ k.skipped = call[c].skipped
      /\ k.counted = call[c].counted /\ k.version = call[c].version
    BY <1>3, <1>4, <1>6 DEF Call, Steps
<1>8. Fits(k) /\ KnowsFacts(k) /\ KnowsAddress(k) /\ KnowsWayIn(k)
    BY <1>1, <1>3, <1>7 DEF Good, Fits, At, KnowsFacts, KnowsAddress, KnowsWayIn
<1>9. KnowsSessions(k)
    BY <1>1, <1>3, <1>7 DEF Good, KnowsSessions, At, OtherSessions
<1>10. Good(k)
    BY <1>7, <1>8, <1>9 DEF Good
<1> QED
    BY <1>1, <1>2, <1>5, <1>7, <1>10, GoesOnReading

LEMMA AllEndedStep ==
    ASSUME IInv, NEW c \in Callers, AllEnded(c), UNCHANGED <<desk, elsewhere>>
    PROVE  IInv'
<1>1. /\ At(c, "end") /\ call[c].doomed = {}
      /\ UNCHANGED <<account, mail, happened, asked, elsewhere, desk, calm, log>>
    BY DEF AllEnded, ledger
<1>2. Good(call[c]) /\ call[c] \in Call
    BY DEF IInv, CallsOK, Good
<1>3. PICK k : k = [call[c] EXCEPT !.at = "answered", !.counted = TRUE]
    OBVIOUS
<1>4. call' = [call EXCEPT ![c] = k]
    BY <1>3 DEF AllEnded
<1>5. /\ k \in Call /\ k.at = "answered" /\ k.counted
      /\ k.op = call[c].op /\ k.what = call[c].what /\ k.skipped = call[c].skipped
      /\ k.version = call[c].version
    BY <1>2, <1>3 DEF Call, Steps
<1>6. Fits(k) /\ KnowsFacts(k) /\ KnowsAddress(k) /\ KnowsWayIn(k)
    BY <1>1, <1>2, <1>5 DEF Good, Fits, At, KnowsFacts, KnowsAddress, KnowsWayIn
<1>7. KnowsSessions(k)
    BY <1>1, <1>2, <1>5 DEF Good, KnowsSessions, At
<1>8. Good(k)
    BY <1>5, <1>6, <1>7 DEF Good
<1>9. log' \subseteq happened /\ BoundsOK'
    BY <1>1 DEF IInv, LedgerOK, BoundsOK, mail
<1> QED
    BY <1>1, <1>4, <1>5, <1>8, <1>9, OnlyReads

LEMMA CredentialsReadStep ==
    ASSUME IInv, NEW c \in Callers, NEW how \in Outcomes, CredentialsRead(c, how),
           UNCHANGED <<desk, elsewhere>>
    PROVE  IInv'
<1>1. /\ At(c, "credentials")
      /\ UNCHANGED <<account, mail, happened, asked, elsewhere, desk, calm, log>>
    BY DEF CredentialsRead, ledger
<1>2. log' \subseteq happened
    BY <1>1 DEF IInv, LedgerOK
<1>3. CASE how # "done"
    BY <1>1, <1>2, <1>3, EndsReading DEF CredentialsRead, Ends
<1>4. CASE how = "done"
    <2>1. Good(call[c]) /\ call[c] \in Call
        BY DEF IInv, CallsOK, Good
    <2>2. PICK k : k = [call[c] EXCEPT !.at = "attributes", !.seen = factors \intersect {"app"}]
        OBVIOUS
    <2>3. call' = [call EXCEPT ![c] = k]
        BY <1>4, <2>2 DEF CredentialsRead
    <2>4. factors \intersect {"app"} \subseteq Factors
        BY DEF Factors
    <2>5. /\ k \in Call /\ k.at = "attributes" /\ k.seen = factors \intersect {"app"}
          /\ k.op = call[c].op /\ k.what = call[c].what /\ k.skipped = call[c].skipped
          /\ k.counted = call[c].counted /\ k.version = call[c].version
        BY <2>1, <2>2, <2>4 DEF Call, Steps
    <2>6. Fits(k) /\ KnowsAddress(k) /\ KnowsWayIn(k)
        BY <1>1, <2>1, <2>5 DEF Good, Fits, At, KnowsAddress, KnowsWayIn
    <2>7. KnowsFacts(k)
        BY <2>5 DEF KnowsFacts, IInv, AccountOK
    <2>8. KnowsSessions(k)
        BY <1>1, <2>1, <2>5 DEF Good, KnowsSessions, At
    <2>9. Good(k)
        BY <2>5, <2>6, <2>7, <2>8 DEF Good
    <2> QED
        BY <1>1, <1>2, <2>3, <2>5, <2>9, GoesOnReading
<1> QED
    BY <1>3, <1>4

LEMMA RemovesStep ==
    ASSUME IInv, NEW c \in Callers, NEW how \in Outcomes, At(c, "attributes"),
           NEW held \in SUBSET Factors, Removes(c, held), call[c].op \in {"disable", "recover"},
           UNCHANGED <<account, mail, happened, asked, elsewhere, desk, calm, log>>
    PROVE  IInv'
<1>1. log' \subseteq happened
    BY DEF IInv, LedgerOK
<1>2. Good(call[c]) /\ call[c] \in Call
    BY DEF IInv, CallsOK, Good
<1>3. PICK k : k = [call[c] EXCEPT !.at = RemovalOf(held), !.seen = held, !.doomed = held]
    OBVIOUS
<1>4. call' = [call EXCEPT ![c] = k]
    BY <1>3 DEF Removes
<1>5. RemovalOf(held) \in {"removeApp", "user"} /\ RemovalOf(held) \in Steps
    BY DEF RemovalOf, Steps
<1>6. /\ k \in Call /\ k.at = RemovalOf(held) /\ k.seen = held /\ k.doomed = held
      /\ k.op = call[c].op /\ k.what = call[c].what /\ k.skipped = call[c].skipped
      /\ k.counted = call[c].counted /\ k.version = call[c].version
    BY <1>2, <1>3, <1>5 DEF Call
<1>7. Fits(k) /\ KnowsFacts(k) /\ KnowsAddress(k) /\ KnowsWayIn(k)
    BY <1>2, <1>5, <1>6 DEF Good, Fits, At, KnowsFacts, KnowsAddress, KnowsWayIn
<1>8. KnowsSessions(k)
    BY <1>2, <1>5, <1>6 DEF Good, KnowsSessions, At
<1>9. Good(k)
    BY <1>6, <1>7, <1>8 DEF Good
<1> QED
    BY <1>1, <1>4, <1>5, <1>6, <1>9, GoesOnReading

LEMMA AttributesReadStep ==
    ASSUME IInv, NEW c \in Callers, NEW how \in Outcomes, AttributesRead(c, how),
           UNCHANGED <<desk, elsewhere>>
    PROVE  IInv'
<1> DEFINE has == call[c].seen \union (factors \intersect {"sms"})
           asked_for == has \intersect {call[c].what}
<1>1. /\ At(c, "attributes")
      /\ UNCHANGED <<account, mail, happened, asked, elsewhere, desk, calm>>
    BY DEF AttributesRead
<1>2. log \subseteq happened
    BY DEF IInv, LedgerOK
<1>3. Good(call[c]) /\ call[c] \in Call
    BY DEF IInv, CallsOK, Good
<1>4. call[c].op \in {"factors", "enabled", "disable", "recover"}
    BY <1>1, <1>3 DEF Good, Fits, At
<1>5. has \subseteq Factors /\ \A f \in has : fact("enabled", f) \in happened
    <2>1. call[c].seen \subseteq Factors
        BY <1>3 DEF Call
    <2>2. \A f \in call[c].seen : fact("enabled", f) \in happened
        BY <1>1, <1>3 DEF Good, KnowsFacts, At
    <2> QED
        BY <2>1, <2>2 DEF Factors, IInv, AccountOK
<1>6. CASE how # "done" \/ call[c].op = "factors"
    <2>1. Ends(c) /\ log' = log
        BY <1>6 DEF AttributesRead, Ends
    <2> QED
        BY <1>1, <1>2, <2>1, EndsReading
<1>7. CASE how = "done" /\ call[c].op = "enabled"
    <2>1. /\ IF asked_for = {} THEN UNCHANGED log ELSE Records(fact("enabled", call[c].what))
          /\ Ends(c)
        BY <1>7 DEF AttributesRead
    <2>2. log' \subseteq happened
        BY <1>2, <1>5, <2>1 DEF Records
    <2> QED
        BY <1>1, <2>1, <2>2, EndsReading
<1>8. CASE how = "done" /\ call[c].op = "disable"
    <2>1. log' = log /\ (Ends(c) \/ Removes(c, asked_for))
        BY <1>8 DEF AttributesRead, Ends
    <2>2. asked_for \in SUBSET Factors
        BY <1>5
    <2> HIDE DEF asked_for
    <2> QED
        BY <1>1, <1>2, <1>8, <2>1, <2>2, EndsReading, RemovesStep
<1>9. CASE how = "done" /\ call[c].op = "recover"
    <2>1. log' = log /\ (Ends(c) \/ Removes(c, has))
        BY <1>9 DEF AttributesRead
    <2>2. has \in SUBSET Factors
        BY <1>5
    <2> HIDE DEF has
    <2> QED
        BY <1>1, <1>2, <1>9, <2>1, <2>2, EndsReading, RemovesStep
<1> QED
    BY <1>4, <1>6, <1>7, <1>8, <1>9

\* The account is read with the address it has.
LEMMA ReadUserStep ==
    ASSUME IInv, NEW c \in Callers, NEW how \in Outcomes, ReadUser(c, how),
           UNCHANGED <<desk, elsewhere>>
    PROVE  IInv'
<1>1. /\ At(c, "user")
      /\ UNCHANGED <<account, mail, happened, asked, elsewhere, desk, calm, log>>
    BY DEF ReadUser, ledger
<1>2. log' \subseteq happened
    BY <1>1 DEF IInv, LedgerOK
<1>3. CASE how # "done"
    BY <1>1, <1>2, <1>3, EndsReading DEF ReadUser, Ends
<1>4. CASE how = "done"
    <2>1. Good(call[c]) /\ call[c] \in Call
        BY DEF IInv, CallsOK, Good
    <2>2. PICK k : k = [call[c] EXCEPT !.at = "write", !.asRead = email]
        OBVIOUS
    <2>3. call' = [call EXCEPT ![c] = k]
        BY <1>4, <2>2 DEF ReadUser
    <2>4. email \in 0 .. MaxEmails
        BY DEF IInv, AdminTypeOK
    <2>5. /\ k \in Call /\ k.at = "write" /\ k.asRead = email
          /\ k.op = call[c].op /\ k.what = call[c].what /\ k.skipped = call[c].skipped
          /\ k.counted = call[c].counted /\ k.version = call[c].version
          /\ k.seen = call[c].seen /\ k.doomed = call[c].doomed
        BY <2>1, <2>2, <2>4 DEF Call, Steps
    <2>6. Fits(k) /\ KnowsFacts(k) /\ KnowsWayIn(k)
        BY <1>1, <2>1, <2>5 DEF Good, Fits, At, KnowsFacts, KnowsWayIn
    <2>7. KnowsAddress(k)
        BY <2>5 DEF KnowsAddress, IInv, AddressSurvives
    <2>8. KnowsSessions(k)
        BY <1>1, <2>1, <2>5 DEF Good, KnowsSessions, At
    <2>9. Good(k)
        BY <2>5, <2>6, <2>7, <2>8 DEF Good
    <2> QED
        BY <1>1, <1>2, <2>3, <2>5, <2>9, GoesOnReading
<1> QED
    BY <1>3, <1>4

-----------------------------------------------------------------------------
(* The steps that change the account.                                      *)

LEMMA IdleStaysGood ==
    ASSUME password' \in Nat
    PROVE  Good(Idle)'
<1>1. Idle \in Call /\ Idle.at = "none" /\ ~Idle.counted /\ Idle.version = 0
    BY AdminAssumption DEF Idle, Request, Call, Steps
<1> QED
    BY <1>1 DEF Good, Fits, KnowsFacts, KnowsAddress, KnowsSessions, KnowsWayIn

\* A request that ends, or goes on to a step where nothing has to be known.
LEMMA EndsOrGoes ==
    ASSUME CallsOK, NEW c \in Callers, NEW step \in {"again", "draw"},
           Fails(c) \/ GoTo(c, step), ~At(c, "none"), ~At(c, "answered"),
           step = "again" => call[c].op = "disconnect",
           password' = password, password \in Nat
    PROVE  \E k : /\ call' = [call EXCEPT ![c] = k] /\ Good(k)'
                  /\ k.at # "unlink"
<1>1. CASE Fails(c)
    <2>1. call' = [call EXCEPT ![c] = Idle] /\ Idle.at # "unlink" /\ Good(Idle)'
        BY <1>1, IdleStaysGood DEF Fails, Idle, Request
    <2> QED
        BY <2>1
<1>2. CASE GoTo(c, step)
    <2>1. step \in Steps
        BY DEF Steps
    <2>2. PICK k \in Call :
              /\ call' = [call EXCEPT ![c] = k] /\ k.at = step
              /\ k.op = call[c].op /\ k.what = call[c].what /\ k.seen = call[c].seen
              /\ k.doomed = call[c].doomed /\ k.skipped = call[c].skipped
              /\ k.counted = call[c].counted /\ k.version = call[c].version
              /\ k.asRead = call[c].asRead
        BY <1>2, <2>1, Going
    <2>3. Good(call[c])
        BY DEF CallsOK
    <2>4. Fits(k)
        BY <2>2, <2>3 DEF Good, Fits, At
    <2>5. (KnowsFacts(k) /\ KnowsAddress(k) /\ KnowsWayIn(k))'
        BY <2>2 DEF KnowsFacts, KnowsAddress, KnowsWayIn
    <2>6. KnowsSessions(k)'
        BY <2>2, <2>3 DEF Good, KnowsSessions, At
    <2>7. Good(k)'
        BY <2>4, <2>5, <2>6 DEF Good, Fits
    <2> QED
        BY <2>2, <2>7
<1> QED
    BY <1>1, <1>2

LEMMA UnlinkStep ==
    ASSUME IInv, NEW c \in Callers, NEW how \in Outcomes, Unlink(c, how),
           UNCHANGED <<desk, elsewhere>>
    PROVE  IInv'
<1> DEFINE gone == fact("disconnected", call[c].what)
<1>1. /\ At(c, "unlink")
      /\ unlinkLogin(call[c].what, how)
      /\ IF HappensAtProvider(how) THEN Sees(gone) ELSE UNCHANGED happened
      /\ IF how = "done" THEN Records(gone) /\ GoTo(c, "again") ELSE Fails(c) /\ UNCHANGED log
      /\ UNCHANGED <<age, password, open, email, factors, asked, calm, mail>>
    BY DEF Unlink
<1>2. Good(call[c])
    BY DEF IInv, CallsOK
<1>3. call[c].op = "disconnect" /\ call[c].what \in Aliases
    BY <1>1, <1>2 DEF Good, Fits, At, About
<1>4. gone \in Fact
    BY <1>3, Facts
<1> HIDE DEF gone
<1>5. LedgerOK' /\ happened \subseteq happened'
    BY <1>1, <1>4 DEF IInv, LedgerOK, Sees, Records, HappensAtProvider
<1>6. linked' \subseteq linked
    BY <1>1 DEF unlinkLogin
<1>7. AdminTypeOK' /\ BoundsOK'
    BY <1>1, <1>6 DEF IInv, AdminTypeOK, BoundsOK, mail
<1>8. AccountOK'
    BY <1>1, <1>5, <1>6 DEF IInv, AccountOK
<1>9. password \in Nat
    BY AdminAssumption DEF IInv, AdminTypeOK
<1>10. Fails(c) \/ GoTo(c, "again")
    BY <1>1
<1>11. PICK k : call' = [call EXCEPT ![c] = k] /\ Good(k)' /\ k.at # "unlink"
    BY <1>1, <1>3, <1>9, <1>10, EndsOrGoes DEF IInv, At
<1>12. ASSUME NEW j, Good(j), calm /\ password = 0 /\ At(c, "unlink") => j.at # "unlink"
       PROVE  Good(j)'
    <2>1. (Fits(j) /\ KnowsFacts(j) /\ KnowsAddress(j) /\ KnowsSessions(j))'
        BY <1>1, <1>5, <1>12 DEF Good, Fits, KnowsFacts, KnowsAddress, KnowsSessions, mail
    <2>2. KnowsWayIn(j)'
        BY <1>1, <1>3, <1>12 DEF Good, Fits, KnowsWayIn
    <2> QED
        BY <1>12, <2>1, <2>2 DEF Good
<1>13. CallsOK' /\ OneDisconnects'
    BY <1>1, <1>3, <1>11, <1>12, CallMoves DEF IInv
<1>14. KeepsAWayIn'
    <2>1. calm => password # 0 \/ \E a \in linked : a # call[c].what
        BY <1>1, <1>2 DEF Good, KnowsWayIn, At
    <2>2. linked' = linked \/ linked' = linked \ {call[c].what}
        BY <1>1 DEF unlinkLogin
    <2> QED
        BY <1>1, <2>1, <2>2 DEF IInv, KeepsAWayIn
<1>15. AddressSurvives'
    BY <1>1 DEF IInv, AddressSurvives, mail
<1> QED
    BY <1>5, <1>7, <1>8, <1>13, <1>14, <1>15 DEF IInv

LEMMA RemoveKeyStep ==
    ASSUME IInv, NEW c \in Callers, NEW how \in Outcomes, RemoveKey(c, how),
           UNCHANGED <<desk, elsewhere>>
    PROVE  IInv'
<1> DEFINE gone == fact("removed", call[c].what)
<1>1. /\ At(c, "removeKey")
      /\ removePasskey(call[c].what, how)
      /\ IF HappensAtProvider(how) THEN Sees(gone) ELSE UNCHANGED happened
      /\ IF how = "done" THEN Records(gone) /\ GoTo(c, "draw") ELSE Fails(c) /\ UNCHANGED log
      /\ UNCHANGED <<linked, password, open, email, factors, asked, calm, mail>>
    BY DEF RemoveKey
<1>2. Good(call[c])
    BY DEF IInv, CallsOK
<1>3. call[c].op = "remove" /\ call[c].what \in Passkeys
    BY <1>1, <1>2 DEF Good, Fits, At, About
<1>4. gone \in Fact
    BY <1>3, Facts
<1> HIDE DEF gone
<1>5. LedgerOK' /\ happened \subseteq happened'
    BY <1>1, <1>4 DEF IInv, LedgerOK, Sees, Records, HappensAtProvider
<1>6. age' = age \/ age' = [age EXCEPT ![call[c].what] = "none"]
    BY <1>1 DEF removePasskey
<1>7. AdminTypeOK' /\ BoundsOK'
    BY <1>1, <1>3, <1>6 DEF IInv, AdminTypeOK, BoundsOK, mail
<1>8. AccountOK'
    BY <1>1, <1>5, <1>6 DEF IInv, AccountOK, AdminTypeOK
<1>9. password \in Nat
    BY AdminAssumption DEF IInv, AdminTypeOK
<1>10. Fails(c) \/ GoTo(c, "draw")
    BY <1>1
<1>11. PICK k : /\ call' = [call EXCEPT ![c] = k] /\ Good(k)'
                /\ k.at # "unlink"
    BY <1>1, <1>3, <1>9, <1>10, EndsOrGoes DEF IInv, At
<1>12. ASSUME NEW j, Good(j)
       PROVE  Good(j)'
    BY <1>1, <1>5, <1>12 DEF Good, Fits, KnowsFacts, KnowsAddress, KnowsSessions, KnowsWayIn, mail
<1>13. CallsOK' /\ OneDisconnects'
    BY <1>1, <1>11, <1>12, CallMoves DEF IInv
<1>14. KeepsAWayIn' /\ AddressSurvives'
    BY <1>1 DEF IInv, KeepsAWayIn, AddressSurvives, mail
<1> QED
    BY <1>5, <1>7, <1>8, <1>13, <1>14 DEF IInv

\* A session opened in passing begins under the password of the day.
LEMMA VerifyStep ==
    ASSUME IInv, NEW c \in Callers, NEW right \in BOOLEAN, NEW ended \in BOOLEAN,
           NEW id \in Devices, Verify(c, right, id, ended), UNCHANGED <<desk, elsewhere>>
    PROVE  IInv'
<1>1. /\ At(c, "verify") /\ verifyPassword(right, id, ended)
      /\ UNCHANGED <<linked, age, password, email, factors, asked, ledger, calm, mail>>
    BY DEF Verify
<1>2. Good(call[c]) /\ call[c].op \in {"password", "recover"}
    BY <1>1 DEF IInv, CallsOK, Good, Fits, At
<1>3. open' = open \/ open' = open \union {[id |-> id, under |-> password]}
    BY <1>1 DEF verifyPassword
<1>4. password \in Nat /\ [id |-> id, under |-> password] \in Session
    BY AdminAssumption DEF IInv, AdminTypeOK, Session
<1>5. AdminTypeOK' /\ BoundsOK' /\ LedgerOK' /\ AccountOK'
    BY <1>1, <1>3, <1>4
    DEF IInv, AdminTypeOK, BoundsOK, LedgerOK, AccountOK, ledger, mail
<1>6. KeepsAWayIn' /\ AddressSurvives'
    BY <1>1 DEF IInv, KeepsAWayIn, AddressSurvives, mail
<1>7. ASSUME NEW j, Good(j)
      PROVE  Good(j)'
    <2>1. (Fits(j) /\ KnowsFacts(j) /\ KnowsAddress(j) /\ KnowsWayIn(j))'
        BY <1>1, <1>7 DEF Good, Fits, KnowsFacts, KnowsAddress, KnowsWayIn, ledger, mail
    <2>2. j.version \in Nat
        BY <1>7, AdminAssumption DEF Good, Call
    <2>3. KnowsSessions(j)'
        BY <1>1, <1>3, <1>4, <1>7, <2>2 DEF Good, KnowsSessions
    <2> QED
        BY <1>7, <2>1, <2>3 DEF Good
<1>8. \/ Fails(c)
      \/ call[c].op = "password" /\ GoTo(c, "set")
      \/ call[c].op = "recover" /\ GoTo(c, "credentials")
    BY <1>2 DEF Verify
<1>9. CASE Fails(c)
    <2>1. call' = [call EXCEPT ![c] = Idle] /\ Idle.op # "disconnect" /\ Good(Idle)'
        BY <1>1, <1>4, <1>9, IdleStaysGood DEF Fails, Idle, Request
    <2>2. CallsOK' /\ OneDisconnects'
        BY <1>1, <1>7, <2>1, CallMoves DEF IInv
    <2> QED
        BY <1>5, <1>6, <2>2 DEF IInv
<1>10. ASSUME NEW step \in {"set", "credentials"}, GoTo(c, step),
              step = "set" => call[c].op = "password",
              step = "credentials" => call[c].op = "recover"
       PROVE  IInv'
    <2>1. step \in Steps
        BY <1>10 DEF Steps
    <2>2. PICK k \in Call :
              /\ call' = [call EXCEPT ![c] = k] /\ k.at = step
              /\ k.op = call[c].op /\ k.what = call[c].what /\ k.seen = call[c].seen
              /\ k.doomed = call[c].doomed /\ k.skipped = call[c].skipped
              /\ k.counted = call[c].counted /\ k.version = call[c].version
              /\ k.asRead = call[c].asRead
        BY <1>10, <2>1, Going DEF IInv
    <2>3. Fits(k)
        BY <1>1, <1>2, <1>10, <2>2 DEF Good, Fits, At
    <2>4. (KnowsFacts(k) /\ KnowsAddress(k) /\ KnowsWayIn(k))'
        BY <1>10, <2>2 DEF KnowsFacts, KnowsAddress, KnowsWayIn
    <2>5. KnowsSessions(k)'
        BY <1>1, <1>2, <1>10, <2>2 DEF Good, KnowsSessions, At
    <2>6. Good(k)'
        BY <2>2, <2>3, <2>4, <2>5 DEF Good, Fits
    <2>7. CallsOK' /\ OneDisconnects'
        BY <1>1, <1>2, <1>7, <2>2, <2>6, CallMoves DEF IInv
    <2> QED
        BY <1>5, <1>6, <2>7 DEF IInv
<1> QED
    BY <1>8, <1>9, <1>10

LEMMA SetPasswordStep ==
    ASSUME IInv, NEW c \in Callers, NEW how \in Outcomes, SetPassword(c, how),
           UNCHANGED <<desk, elsewhere>>
    PROVE  IInv'
<1> DEFINE set == fact("password", password + 1)
<1>1. /\ At(c, "set") /\ (HappensAtProvider(how) => password < MaxPasswords)
      /\ setPassword(how)
      /\ IF HappensAtProvider(how) THEN Sees(set) ELSE UNCHANGED happened
      /\ UNCHANGED <<linked, age, open, email, factors, asked, calm, mail>>
    BY DEF SetPassword
<1>2. IF how = "done"
      THEN /\ Records(set)
           /\ call' = [call EXCEPT ![c].at = "sessions", ![c].version = password + 1]
      ELSE Fails(c) /\ UNCHANGED log
    BY DEF SetPassword
<1>3. Good(call[c]) /\ call[c] \in Call /\ call[c].op = "password"
    BY <1>1 DEF IInv, CallsOK, Good, Fits, At
<1>4. password \in Nat /\ MaxPasswords \in Nat
    BY AdminAssumption DEF IInv, AdminTypeOK
<1>5. HappensAtProvider(how) => set \in Fact
    <2>1. HappensAtProvider(how) => password + 1 \in 1 .. MaxPasswords
        BY <1>1, <1>4
    <2> QED
        BY <2>1, Facts
<1>6. how = "done" => HappensAtProvider(how)
    BY DEF HappensAtProvider
<1> HIDE DEF set
<1>7. LedgerOK' /\ happened \subseteq happened'
    BY <1>1, <1>2, <1>5, <1>6 DEF IInv, LedgerOK, Sees, Records
<1>8. \/ password' = password
      \/ HappensAtProvider(how) /\ password' = password + 1
    BY <1>1 DEF setPassword
<1>9. AdminTypeOK' /\ BoundsOK'
    BY <1>1, <1>4, <1>8 DEF IInv, AdminTypeOK, BoundsOK, mail
<1>10. AccountOK'
    BY <1>1, <1>7 DEF IInv, AccountOK
<1>11. KeepsAWayIn' /\ AddressSurvives'
    BY <1>1, <1>4, <1>8 DEF IInv, KeepsAWayIn, AddressSurvives, mail
<1>12. ASSUME NEW j, Good(j)
       PROVE  Good(j)'
    <2>1. (Fits(j) /\ KnowsFacts(j) /\ KnowsAddress(j))'
        BY <1>1, <1>7, <1>12 DEF Good, Fits, KnowsFacts, KnowsAddress, mail
    <2>2. j.version \in Nat
        BY <1>12, AdminAssumption DEF Good, Call
    <2>3. (KnowsSessions(j) /\ KnowsWayIn(j))'
        BY <1>1, <1>4, <1>8, <1>12, <2>2 DEF Good, KnowsSessions, KnowsWayIn
    <2> QED
        BY <1>12, <2>1, <2>3 DEF Good
<1>a. password' = 0 => password = 0
    BY <1>4, <1>8
<1>b. calm' = calm
    BY <1>1
<1>13. CASE how # "done"
    <2>1. call' = [call EXCEPT ![c] = Idle] /\ Idle.op # "disconnect" /\ Good(Idle)'
        BY <1>2, <1>4, <1>8, <1>13, IdleStaysGood DEF Fails, Idle, Request
    <2>2. CallsOK' /\ OneDisconnects'
        BY <1>a, <1>b, <1>12, <2>1, CallMoves DEF IInv
    <2> QED
        BY <1>7, <1>9, <1>10, <1>11, <2>2 DEF IInv
<1>14. CASE how = "done"
    <2>1. PICK k : k = [call[c] EXCEPT !.at = "sessions", !.version = password + 1]
        OBVIOUS
    <2>2. call' = [call EXCEPT ![c] = k]
        BY <1>2, <1>14, <2>1
    <2>3. password + 1 \in 0 .. MaxPasswords /\ password' = password + 1
        BY <1>1, <1>4, <1>6, <1>14 DEF setPassword
    <2>4. /\ k \in Call /\ k.at = "sessions" /\ k.version = password + 1
          /\ k.op = call[c].op /\ k.what = call[c].what /\ k.counted = call[c].counted
        BY <1>3, <2>1, <2>3 DEF Call, Steps
    <2>5. Fits(k)
        BY <1>1, <1>3, <2>4 DEF Good, Fits, At
    <2>6. (KnowsFacts(k) /\ KnowsAddress(k) /\ KnowsWayIn(k))'
        BY <2>4 DEF KnowsFacts, KnowsAddress, KnowsWayIn
    <2>7. KnowsSessions(k)'
        BY <1>1, <1>3, <1>4, <2>3, <2>4 DEF Good, KnowsSessions, At
    <2>8. Good(k)'
        BY <2>4, <2>5, <2>6, <2>7 DEF Good, Fits
    <2>9. CallsOK' /\ OneDisconnects'
        BY <1>a, <1>b, <1>3, <1>12, <2>2, <2>4, <2>8, CallMoves DEF IInv
    <2> QED
        BY <1>7, <1>9, <1>10, <1>11, <2>9 DEF IInv
<1> QED
    BY <1>13, <1>14

\* Each session the loop passes is gone, or the answer says one would not end.
LEMMA EndOtherStep ==
    ASSUME IInv, NEW c \in Callers, NEW id \in Devices, NEW how \in Outcomes,
           EndOther(c, id, how), UNCHANGED <<desk, elsewhere>>
    PROVE  IInv'
<1>1. /\ At(c, "end") /\ id \in call[c].doomed
      /\ endSession(id, how)
      /\ UNCHANGED <<linked, age, password, email, factors, asked, ledger, calm, mail>>
    BY DEF EndOther
<1>2. Good(call[c]) /\ call[c] \in Call /\ call[c].op = "password"
    BY <1>1 DEF IInv, CallsOK, Good, Fits, At
<1>3. open' \subseteq open /\ (HappensAtProvider(how) => \A o \in open' : o.id # id)
    BY <1>1 DEF endSession
<1>4. AdminTypeOK' /\ BoundsOK' /\ LedgerOK' /\ AccountOK'
    <2> QED
        BY <1>1, <1>3
        DEF IInv, AdminTypeOK, BoundsOK, LedgerOK, AccountOK, ledger, mail
<1>5. KeepsAWayIn' /\ AddressSurvives'
    BY <1>1 DEF IInv, KeepsAWayIn, AddressSurvives, mail
<1>6. ASSUME NEW j, Good(j)
      PROVE  Good(j)'
    BY <1>1, <1>3, <1>6
    DEF Good, Fits, KnowsFacts, KnowsAddress, KnowsSessions, KnowsWayIn, ledger, mail
<1>7. CASE Throws(how)
    <2>1. PICK k : k = [call[c] EXCEPT !.at = "answered", !.doomed = {}]
        OBVIOUS
    <2>2. call' = [call EXCEPT ![c] = k]
        BY <1>7, <2>1 DEF EndOther
    <2>3. /\ k \in Call /\ k.at = "answered" /\ k.op = call[c].op
          /\ k.counted = call[c].counted /\ k.version = call[c].version
        BY <1>2, <2>1 DEF Call, Steps
    <2>4. (Fits(k) /\ KnowsFacts(k) /\ KnowsAddress(k) /\ KnowsWayIn(k))'
        BY <2>3 DEF Fits, KnowsFacts, KnowsAddress, KnowsWayIn
    <2>5. KnowsSessions(k)'
        BY <1>1, <1>2, <2>3 DEF Good, KnowsSessions, At
    <2>6. Good(k)'
        BY <2>3, <2>4, <2>5 DEF Good
    <2>7. CallsOK' /\ OneDisconnects'
        BY <1>1, <1>2, <1>6, <2>2, <2>3, <2>6, CallMoves DEF IInv
    <2> QED
        BY <1>4, <1>5, <2>7 DEF IInv
<1>8. CASE ~Throws(how)
    <2>1. PICK k : k = [call[c] EXCEPT !.doomed = call[c].doomed \ {id},
                                       !.skipped = call[c].skipped \/ Skips(id, how)]
        OBVIOUS
    <2>2. call' = [call EXCEPT ![c] = k]
        BY <1>8, <2>1 DEF EndOther
    <2>3. /\ k \in Call /\ k.at = "end" /\ k.op = call[c].op /\ k.what = call[c].what
          /\ k.doomed = call[c].doomed \ {id}
          /\ ~k.skipped => ~call[c].skipped /\ ~Skips(id, how)
          /\ k.counted = call[c].counted /\ k.version = call[c].version
        <3>1. Skips(id, how) \in BOOLEAN
            BY DEF Skips
        <3> QED
            BY <1>1, <1>2, <2>1, <3>1 DEF Call, At
    <2>4. (Fits(k) /\ KnowsFacts(k) /\ KnowsAddress(k) /\ KnowsWayIn(k))'
        BY <1>1, <1>2, <2>3 DEF Good, Fits, KnowsFacts, KnowsAddress, KnowsWayIn, At
    <2>5. ~k.skipped => \A o \in open' : o.id # id
        <3>1. CASE HappensAtProvider(how)
            BY <1>3, <3>1
        <3>2. CASE ~HappensAtProvider(how)
            <4>1. how = "refused"
                BY <1>8, <3>2 DEF HappensAtProvider, Throws, Outcomes
            <4> QED
                BY <1>3, <2>3, <4>1 DEF Skips
        <3> QED
            BY <3>1, <3>2
    <2>6. KnowsSessions(k)'
        BY <1>1, <1>2, <1>3, <2>3, <2>5 DEF Good, KnowsSessions, At
    <2>7. Good(k)'
        BY <2>3, <2>4, <2>6 DEF Good
    <2>8. CallsOK' /\ OneDisconnects'
        BY <1>1, <1>2, <1>6, <2>2, <2>3, <2>7, CallMoves DEF IInv
    <2> QED
        BY <1>4, <1>5, <2>8 DEF IInv
<1> QED
    BY <1>7, <1>8

\* An address set while the account is being written back is the race.
LEMMA SetEmailStep ==
    ASSUME IInv, NEW c \in Callers, NEW how \in Outcomes, SetEmail(c, how),
           UNCHANGED <<desk, elsewhere>>
    PROVE  IInv'
<1>1. /\ HappensAtProvider(how) => mails < MaxEmails
      /\ setEmail(mails + 1, how)
      /\ mails' = IF HappensAtProvider(how) THEN mails + 1 ELSE mails
      /\ raced' = (raced \/ \E d \in Callers : At(d, "write"))
      /\ UNCHANGED <<linked, age, password, open, factors, asked, ledger, calm>>
    BY DEF SetEmail
<1>2. email' = IF HappensAtProvider(how) THEN mails + 1 ELSE email
    BY <1>1 DEF setEmail
<1>3. mails' \in 1 .. MaxEmails /\ email' \in 0 .. MaxEmails
    BY <1>1, <1>2, AdminAssumption DEF IInv, BoundsOK, AdminTypeOK
<1>4. AdminTypeOK' /\ BoundsOK' /\ LedgerOK' /\ AccountOK'
    <2>2. raced' \in BOOLEAN
        BY <1>1 DEF IInv, BoundsOK
    <2> QED
        BY <1>1, <1>3, <2>2
        DEF IInv, AdminTypeOK, BoundsOK, LedgerOK, AccountOK, ledger
<1>5. KeepsAWayIn' /\ AddressSurvives'
    BY <1>1, <1>2 DEF IInv, KeepsAWayIn, AddressSurvives
<1>6. ASSUME NEW j, Good(j), \E d \in Callers : j = call[d]
      PROVE  Good(j)'
    <2>1. KnowsAddress(j)'
        BY <1>1, <1>6 DEF KnowsAddress, At
    <2>2. (Fits(j) /\ KnowsFacts(j) /\ KnowsSessions(j) /\ KnowsWayIn(j))'
        BY <1>1, <1>6 DEF Good, Fits, KnowsFacts, KnowsSessions, KnowsWayIn, ledger
    <2> QED
        BY <1>6, <2>1, <2>2 DEF Good
<1>7. password \in Nat
    BY AdminAssumption DEF IInv, AdminTypeOK
<1>8. call' = [call EXCEPT ![c] = Idle] /\ Idle.op # "disconnect" /\ Good(Idle)'
    BY <1>1, <1>7, IdleStaysGood DEF SetEmail, Ends, Fails, Idle, Request
<1>9. CallsOK' /\ OneDisconnects'
    BY <1>1, <1>6, <1>8, CallMoves DEF IInv
<1> QED
    BY <1>4, <1>5, <1>9 DEF IInv

\* With f off, the request goes on to the next factor, or says what it took off.
LEMMA RemovedGoesOn ==
    ASSUME IInv, NEW c \in Callers, NEW f \in Factors, Removed(c, f),
           call[c].at \in {"removeApp", "write"}, call[c].op \in {"disable", "recover"},
           happened \subseteq happened', fact("disabled", f) \in happened',
           UNCHANGED <<password, open, linked, mail, calm>>
    PROVE  /\ log' \subseteq happened'
           /\ \E k : call' = [call EXCEPT ![c] = k] /\ Good(k)' /\ k.op # "disconnect"
<1>1. Good(call[c]) /\ call[c] \in Call
    BY DEF IInv, CallsOK, Good
<1>2. \A g \in call[c].seen \ call[c].doomed : fact("disabled", g) \in happened'
    BY <1>1 DEF Good, KnowsFacts
<1>3. log' \subseteq happened'
    <2>1. CASE Went(c, f)
        BY <1>2, <2>1 DEF Removed, Went, IInv, LedgerOK
    <2>2. CASE ~Went(c, f)
        BY <2>2 DEF Removed, IInv, LedgerOK
    <2> QED
        BY <2>1, <2>2
<1>4. password' \in Nat
    BY AdminAssumption DEF IInv, AdminTypeOK
<1>5. CASE call[c].doomed # {f}
    <2> DEFINE toGo == call[c].doomed \ {f}
    <2>1. PICK k : k = [call[c] EXCEPT !.doomed = toGo, !.at = RemovalOf(toGo)]
        OBVIOUS
    <2>2. call' = [call EXCEPT ![c] = k]
        BY <1>5, <2>1 DEF Removed
    <2>3. RemovalOf(toGo) \in {"removeApp", "user"} /\ RemovalOf(toGo) \in Steps
        BY DEF RemovalOf, Steps
    <2>4. toGo \in SUBSET (Devices \union Factors)
        BY <1>1 DEF Call
    <2>5. call[c].seen \ toGo \subseteq (call[c].seen \ call[c].doomed) \union {f}
        OBVIOUS
    <2> HIDE DEF toGo
    <2>6. /\ k \in Call /\ k.at = RemovalOf(toGo) /\ k.doomed = toGo /\ k.seen = call[c].seen
          /\ k.op = call[c].op /\ k.what = call[c].what /\ k.skipped = call[c].skipped
          /\ k.counted = call[c].counted /\ k.version = call[c].version
        BY <1>1, <2>1, <2>3, <2>4 DEF Call
    <2>7. (Fits(k) /\ KnowsAddress(k) /\ KnowsWayIn(k))'
        BY <1>1, <2>3, <2>6 DEF Good, Fits, KnowsAddress, KnowsWayIn
    <2>8. KnowsFacts(k)'
        BY <1>2, <2>3, <2>5, <2>6 DEF KnowsFacts
    <2>9. KnowsSessions(k)'
        BY <1>1, <2>3, <2>6 DEF Good, KnowsSessions
    <2>10. Good(k)'
        BY <2>6, <2>7, <2>8, <2>9 DEF Good
    <2> QED
        BY <1>3, <2>2, <2>6, <2>10
<1>6. CASE call[c].doomed = {f} /\ call[c].op = "disable"
    <2>1. PICK k : k = Request("factors", "credentials", None)
        OBVIOUS
    <2>2. call' = [call EXCEPT ![c] = k]
        BY <1>6, <2>1 DEF Removed, DrawsAgain
    <2>3. /\ k \in Call /\ k.op = "factors" /\ k.at = "credentials" /\ k.what = None
          /\ k.version = 0 /\ ~k.counted
        BY <2>1, NewRequest DEF Ops, Steps
    <2>4. (Fits(k) /\ KnowsFacts(k) /\ KnowsAddress(k) /\ KnowsSessions(k) /\ KnowsWayIn(k))'
        BY <1>4, <2>3 DEF Fits, KnowsFacts, KnowsAddress, KnowsSessions, KnowsWayIn, Ops, About
    <2> QED
        BY <1>3, <2>2, <2>3, <2>4 DEF Good
<1>7. CASE call[c].doomed = {f} /\ call[c].op = "recover"
    <2>1. call' = [call EXCEPT ![c] = Idle] /\ Idle.op # "disconnect" /\ Good(Idle)'
        BY <1>4, <1>7, IdleStaysGood DEF Removed, Ends, Fails, Idle, Request
    <2> QED
        BY <1>3, <2>1
<1> QED
    BY <1>5, <1>6, <1>7

LEMMA RemoveAppStep ==
    ASSUME IInv, NEW c \in Callers, NEW how \in Outcomes, RemoveApp(c, how),
           UNCHANGED <<desk, elsewhere>>
    PROVE  IInv'
<1>1. /\ At(c, "removeApp") /\ removeSecondFactor(how)
      /\ IF HappensAtProvider(how) THEN Sees(fact("disabled", "app")) ELSE UNCHANGED happened
      /\ IF how = "done" THEN Removed(c, "app") ELSE Fails(c) /\ UNCHANGED log
      /\ UNCHANGED <<linked, age, password, open, email, asked, calm, mail>>
    BY DEF RemoveApp
<1>2. call[c].op \in {"disable", "recover"}
    BY <1>1 DEF IInv, CallsOK, Good, Fits, At
<1>3. "app" \in Factors /\ fact("disabled", "app") \in Fact
    BY Facts DEF Factors
<1>4. happened' \subseteq Fact /\ happened \subseteq happened'
    BY <1>1, <1>3 DEF IInv, LedgerOK, Sees
<1>5. factors' \subseteq factors
    BY <1>1 DEF removeSecondFactor
<1>6. AdminTypeOK' /\ BoundsOK'
    BY <1>1, <1>5 DEF IInv, AdminTypeOK, BoundsOK, mail
<1>7. AccountOK' /\ KeepsAWayIn' /\ AddressSurvives'
    BY <1>1, <1>4, <1>5 DEF IInv, AccountOK, KeepsAWayIn, AddressSurvives, mail
<1>8. ASSUME NEW j, Good(j)
      PROVE  Good(j)'
    BY <1>1, <1>4, <1>8 DEF Good, Fits, KnowsFacts, KnowsAddress, KnowsSessions, KnowsWayIn, mail
<1>9. /\ log' \subseteq happened'
      /\ \E k : call' = [call EXCEPT ![c] = k] /\ Good(k)' /\ k.op # "disconnect"
    <2>1. CASE how = "done"
        <3>1. fact("disabled", "app") \in happened'
            BY <1>1, <2>1 DEF Sees, HappensAtProvider
        <3>2. Removed(c, "app") /\ call[c].at \in {"removeApp", "write"}
            BY <1>1, <2>1 DEF At
        <3> QED
            BY <1>1, <1>2, <1>3, <1>4, <3>1, <3>2, RemovedGoesOn
    <2>2. CASE how # "done"
        <3>1. password' \in Nat
            BY <1>1, AdminAssumption DEF IInv, AdminTypeOK
        <3>2. call' = [call EXCEPT ![c] = Idle] /\ Idle.op # "disconnect" /\ Good(Idle)'
            BY <1>1, <2>2, <3>1, IdleStaysGood DEF Fails, Idle, Request
        <3> QED
            BY <1>1, <1>4, <2>2, <3>2 DEF IInv, LedgerOK
    <2> QED
        BY <2>1, <2>2
<1>10. CallsOK' /\ OneDisconnects'
    BY <1>1, <1>8, <1>9, CallMoves DEF IInv
<1> QED
    BY <1>4, <1>6, <1>7, <1>9, <1>10 DEF IInv, LedgerOK

LEMMA WritePhoneStep ==
    ASSUME IInv, NEW c \in Callers, NEW how \in Outcomes, WritePhone(c, how),
           UNCHANGED <<desk, elsewhere>>
    PROVE  IInv'
<1> DEFINE number == call[c].op = "enroll"
           written == fact(IF number THEN "enabled" ELSE "disabled", "sms")
<1>1. /\ At(c, "write") /\ writePhone(call[c].asRead, number, how)
      /\ IF HappensAtProvider(how) THEN Sees(written) ELSE UNCHANGED happened
      /\ UNCHANGED <<linked, age, password, open, asked, calm, mail>>
    BY DEF WritePhone
<1>2. /\ how # "done" => Fails(c) /\ log' = log
      /\ how = "done" /\ number => Records(written) /\ DrawsAgain(c)
      /\ how = "done" /\ ~number => Removed(c, "sms")
    BY DEF WritePhone
<1>3. Good(call[c]) /\ call[c] \in Call /\ call[c].op \in {"enroll", "disable", "recover"}
    BY <1>1 DEF IInv, CallsOK, Good, Fits, At
<1>4. "sms" \in Factors /\ written \in Fact
    BY Facts DEF Factors
<1>5. number => written = fact("enabled", "sms")
    OBVIOUS
<1>6. ~number => written = fact("disabled", "sms")
    OBVIOUS
<1>7. \/ UNCHANGED <<factors, email>>
      \/ /\ HappensAtProvider(how) /\ email' = call[c].asRead
         /\ factors' \subseteq factors \union (IF number THEN {"sms"} ELSE {})
    BY <1>1 DEF writePhone, phoneWritten
<1> HIDE DEF written
<1>8. happened' \subseteq Fact /\ happened \subseteq happened'
    BY <1>1, <1>4 DEF IInv, LedgerOK, Sees
<1>9. call[c].asRead \in 0 .. MaxEmails
    BY <1>3 DEF Call
<1>10. factors' \subseteq Factors /\ email' \in 0 .. MaxEmails
    BY <1>4, <1>7, <1>9 DEF IInv, AdminTypeOK
<1>11. AdminTypeOK' /\ BoundsOK'
    BY <1>1, <1>10 DEF IInv, AdminTypeOK, BoundsOK, mail
<1>12. AccountOK'
    <2>1. \A f \in factors' : f \in factors \/ (f = "sms" /\ number /\ HappensAtProvider(how))
        BY <1>7
    <2>2. number /\ HappensAtProvider(how) => fact("enabled", "sms") \in happened'
        BY <1>1, <1>5 DEF Sees
    <2> HIDE DEF number
    <2> QED
        BY <1>1, <1>8, <2>1, <2>2 DEF IInv, AccountOK
<1>13. KeepsAWayIn'
    BY <1>1 DEF IInv, KeepsAWayIn
<1>14. AddressSurvives'
    <2>1. ~raced => call[c].asRead = mails
        BY <1>1, <1>3 DEF Good, KnowsAddress, At
    <2> QED
        BY <1>1, <1>7, <2>1 DEF IInv, AddressSurvives, mail
<1>15. ASSUME NEW j, Good(j)
       PROVE  Good(j)'
    BY <1>1, <1>8, <1>15 DEF Good, Fits, KnowsFacts, KnowsAddress, KnowsSessions, KnowsWayIn, mail
<1>16. password' \in Nat
    BY <1>1, AdminAssumption DEF IInv, AdminTypeOK
<1>17. /\ log' \subseteq happened'
       /\ \E k : call' = [call EXCEPT ![c] = k] /\ Good(k)' /\ k.op # "disconnect"
    <2>1. CASE how # "done"
        <3>1. call' = [call EXCEPT ![c] = Idle] /\ Idle.op # "disconnect" /\ Good(Idle)'
            BY <1>2, <1>16, <2>1, IdleStaysGood DEF Fails, Idle, Request
        <3> QED
            BY <1>2, <1>8, <2>1, <3>1 DEF IInv, LedgerOK
    <2>2. CASE how = "done" /\ number
        <3>1. PICK k : k = Request("factors", "credentials", None)
            OBVIOUS
        <3>2. call' = [call EXCEPT ![c] = k]
            BY <1>2, <2>2, <3>1 DEF DrawsAgain
        <3>3. /\ k \in Call /\ k.op = "factors" /\ k.at = "credentials" /\ k.what = None
              /\ k.version = 0 /\ ~k.counted
            BY <3>1, NewRequest DEF Ops, Steps
        <3>4. (Fits(k) /\ KnowsFacts(k) /\ KnowsAddress(k) /\ KnowsSessions(k) /\ KnowsWayIn(k))'
            BY <1>16, <3>3 DEF Fits, KnowsFacts, KnowsAddress, KnowsSessions, KnowsWayIn, Ops, About
        <3>5. log' = log \union {written} /\ written \in happened'
            BY <1>1, <1>2, <2>2 DEF Records, Sees, HappensAtProvider
        <3> QED
            BY <1>8, <3>2, <3>3, <3>4, <3>5 DEF Good, IInv, LedgerOK
    <2>3. CASE how = "done" /\ ~number
        <3>1. fact("disabled", "sms") \in happened'
            BY <1>1, <1>6, <2>3 DEF Sees, HappensAtProvider
        <3>2. Removed(c, "sms") /\ call[c].at \in {"removeApp", "write"}
            BY <1>1, <1>2, <2>3 DEF At
        <3>3. call[c].op \in {"disable", "recover"}
            BY <1>3, <2>3
        <3> QED
            BY <1>1, <1>4, <1>8, <3>1, <3>2, <3>3, RemovedGoesOn
    <2> QED
        BY <2>1, <2>2, <2>3
<1>18. CallsOK' /\ OneDisconnects'
    BY <1>1, <1>15, <1>17, CallMoves DEF IInv
<1> QED
    BY <1>8, <1>11, <1>12, <1>13, <1>14, <1>17, <1>18 DEF IInv, LedgerOK

-----------------------------------------------------------------------------
(* What happens to the account elsewhere.                                  *)

LEMMA AtProviderStep ==
    ASSUME IInv, AtProvider, UNCHANGED desk
    PROVE  IInv'
<1>1. /\ elsewhere < MaxElsewhere /\ elsewhere' = elsewhere + 1
      /\ UNCHANGED <<password, email, asked, call, log, calm, mail>>
    BY DEF AtProvider
<1>2. \/ \E a \in Aliases : /\ Connected(a) /\ Sees(fact("connected", a))
                            /\ UNCHANGED <<age, open, factors>>
      \/ \E k \in Passkeys : /\ Registered(k) /\ Sees(fact("added", k))
                             /\ UNCHANGED <<linked, open, factors>>
      \/ \E k \in Passkeys : Ages(k) /\ UNCHANGED <<linked, open, factors, happened>>
      \/ \E id \in Devices : LogsIn(id) /\ UNCHANGED <<linked, age, factors, happened>>
      \/ SetUp /\ Sees(fact("enabled", "app")) /\ UNCHANGED <<linked, age, open>>
    BY DEF AtProvider
<1>3. password \in 0 .. MaxPasswords /\ password \in Nat
    BY AdminAssumption DEF IInv, AdminTypeOK
<1>4. /\ linked \subseteq linked' /\ linked' \subseteq Aliases
      /\ age' \in [Passkeys -> {"none", "fresh", "old"}] /\ factors' \subseteq Factors
    BY <1>2 DEF IInv, AdminTypeOK, Connected, Registered, Ages, SetUp, Factors
<1>5. open' \subseteq Session /\ \A o \in open' : o \in open \/ o.under = password
    BY <1>2, <1>3 DEF IInv, AdminTypeOK, Session, LogsIn
<1>6. happened' \subseteq Fact /\ happened \subseteq happened'
    BY <1>2, Facts DEF IInv, LedgerOK, Sees, Factors
<1>7. AccountOK'
    BY <1>2, <1>6 DEF IInv, AdminTypeOK, AccountOK, Connected, Registered, Ages, SetUp, Sees
<1>8. AdminTypeOK' /\ BoundsOK'
    BY <1>1, <1>4, <1>5, BoundAssumption
    DEF IInv, AdminTypeOK, BoundsOK, mail
<1>9. KeepsAWayIn' /\ AddressSurvives' /\ LedgerOK'
    BY <1>1, <1>4, <1>6 DEF IInv, KeepsAWayIn, AddressSurvives, LedgerOK, mail
<1>10. ASSUME NEW j, Good(j)
       PROVE  Good(j)'
    <2>1. (Fits(j) /\ KnowsFacts(j) /\ KnowsAddress(j) /\ KnowsWayIn(j))'
        BY <1>1, <1>4, <1>6, <1>10 DEF Good, Fits, KnowsFacts, KnowsAddress, KnowsWayIn, mail
    <2>2. j.version \in Nat
        BY <1>10, AdminAssumption DEF Good, Call
    <2>3. KnowsSessions(j)'
        BY <1>1, <1>3, <1>5, <1>10, <2>2 DEF Good, KnowsSessions
    <2> QED
        BY <1>10, <2>1, <2>3 DEF Good
<1>11. CallsOK'
    <2>1. ASSUME NEW c \in Callers PROVE Good(call[c])'
        <3>1. PICK j : j = call[c]
            OBVIOUS
        <3>2. Good(j)
            BY <3>1 DEF IInv, CallsOK
        <3> QED
            BY <1>1, <1>10, <3>1, <3>2
    <2> QED
        BY <1>1, <2>1 DEF IInv, CallsOK
<1>12. OneDisconnects'
    BY <1>1 DEF IInv, OneDisconnects, Alone, At
<1> QED
    BY <1>7, <1>8, <1>9, <1>11, <1>12 DEF IInv

-----------------------------------------------------------------------------
LEMMA Starts ==
    ASSUME Init
    PROVE  IInv
<1>1. password \in {0, 1} /\ linked \subseteq Aliases /\ factors \subseteq Factors
    BY DEF Init, AdminInit
<1>2. open \subseteq Session
    BY AdminAssumption DEF Init, AdminInit, Session
<1>3. AdminTypeOK
    BY <1>1, <1>2, AdminAssumption DEF Init, AdminInit, AdminTypeOK
<1>4. BoundsOK
    <2>1. asked = 0 /\ elsewhere = 0 /\ desk \in Desks /\ calm = TRUE /\ raced = FALSE /\ mails = 1
        BY DEF Init
    <2>2. 0 \in 0 .. MaxAsked /\ 0 \in 0 .. MaxElsewhere /\ 1 \in 1 .. MaxEmails
        BY AdminAssumption, BoundAssumption
    <2> QED
        BY <2>1, <2>2, Zenon DEF BoundsOK
<1>5. happened = {fact("connected", a) : a \in linked} \union {fact("enabled", f) : f \in factors}
    BY DEF Init
<1>6. LedgerOK /\ AccountOK
    BY <1>1, <1>5, Facts DEF Init, AdminInit, LedgerOK, AccountOK
<1>7. Idle \in Call /\ Idle.at = "none" /\ Idle.op = "none" /\ ~Idle.counted /\ Idle.version = 0
    BY AdminAssumption DEF Idle, Request, Call, Steps
<1>8. Good(Idle)
    BY <1>1, <1>7 DEF Good, Fits, KnowsFacts, KnowsAddress, KnowsSessions, KnowsWayIn
<1>9. CallsOK /\ OneDisconnects
    BY <1>7, <1>8 DEF Init, CallsOK, OneDisconnects, At
<1>10. KeepsAWayIn /\ AddressSurvives
    BY DEF Init, AdminInit, KeepsAWayIn, AddressSurvives
<1> QED
    BY <1>3, <1>4, <1>6, <1>9, <1>10 DEF IInv

LEMMA StepKeeps ==
    ASSUME IInv, [Next]_vars
    PROVE  IInv'
<1>1. CASE UNCHANGED vars
    <2>1. UNCHANGED <<account, desk, asked, elsewhere, call, log, happened, calm, mail>>
        BY <1>1 DEF vars, ledger
    <2>2. AdminTypeOK' /\ BoundsOK' /\ LedgerOK' /\ AccountOK'
        BY <2>1 DEF IInv, AdminTypeOK, BoundsOK, LedgerOK, AccountOK, account, mail
    <2>3. OneDisconnects' /\ KeepsAWayIn' /\ AddressSurvives'
        BY <2>1 DEF IInv, OneDisconnects, Alone, At, KeepsAWayIn, AddressSurvives, account, mail
    <2>4. ASSUME NEW c \in Callers PROVE Good(call[c])'
        <3>1. Good(call[c])
            BY DEF IInv, CallsOK
        <3> QED
            BY <2>1, <3>1
            DEF Good, Fits, KnowsFacts, KnowsAddress, KnowsSessions, KnowsWayIn, account, mail
    <2>5. CallsOK'
        BY <2>1, <2>4 DEF IInv, CallsOK
    <2> QED
        BY <2>2, <2>3, <2>5 DEF IInv
<1>2. CASE Next
    <2>1. CASE AtProvider
        BY <1>2, <2>1, AtProviderStep DEF Next
    <2>2. CASE ~AtProvider
        <3>1. UNCHANGED <<desk, elsewhere>>
            BY <1>2, <2>2 DEF Next
        <3>2. CASE \E c \in Callers, op \in Ops, how \in Outcomes :
                      \E what \in About(op) : Start(c, op, what, how)
            BY <3>1, <3>2, StartStep
        <3>3. ASSUME NEW c \in Callers, Continues(c) PROVE IInv'
            <4>1. CASE \E how \in Outcomes :
                          \/ LinksRead(c, how) \/ PasswordRead(c, how) \/ Unlink(c, how)
                          \/ LinksAgain(c, how) \/ Draw(c, how)
                BY <3>1, <4>1, LinksReadStep, PasswordReadStep, UnlinkStep, LinksAgainStep, DrawStep
            <4>2. CASE \E how \in Outcomes :
                          \/ KeysRead(c, how) \/ RemoveKey(c, how)
                          \/ SetPassword(c, how) \/ ListSessions(c, how)
                          \/ \E id \in Devices : EndOther(c, id, how)
                BY <3>1, <4>2, KeysReadStep, RemoveKeyStep, SetPasswordStep, ListSessionsStep,
                   EndOtherStep
            <4>3. CASE \E how \in Outcomes : SetEmail(c, how)
                BY <3>1, <4>3, SetEmailStep
            <4>4. CASE \E how \in Outcomes : FactorStep(c, how)
                BY <3>1, <4>4, CredentialsReadStep, AttributesReadStep, RemoveAppStep,
                   ReadUserStep, WritePhoneStep DEF FactorStep
            <4>5. CASE \E right, ended \in BOOLEAN, id \in Devices : Verify(c, right, id, ended)
                BY <3>1, <4>5, VerifyStep
            <4>6. CASE AllEnded(c)
                BY <3>1, <4>6, AllEndedStep
            <4> QED
                BY <3>3, <4>1, <4>2, <4>3, <4>4, <4>5, <4>6 DEF Continues
        <3> QED
            BY <1>2, <2>2, <3>2, <3>3 DEF Next
    <2> QED
        BY <2>1, <2>2
<1> QED
    BY <1>1, <1>2

-----------------------------------------------------------------------------
(* The invariant holds of every behaviour, and what it says.               *)

LEMMA Invariance == Spec => []IInv
<1> QED
    BY Starts, StepKeeps, PTL DEF Spec

LEMMA WhatItSays ==
    ASSUME IInv
    PROVE  TypeOK /\ LogIsTrue /\ KeepsAWayIn /\ OldSessionsEnded /\ AddressSurvives
<1>1. TypeOK
    <2>1. call \in [Callers -> Call] /\ happened \subseteq Fact /\ log \subseteq Fact
        BY DEF IInv, CallsOK, LedgerOK
    <2> QED
        BY <2>1 DEF IInv, TypeOK, BoundsOK
<1>2. LogIsTrue /\ KeepsAWayIn /\ AddressSurvives
    BY DEF IInv, LogIsTrue, LedgerOK
<1>3. OldSessionsEnded
    <2> SUFFICES ASSUME NEW c \in Callers, call[c].at = "answered", call[c].counted,
                        ~call[c].skipped, NEW o \in open
                 PROVE  o.id = call[c].what \/ o.under >= call[c].version
        BY DEF OldSessionsEnded
    <2>1. KnowsSessions(call[c])
        BY DEF IInv, CallsOK, Good
    <2> QED
        BY <2>1 DEF KnowsSessions
<1> QED
    BY <1>1, <1>2, <1>3

\* Every variable keeps to what the module says of it.
THEOREM WaysInTypeCorrect == Spec => []TypeOK
BY Invariance, WhatItSays, PTL

\* The security log tells only what happened to the account, whatever a URL
\* claims and however requests overlap, fail or go unanswered.
THEOREM LogTellsTheTruth == Spec => []LogIsTrue
BY Invariance, WhatItSays, PTL

\* One disconnection at a time never takes the last way into an account.
THEOREM AWayInIsKept == Spec => []KeepsAWayIn
BY Invariance, WhatItSays, PTL

\* A password change answered with a number left no older session open but its
\* own and those that would not end.
THEOREM OldSessionsAreEnded == Spec => []OldSessionsEnded
BY Invariance, WhatItSays, PTL

\* Writing the phone number does not touch the address, but for the race.
THEOREM TheAddressSurvives == Spec => []AddressSurvives
BY Invariance, WhatItSays, PTL

-----------------------------------------------------------------------------
(* The way in at the browser's end: GuiSession, whose variables are not    *)
(* those of the API.  Its SessionProvider keeps to its types whatever tabs *)
(* there are, and in a browser with one tab what that tab says of itself   *)
(* and what is in the two stores agree: every callback that settles the    *)
(* tab writes the stores in the same breath.                               *)

\* An answer that is taken up as granted is for a session.
GrantsSomething(b) == \A k \in Kinds : b.pending[k].at = "granted" => b.pending[k].of \in Sessions

\* What a tab says of itself, and the two places a token can be kept.
Match(b, here, there) ==
    /\ b.status = "signed-in" =>
          /\ b.tokens # NoSession
          /\ here = (IF b.remembered THEN b.tokens ELSE NoSession)
          /\ there = (IF b.remembered THEN NoSession ELSE b.tokens)
    /\ b.status = "signed-out" => b.tokens = NoSession /\ here = NoSession /\ there = NoSession

TabsTyped ==
    /\ made \in 0 .. MaxSessions
    /\ live \subseteq 1 .. made
    /\ local \in SessionOrNone
    /\ kept \in [Tabs -> SessionOrNone]
    /\ tab \in [Tabs -> Tab]
    /\ left \subseteq Tabs

TabsOK == TabsTyped /\ \A t \in Tabs : GrantsSomething(tab[t])

\* Every session that is mentioned in the browser was made.
Known == 1 .. made \union {NoSession}
AllMade == \A t \in Tabs : {local, kept[t]} \union Mentions(tab[t]) \subseteq Known

-----------------------------------------------------------------------------
LEMMA Nobody == NoSession \notin Sessions /\ Sessions \subseteq Nat
BY ConstantsAssumption DEF Sessions

LEMMA Requested ==
    ASSUME NEW s \in SessionOrNone, NEW remember \in BOOLEAN
    PROVE  /\ SentFor(s, remember) \in TokenRequest /\ NoRequest \in TokenRequest
           /\ SentFor(s, remember).at = "sent" /\ NoRequest.at = "none"
BY DEF SentFor, NoRequest, TokenRequest, SessionOrNone

LEMMA ClosedTab ==
    /\ Closed \in Tab /\ NothingPending \in [Kinds -> TokenRequest]
    /\ \A k \in Kinds : NothingPending[k].at = "none"
    /\ Closed.pending = NothingPending /\ Closed.status = "closed" /\ Closed.tokens = NoSession
<1>1. NothingPending \in [Kinds -> TokenRequest] /\ \A k \in Kinds : NothingPending[k].at = "none"
    BY Requested DEF NothingPending, NoRequest, TokenRequest, SessionOrNone
<1>2. 0 \in 0 .. MaxLoads /\ NoSession \in SessionOrNone
    BY ConstantsAssumption DEF SessionOrNone
<1> QED
    BY <1>1, <1>2 DEF Closed, Tab

\* One tab goes on to be b.
LEMMA TabMoves ==
    ASSUME TabsOK, NEW t \in Tabs, NEW b \in Tab, tab' = [tab EXCEPT ![t] = b], GrantsSomething(b)
    PROVE  /\ tab' \in [Tabs -> Tab] /\ tab'[t] = b
           /\ \A u \in Tabs : GrantsSomething(tab'[u])
BY DEF TabsOK, TabsTyped

\* A tab that has something else under way is otherwise the same.
SameBut(b, c) ==
    /\ c \in Tab /\ GrantsSomething(c)
    /\ c.status = b.status /\ c.tokens = b.tokens /\ c.remembered = b.remembered

LEMMA Pends ==
    ASSUME NEW b \in Tab, GrantsSomething(b), NEW k \in Kinds, NEW r \in TokenRequest,
           r.at = "granted" => r.of \in Sessions
    PROVE  SameBut(b, [b EXCEPT !.pending[k] = r])
<1>1. PICK c : c = [b EXCEPT !.pending[k] = r]
    OBVIOUS
<1>2. b.pending \in [Kinds -> TokenRequest]
    BY DEF Tab
<1>3. PICK p : p = [b.pending EXCEPT ![k] = r]
    OBVIOUS
<1>4. p \in [Kinds -> TokenRequest]
    BY <1>2, <1>3
<1>5. c = [b EXCEPT !.pending = p]
    BY <1>1, <1>3
<1>6. /\ c \in Tab /\ c.pending = p
      /\ c.status = b.status /\ c.tokens = b.tokens /\ c.remembered = b.remembered
    BY <1>4, <1>5 DEF Tab
<1>7. GrantsSomething(c)
    BY <1>2, <1>3, <1>6 DEF GrantsSomething
<1> QED
    BY <1>1, <1>6, <1>7 DEF SameBut

-----------------------------------------------------------------------------
(* What the callbacks of a tab do to it and to the stores.                 *)

Matches(t) == Match(tab[t], local, kept[t])

\* The page loads, whatever was under way.
LEMMA Loads ==
    ASSUME TabsOK, NEW t \in Tabs, NEW exchange \in TokenRequest, exchange.at # "granted",
           MayLoad(t), tab' = [tab EXCEPT ![t] = Loaded(t, exchange)], left' \subseteq Tabs,
           UNCHANGED <<made, live, local, kept>>
    PROVE  TabsOK' /\ Matches(t)'
<1> DEFINE stays == IF stored(t) = NoSession THEN NoRequest ELSE SentFor(stored(t), local # NoSession)
           p == [NothingPending EXCEPT !.restore = stays, !.login = exchange]
<1>1. stored(t) \in SessionOrNone
    BY DEF stored, TabsOK, TabsTyped
<1>2. stays \in TokenRequest /\ stays.at # "granted"
    BY <1>1, Requested
<1> HIDE DEF stays
<1>3. p \in [Kinds -> TokenRequest] /\ \A k \in Kinds : p[k].at # "granted"
    <2>1. \A k \in Kinds : p[k] \in {NothingPending[k], stays, exchange}
        BY ClosedTab DEF Kinds
    <2>2. DOMAIN p = Kinds
        BY ClosedTab DEF Kinds
    <2> QED
        BY <1>2, <2>1, <2>2, ClosedTab
<1>4. Loaded(t, exchange) =
        [Closed EXCEPT !.loads = tab[t].loads + 1,
                       !.status = IF stored(t) = NoSession THEN "signed-out" ELSE "loading",
                       !.pending = p]
    BY DEF Loaded, stays
<1> HIDE DEF p
<1>5. PICK b : b = Loaded(t, exchange)
    OBVIOUS
<1>6. tab[t].loads + 1 \in 0 .. MaxLoads
    BY ConstantsAssumption DEF MayLoad, TabsOK, TabsTyped, Tab
<1>7. b \in Tab
    BY <1>3, <1>4, <1>5, <1>6, ClosedTab DEF Tab
<1>8. /\ b.status = (IF stored(t) = NoSession THEN "signed-out" ELSE "loading")
      /\ b.pending = p /\ b.tokens = NoSession
    BY <1>4, <1>5 DEF Closed
<1>9. GrantsSomething(b)
    BY <1>3, <1>8 DEF GrantsSomething
<1>10. /\ tab' \in [Tabs -> Tab] /\ tab'[t] = b
       /\ \A u \in Tabs : GrantsSomething(tab'[u])
    BY <1>5, <1>7, <1>9, TabMoves
<1>11. TabsOK'
    BY <1>10 DEF TabsOK, TabsTyped
<1>12. Matches(t)'
    BY <1>8, <1>10 DEF Matches, Match, stored
<1> QED
    BY <1>11, <1>12

\* Something is asked for, or answered, that the tab has not taken up.
LEMMA StaysTheSame ==
    ASSUME TabsOK, NEW t \in Tabs, NEW b, SameBut(tab[t], b), tab' = [tab EXCEPT ![t] = b],
           made' \in 0 .. MaxSessions, live' \subseteq 1 .. made', left' \subseteq Tabs,
           UNCHANGED <<local, kept>>
    PROVE  TabsOK' /\ (Matches(t) => Matches(t)')
<1>1. /\ tab' \in [Tabs -> Tab] /\ tab'[t] = b
      /\ \A u \in Tabs : GrantsSomething(tab'[u])
    BY TabMoves DEF SameBut
<1>2. TabsOK'
    BY <1>1 DEF TabsOK, TabsTyped
<1>3. Matches(t) => Matches(t)'
    BY <1>1 DEF Matches, Match, SameBut
<1> QED
    BY <1>2, <1>3

LEMMA StoresTyped ==
    ASSUME TabsOK, NEW t \in Tabs, NEW s \in SessionOrNone, NEW remember \in BOOLEAN,
           Stores(t, s, remember)
    PROVE  /\ local' = (IF remember THEN s ELSE NoSession)
           /\ kept'[t] = (IF remember THEN NoSession ELSE s)
           /\ local' \in SessionOrNone /\ kept' \in [Tabs -> SessionOrNone]
BY DEF Stores, TabsOK, TabsTyped, SessionOrNone

LEMMA Applies ==
    ASSUME TabsOK, NEW t \in Tabs, NEW b \in Tab, GrantsSomething(b),
           NEW s \in Sessions, NEW remember \in BOOLEAN, apply(t, b, s, remember),
           left' \subseteq Tabs, UNCHANGED <<made, live>>
    PROVE  TabsOK' /\ Matches(t)'
<1>1. PICK c : c = Applied(b, s, remember)
    OBVIOUS
<1>2. s \in SessionOrNone /\ s # NoSession
    BY Nobody DEF SessionOrNone
<1>3. /\ c \in Tab /\ c.status = "signed-in" /\ c.tokens = s /\ c.remembered = remember
      /\ c.pending = b.pending
    BY <1>1, <1>2 DEF Applied, Tab
<1>4. GrantsSomething(c)
    BY <1>3 DEF GrantsSomething
<1>5. tab' = [tab EXCEPT ![t] = c] /\ Stores(t, s, remember)
    BY <1>1 DEF apply
<1>6. /\ tab' \in [Tabs -> Tab] /\ tab'[t] = c
      /\ \A u \in Tabs : GrantsSomething(tab'[u])
    BY <1>3, <1>4, <1>5, TabMoves
<1>7. /\ local' = (IF remember THEN s ELSE NoSession)
      /\ kept'[t] = (IF remember THEN NoSession ELSE s)
      /\ local' \in SessionOrNone /\ kept' \in [Tabs -> SessionOrNone]
    BY <1>2, <1>5, StoresTyped
<1>8. TabsOK'
    BY <1>6, <1>7 DEF TabsOK, TabsTyped
<1>9. Matches(t)'
    BY <1>2, <1>3, <1>6, <1>7 DEF Matches, Match
<1> QED
    BY <1>8, <1>9

LEMMA Clears ==
    ASSUME TabsOK, NEW t \in Tabs, NEW b \in Tab, GrantsSomething(b), clear(t, b),
           left' \subseteq Tabs, UNCHANGED <<made, live>>
    PROVE  TabsOK' /\ Matches(t)'
<1>1. PICK c : c = Cleared(b)
    OBVIOUS
<1>2. NoSession \in SessionOrNone
    BY DEF SessionOrNone
<1>3. c \in Tab /\ c.status = "signed-out" /\ c.tokens = NoSession /\ c.pending = b.pending
    BY <1>1, <1>2 DEF Cleared, Tab
<1>4. GrantsSomething(c)
    BY <1>3 DEF GrantsSomething
<1>5. tab' = [tab EXCEPT ![t] = c] /\ Stores(t, NoSession, FALSE)
    BY <1>1 DEF clear
<1>6. /\ tab' \in [Tabs -> Tab] /\ tab'[t] = c
      /\ \A u \in Tabs : GrantsSomething(tab'[u])
    BY <1>3, <1>4, <1>5, TabMoves
<1>7. /\ local' = NoSession /\ kept'[t] = NoSession
      /\ local' \in SessionOrNone /\ kept' \in [Tabs -> SessionOrNone]
    BY <1>2, <1>5, StoresTyped
<1>8. TabsOK'
    BY <1>6, <1>7 DEF TabsOK, TabsTyped
<1>9. Matches(t)'
    BY <1>3, <1>6, <1>7 DEF Matches, Match
<1> QED
    BY <1>8, <1>9

-----------------------------------------------------------------------------
(* Every step of a tab keeps every tab to its type; and what the tab itself *)
(* says goes on agreeing with the stores.                                   *)

Kept(t) == TabsOK' /\ (Matches(t) => Matches(t)')

LEMMA TypedTab ==
    ASSUME TabsOK, NEW t \in Tabs
    PROVE  /\ tab[t] \in Tab /\ GrantsSomething(tab[t])
           /\ tab[t].tokens \in SessionOrNone /\ tab[t].remembered \in BOOLEAN
           /\ tab[t].leaving \subseteq Sessions
           /\ \A k \in Kinds : tab[t].pending[k] \in TokenRequest
           /\ made' = made => made' \in 0 .. MaxSessions
           /\ made' = made /\ live' \subseteq live => live' \subseteq 1 .. made'
           /\ left \subseteq Tabs
BY DEF TabsOK, TabsTyped, Tab

\* The request of kind k is answered and out of the way.
LEMMA Settling ==
    ASSUME TabsOK, NEW t \in Tabs, NEW k \in Kinds
    PROVE  SameBut(tab[t], Settled(tab[t], k))
BY TypedTab, Requested, Pends DEF Settled

LEMMA Loading ==
    ASSUME TabsOK, NEW t \in Tabs, Load(t) \/ ReturnFromRedirect(t)
    PROVE  Kept(t)
<1>1. left' \subseteq Tabs
    BY TypedTab DEF Load, ReturnFromRedirect
<1>2. CASE Load(t)
    BY <1>1, <1>2, Requested, Loads DEF Load, Kept, SessionOrNone
<1>3. CASE ReturnFromRedirect(t)
    <2>1. SentFor(NoSession, TRUE) \in TokenRequest /\ SentFor(NoSession, TRUE).at # "granted"
        BY Requested DEF SessionOrNone
    <2> QED
        BY <1>1, <1>3, <2>1, Loads DEF ReturnFromRedirect, Kept
<1> QED
    BY <1>2, <1>3

LEMMA Closing ==
    ASSUME TabsOK, NEW t \in Tabs, Close(t)
    PROVE  Kept(t)
<1>1. PICK b : b = [Closed EXCEPT !.loads = tab[t].loads]
    OBVIOUS
<1>2. /\ b \in Tab /\ b.pending = NothingPending /\ b.status = "closed"
    BY <1>1, ClosedTab, TypedTab DEF Tab
<1>3. GrantsSomething(b)
    BY <1>2, ClosedTab DEF GrantsSomething
<1>4. /\ tab' \in [Tabs -> Tab] /\ tab'[t] = b
      /\ \A u \in Tabs : GrantsSomething(tab'[u])
    BY <1>1, <1>2, <1>3, TabMoves DEF Close
<1>5. TabsOK'
    BY <1>4 DEF Close, TabsOK, TabsTyped, SessionOrNone
<1>6. Matches(t)'
    BY <1>2, <1>4 DEF Matches, Match
<1> QED
    BY <1>5, <1>6 DEF Kept

LEMMA Asking ==
    ASSUME TabsOK, NEW t \in Tabs, NEW k \in Kinds, NEW r \in TokenRequest, r.at # "granted",
           tab' = [tab EXCEPT ![t].pending[k] = r], UNCHANGED <<made, live, local, kept, left>>
    PROVE  Kept(t)
<1>1. PICK b : b = [tab[t] EXCEPT !.pending[k] = r]
    OBVIOUS
<1>2. SameBut(tab[t], b)
    BY <1>1, TypedTab, Pends
<1>3. tab' = [tab EXCEPT ![t] = b]
    BY <1>1
<1> QED
    BY <1>2, <1>3, TypedTab, StaysTheSame DEF Kept

LEMMA Asks ==
    ASSUME TabsOK, NEW t \in Tabs,
           getAccessToken(t) \/ (\E remember \in BOOLEAN : login(t, remember))
    PROVE  Kept(t)
<1>1. CASE getAccessToken(t)
    <2>1. SentFor(tab[t].tokens, FALSE) \in TokenRequest /\ SentFor(tab[t].tokens, FALSE).at # "granted"
        BY TypedTab, Requested
    <2> QED
        BY <1>1, <2>1, Asking DEF getAccessToken, Kinds
<1>2. CASE \E remember \in BOOLEAN : login(t, remember)
    <2>1. PICK remember \in BOOLEAN : login(t, remember)
        BY <1>2
    <2>2. SentFor(NoSession, remember) \in TokenRequest /\ SentFor(NoSession, remember).at # "granted"
        BY Requested DEF SessionOrNone
    <2> QED
        BY <2>1, <2>2, Asking DEF login, Kinds
<1> QED
    BY <1>1, <1>2

LEMMA Refusing ==
    ASSUME TabsOK, NEW t \in Tabs, NEW k \in Kinds, Refuse(t, k)
    PROVE  Kept(t)
<1>1. PICK r : r = [tab[t].pending[k] EXCEPT !.at = "refused"]
    OBVIOUS
<1>2. r \in TokenRequest /\ r.at # "granted"
    BY <1>1, TypedTab DEF TokenRequest
<1>3. tab' = [tab EXCEPT ![t].pending[k] = r]
    BY <1>1 DEF Refuse
<1> QED
    BY <1>2, <1>3, Asking DEF Refuse

LEMMA Granting ==
    ASSUME TabsOK, NEW t \in Tabs, NEW k \in Kinds, Grant(t, k)
    PROVE  Kept(t)
<1>1. PICK s : s = (IF k = "login" THEN made + 1 ELSE tab[t].pending[k].of)
    OBVIOUS
<1>2. PICK r : r = [tab[t].pending[k] EXCEPT !.at = "granted", !.of = s]
    OBVIOUS
<1>3. PICK b : b = [tab[t] EXCEPT !.pending[k] = r]
    OBVIOUS
<1>4. tab[t].pending[k] \in TokenRequest /\ tab[t] \in Tab /\ tab[t].pending \in [Kinds -> TokenRequest]
    BY TypedTab DEF Tab
<1>5. /\ s \in Sessions
      /\ made' \in 0 .. MaxSessions /\ live' \subseteq 1 .. made' /\ left' \subseteq Tabs
    <2>1. CASE k = "login"
        BY <1>1, <2>1, ConstantsAssumption DEF Grant, TabsOK, TabsTyped, Sessions
    <2>2. CASE k # "login"
        BY <1>1, <2>2, ConstantsAssumption DEF Grant, TabsOK, TabsTyped, Sessions
    <2> QED
        BY <2>1, <2>2
<1>6. r \in TokenRequest /\ r.at = "granted" /\ r.of = s
    BY <1>2, <1>4, <1>5 DEF TokenRequest, SessionOrNone
<1>7. SameBut(tab[t], b)
    BY <1>3, <1>5, <1>6, TypedTab, Pends
<1>8. tab' = [tab EXCEPT ![t] = b]
    <2>1. CASE k = "login"
        <3>1. PICK r1 : r1 = [tab[t].pending[k] EXCEPT !.at = "granted"]
            OBVIOUS
        <3>2. PICK b1 : b1 = [tab[t] EXCEPT !.pending[k] = r1]
            OBVIOUS
        <3>3. PICK tab1 : tab1 = [tab EXCEPT ![t] = b1]
            OBVIOUS
        <3>4. tab' = [tab1 EXCEPT ![t].pending[k].of = s]
            BY <1>1, <2>1, <3>1, <3>2, <3>3 DEF Grant
        <3>5. tab1[t] = b1 /\ b1.pending[k] = r1
            BY <1>4, <3>2, <3>3 DEF TabsOK, TabsTyped, Tab
        <3>6. r = [r1 EXCEPT !.of = s]
            BY <1>2, <3>1
        <3>7. b = [b1 EXCEPT !.pending[k] = r]
            BY <1>3, <1>4, <3>2 DEF Tab
        <3>8. [tab1 EXCEPT ![t] = b] = [tab EXCEPT ![t] = b]
            BY <3>3 DEF TabsOK, TabsTyped
        <3>9. tab' = [tab1 EXCEPT ![t] = b]
            BY <3>4, <3>5, <3>6, <3>7
        <3> QED
            BY <3>8, <3>9
    <2>2. CASE k # "login"
        <3>1. r = [tab[t].pending[k] EXCEPT !.at = "granted"]
            BY <1>1, <1>2, <1>4, <2>2 DEF TokenRequest
        <3>2. tab' = [tab EXCEPT ![t].pending[k].at = "granted"]
            BY <2>2 DEF Grant
        <3> QED
            BY <1>3, <3>1, <3>2
    <2> QED
        BY <2>1, <2>2
<1> QED
    BY <1>5, <1>7, <1>8, StaysTheSame DEF Kept, Grant

LEMMA Answered ==
    ASSUME TabsOK, NEW t \in Tabs, RestoreAnswered(t) \/ RefreshAnswered(t) \/ LoginAnswered(t)
    PROVE  Kept(t)
<1>1. \A k \in Kinds :
        /\ Settled(tab[t], k) \in Tab /\ GrantsSomething(Settled(tab[t], k))
        /\ tab[t].pending[k].remember \in BOOLEAN
        /\ tab[t].pending[k].at = "granted" => tab[t].pending[k].of \in Sessions
    BY Settling, TypedTab DEF SameBut, GrantsSomething, TokenRequest
<1>2. left' \subseteq Tabs /\ UNCHANGED <<made, live>>
    BY TypedTab DEF RestoreAnswered, RefreshAnswered, LoginAnswered
<1>3. CASE RestoreAnswered(t)
    <2>1. "restore" \in Kinds
        BY DEF Kinds
    <2> QED
        BY <1>1, <1>2, <1>3, <2>1, Applies, Clears DEF RestoreAnswered, Kept
<1>4. CASE RefreshAnswered(t)
    <2>1. "refresh" \in Kinds
        BY DEF Kinds
    <2> QED
        BY <1>1, <1>2, <1>4, <2>1, TypedTab, Applies, Clears DEF RefreshAnswered, Kept
<1>5. CASE LoginAnswered(t)
    <2>1. "login" \in Kinds
        BY DEF Kinds
    <2>2. \/ /\ tab[t].pending["login"].at = "granted"
             /\ apply(t, Settled(tab[t], "login"), tab[t].pending["login"].of,
                      tab[t].pending["login"].remember)
          \/ /\ tab' = [tab EXCEPT ![t] = Settled(tab[t], "login")]
             /\ UNCHANGED <<local, kept>>
        BY <1>5 DEF LoginAnswered
    <2>3. CASE /\ tab' = [tab EXCEPT ![t] = Settled(tab[t], "login")]
               /\ UNCHANGED <<local, kept>>
        BY <1>2, <2>1, <2>3, Settling, TypedTab, StaysTheSame DEF Kept
    <2> QED
        BY <1>1, <1>2, <2>1, <2>2, <2>3, Applies DEF Kept
<1> QED
    BY <1>3, <1>4, <1>5

LEMMA Leaving ==
    ASSUME TabsOK, NEW t \in Tabs, NEW gone \in SUBSET Sessions
    PROVE  SameBut(tab[t], [tab[t] EXCEPT !.leaving = gone])
<1>1. PICK b : b = [tab[t] EXCEPT !.leaving = gone]
    OBVIOUS
<1>2. /\ b \in Tab /\ b.pending = tab[t].pending
      /\ b.status = tab[t].status /\ b.tokens = tab[t].tokens /\ b.remembered = tab[t].remembered
    BY <1>1, TypedTab DEF Tab
<1>3. GrantsSomething(b)
    BY <1>2, TypedTab DEF GrantsSomething
<1> QED
    BY <1>1, <1>2, <1>3 DEF SameBut

LEMMA LoggingOut ==
    ASSUME TabsOK, NEW t \in Tabs, logout(t)
    PROVE  Kept(t)
<1>1. PICK gone : gone = tab[t].leaving \union ({tab[t].tokens} \ {NoSession})
    OBVIOUS
<1>2. gone \in SUBSET Sessions
    BY <1>1, TypedTab DEF SessionOrNone
<1>3. PICK b : b = [tab[t] EXCEPT !.leaving = gone]
    OBVIOUS
<1>4. clear(t, b)
    BY <1>1, <1>3 DEF logout
<1>5. SameBut(tab[t], b)
    BY <1>2, <1>3, Leaving
<1>6. left' \subseteq Tabs
    BY TypedTab DEF logout
<1> QED
    BY <1>4, <1>5, <1>6, Clears DEF SameBut, logout, Kept

LEMMA Ending ==
    ASSUME TabsOK, NEW t \in Tabs, NEW s, endSessionOf(t, s)
    PROVE  Kept(t)
<1>1. PICK b : b = [tab[t] EXCEPT !.leaving = tab[t].leaving \ {s}]
    OBVIOUS
<1>2. SameBut(tab[t], b)
    <2>1. tab[t].leaving \ {s} \in SUBSET Sessions
        BY TypedTab
    <2> QED
        BY <1>1, <2>1, Leaving
<1>3. tab' = [tab EXCEPT ![t] = b]
    BY <1>1 DEF endSessionOf
<1>4. live' \subseteq live /\ UNCHANGED <<made, local, kept, left>>
    BY DEF endSessionOf
<1> QED
    BY <1>2, <1>3, <1>4, TypedTab, StaysTheSame DEF Kept

LEMMA Ageing ==
    ASSUME TabsOK, NEW t \in Tabs, AccessTokenAges(t)
    PROVE  Kept(t)
<1>1. PICK b : b = [tab[t] EXCEPT !.fresh = FALSE]
    OBVIOUS
<1>2. /\ b \in Tab /\ b.pending = tab[t].pending
      /\ b.status = tab[t].status /\ b.tokens = tab[t].tokens /\ b.remembered = tab[t].remembered
    BY <1>1, TypedTab DEF Tab
<1>3. SameBut(tab[t], b)
    BY <1>2, TypedTab DEF SameBut, GrantsSomething
<1>4. tab' = [tab EXCEPT ![t] = b]
    BY <1>1 DEF AccessTokenAges
<1> QED
    BY <1>3, <1>4, TypedTab, StaysTheSame DEF Kept, AccessTokenAges

LEMMA TabStep ==
    ASSUME TabsOK, NEW t \in Tabs, TabSteps(t)
    PROVE  Kept(t)
BY Loading, Closing, Asks, Granting, Refusing, Answered, LoggingOut, Ending, Ageing DEF TabSteps

-----------------------------------------------------------------------------
LEMMA Started == SessionInit => TabsOK /\ \A t \in Tabs : Matches(t)
<1> SUFFICES ASSUME SessionInit
             PROVE  TabsOK /\ \A t \in Tabs : Matches(t)
    OBVIOUS
<1>1. TabsTyped
    BY ConstantsAssumption, ClosedTab DEF SessionInit, TabsTyped, SessionOrNone
<1>2. \A t \in Tabs : tab[t] = Closed
    BY DEF SessionInit
<1>3. \A t \in Tabs : GrantsSomething(tab[t])
    BY <1>2, ClosedTab DEF GrantsSomething
<1>4. \A t \in Tabs : Matches(t)
    BY <1>2, ClosedTab DEF Matches, Match
<1> QED
    BY <1>1, <1>3, <1>4 DEF TabsOK

LEMMA TabsStayOK == TabsOK /\ [SessionNext]_sessionVars => TabsOK'
<1> SUFFICES ASSUME TabsOK, [SessionNext]_sessionVars
             PROVE  TabsOK'
    OBVIOUS
<1>1. CASE \E t \in Tabs : TabSteps(t)
    BY <1>1, TabStep DEF Kept
<1>2. CASE \E s \in live : SessionExpires(s)
    BY <1>2 DEF SessionExpires, TabsOK, TabsTyped
<1>3. CASE UNCHANGED sessionVars
    BY <1>3 DEF sessionVars, TabsOK, TabsTyped
<1> QED
    BY <1>1, <1>2, <1>3 DEF SessionNext

-----------------------------------------------------------------------------
(* A step of a tab mentions no session that was not mentioned before, but   *)
(* for the one a login has just made.                                       *)

LEMMA StillMade ==
    ASSUME TabsOK, AllMade, NEW t \in Tabs, NEW b, tab' = [tab EXCEPT ![t] = b],
           made' \in {made, made + 1}, Mentions(b) \subseteq Known',
           local' \in Known', kept'[t] \in Known',
           \A u \in Tabs \ {t} : kept'[u] = kept[u]
    PROVE  AllMade'
<1>1. Known \subseteq Known'
    BY DEF Known, TabsOK, TabsTyped
<1>2. tab'[t] = b /\ \A u \in Tabs \ {t} : tab'[u] = tab[u]
    BY DEF TabsOK, TabsTyped
<1>3. ASSUME NEW u \in Tabs
      PROVE  {local', kept'[u]} \union Mentions(tab'[u]) \subseteq Known'
    <2>1. CASE u = t
        BY <1>2, <2>1
    <2>2. CASE u # t
        BY <1>1, <1>2, <2>2 DEF AllMade
    <2> QED
        BY <2>1, <2>2
<1> QED
    BY <1>3 DEF AllMade, Mentions

LEMMA MentionedHere ==
    ASSUME TabsOK, AllMade, NEW t \in Tabs
    PROVE  /\ NoSession \in Known /\ local \in Known /\ kept[t] \in Known
           /\ tab[t].tokens \in Known /\ tab[t].leaving \subseteq Known
           /\ \A k \in Kinds : tab[t].pending[k].of \in Known
           /\ made' = made => Known' = Known
BY DEF AllMade, Known, Mentions

\* What was mentioned, when something of kind k is asked for, answered or done.
LEMMA PendsMade ==
    ASSUME NEW b \in Tab, NEW k \in Kinds, NEW r \in TokenRequest
    PROVE  Mentions([b EXCEPT !.pending[k] = r]) \subseteq Mentions(b) \union {r.of}
<1>1. PICK c : c = [b EXCEPT !.pending[k] = r]
    OBVIOUS
<1>2. b.pending \in [Kinds -> TokenRequest]
    BY DEF Tab
<1>3. c.tokens = b.tokens /\ c.leaving = b.leaving /\ c.pending = [b.pending EXCEPT ![k] = r]
    BY <1>1 DEF Tab
<1>4. \A j \in Kinds : c.pending[j] = IF j = k THEN r ELSE b.pending[j]
    BY <1>2, <1>3
<1> QED
    BY <1>1, <1>3, <1>4 DEF Mentions

LEMMA ClosedMentions == Mentions(Closed) = {NoSession}
<1>1. Closed.tokens = NoSession /\ Closed.leaving = {} /\ "login" \in Kinds
      /\ \A k \in Kinds : Closed.pending[k].of = NoSession
    BY DEF Closed, NothingPending, NoRequest, Kinds
<1> QED
    BY <1>1 DEF Mentions

LEMMA LoadedMade ==
    ASSUME TabsOK, AllMade, NEW t \in Tabs, NEW exchange \in TokenRequest,
           exchange.of = NoSession, tab' = [tab EXCEPT ![t] = Loaded(t, exchange)],
           UNCHANGED <<made, local, kept>>
    PROVE  AllMade'
<1> DEFINE stays == IF stored(t) = NoSession THEN NoRequest ELSE SentFor(stored(t), local # NoSession)
           p == [NothingPending EXCEPT !.restore = stays, !.login = exchange]
<1>1. PICK b : b = Loaded(t, exchange)
    OBVIOUS
<1>2. stays.of \in Known
    BY MentionedHere DEF stored, SentFor, NoRequest
<1> HIDE DEF stays
<1>3. \A k \in Kinds : p[k] \in {NothingPending[k], stays, exchange}
    BY ClosedTab DEF Kinds
<1>4. b.tokens = NoSession /\ b.leaving = {} /\ b.pending = p
    BY <1>1 DEF Loaded, Closed, stays
<1>5. \A k \in Kinds : NothingPending[k].of = NoSession
    BY DEF NothingPending, NoRequest
<1> HIDE DEF p
<1>6. Mentions(b) \subseteq Known
    BY <1>2, <1>3, <1>4, <1>5, MentionedHere DEF Mentions
<1> QED
    BY <1>1, <1>6, MentionedHere, StillMade

\* Something is asked for or answered, and nothing is taken up.
LEMMA PendingMade ==
    ASSUME TabsOK, AllMade, NEW t \in Tabs, NEW k \in Kinds, NEW r \in TokenRequest,
           r.of \in Known', made' \in {made, made + 1},
           tab' = [tab EXCEPT ![t] = [tab[t] EXCEPT !.pending[k] = r]], UNCHANGED <<local, kept>>
    PROVE  AllMade'
<1>1. Known \subseteq Known'
    BY DEF Known, TabsOK, TabsTyped
<1>2. Mentions(tab[t]) \subseteq Known
    BY DEF AllMade
<1>3. Mentions([tab[t] EXCEPT !.pending[k] = r]) \subseteq Mentions(tab[t]) \union {r.of}
    BY PendsMade, TypedTab
<1> QED
    BY <1>1, <1>2, <1>3, MentionedHere, StillMade

LEMMA AppliedMade ==
    ASSUME TabsOK, AllMade, NEW t \in Tabs, NEW b \in Tab, Mentions(b) \subseteq Known,
           NEW s \in Known, NEW remember \in BOOLEAN, apply(t, b, s, remember), UNCHANGED made
    PROVE  AllMade'
<1>1. PICK c : c = Applied(b, s, remember)
    OBVIOUS
<1>2. c.tokens = s /\ c.leaving = b.leaving /\ c.pending = b.pending
    BY <1>1 DEF Applied, Tab
<1>3. Mentions(c) \subseteq Known
    BY <1>2 DEF Mentions
<1>4. /\ local' \in Known /\ kept'[t] \in Known
      /\ \A u \in Tabs \ {t} : kept'[u] = kept[u]
    BY MentionedHere DEF apply, Stores, TabsOK, TabsTyped
<1> QED
    BY <1>1, <1>3, <1>4, MentionedHere, StillMade DEF apply

LEMMA ClearedMade ==
    ASSUME TabsOK, AllMade, NEW t \in Tabs, NEW b \in Tab, Mentions(b) \subseteq Known,
           clear(t, b), UNCHANGED made
    PROVE  AllMade'
<1>1. PICK c : c = Cleared(b)
    OBVIOUS
<1>2. c.tokens = NoSession /\ c.leaving = b.leaving /\ c.pending = b.pending
    BY <1>1 DEF Cleared, Tab
<1>3. Mentions(c) \subseteq Known
    BY <1>2, MentionedHere DEF Mentions
<1>4. /\ local' \in Known /\ kept'[t] \in Known
      /\ \A u \in Tabs \ {t} : kept'[u] = kept[u]
    BY MentionedHere DEF clear, Stores, TabsOK, TabsTyped
<1> QED
    BY <1>1, <1>3, <1>4, MentionedHere, StillMade DEF clear

LEMMA AnsweredMade ==
    ASSUME TabsOK, AllMade, NEW t \in Tabs,
           RestoreAnswered(t) \/ RefreshAnswered(t) \/ LoginAnswered(t)
    PROVE  AllMade'
<1>1. ASSUME NEW k \in Kinds
      PROVE  /\ Settled(tab[t], k) \in Tab /\ Mentions(Settled(tab[t], k)) \subseteq Known
             /\ tab[t].pending[k].remember \in BOOLEAN /\ tab[t].pending[k].of \in Known
    <2>1. NoRequest \in TokenRequest /\ NoRequest.of = NoSession
        BY Requested DEF NoRequest, SessionOrNone
    <2>2. Mentions(Settled(tab[t], k)) \subseteq Mentions(tab[t]) \union {NoSession}
        BY <2>1, PendsMade, TypedTab DEF Settled
    <2>3. Mentions(tab[t]) \subseteq Known
        BY DEF AllMade
    <2> QED
        BY <2>2, <2>3, Settling, TypedTab, MentionedHere DEF SameBut, TokenRequest
<1>2. "restore" \in Kinds /\ "refresh" \in Kinds /\ "login" \in Kinds
    BY DEF Kinds
<1>3. CASE RestoreAnswered(t)
    BY <1>1, <1>2, <1>3, AppliedMade, ClearedMade DEF RestoreAnswered
<1>4. CASE RefreshAnswered(t)
    BY <1>1, <1>2, <1>4, TypedTab, AppliedMade, ClearedMade DEF RefreshAnswered
<1>5. CASE LoginAnswered(t)
    <2>1. CASE /\ tab' = [tab EXCEPT ![t] = Settled(tab[t], "login")]
               /\ UNCHANGED <<local, kept>>
        BY <1>1, <1>2, <1>5, <2>1, MentionedHere, StillMade DEF LoginAnswered
    <2> QED
        BY <1>1, <1>2, <1>5, <2>1, AppliedMade DEF LoginAnswered
<1> QED
    BY <1>3, <1>4, <1>5

LEMMA GrantedMade ==
    ASSUME TabsOK, AllMade, NEW t \in Tabs, NEW k \in Kinds, Grant(t, k)
    PROVE  AllMade'
<1>1. /\ tab[t] \in Tab /\ tab[t].pending \in [Kinds -> TokenRequest] /\ made \in Nat
      /\ made' \in {made, made + 1} /\ UNCHANGED <<local, kept>>
    BY TypedTab DEF Grant, Tab, TabsOK, TabsTyped
<1>2. ASSUME NEW u \in Tabs
      PROVE  /\ tab'[u].tokens = tab[u].tokens /\ tab'[u].leaving = tab[u].leaving
             /\ \A j \in Kinds : \/ tab'[u].pending[j].of = tab[u].pending[j].of
                                 \/ made' = made + 1 /\ tab'[u].pending[j].of = made + 1
    <2>1. CASE u # t
        BY <2>1 DEF Grant, TabsOK, TabsTyped
    <2>2. CASE u = t /\ k # "login"
        <3>1. PICK r : r = [tab[t].pending[k] EXCEPT !.at = "granted"]
            OBVIOUS
        <3>2. r.of = tab[t].pending[k].of
            BY <3>1, TypedTab DEF TokenRequest
        <3>3. tab'[t] = [tab[t] EXCEPT !.pending[k] = r]
            BY <2>2, <3>1 DEF Grant, TabsOK, TabsTyped
        <3> QED
            BY <1>1, <2>2, <3>2, <3>3 DEF Tab
    <2>3. CASE u = t /\ k = "login"
        <3>1. PICK r : r = [tab[t].pending[k] EXCEPT !.at = "granted"]
            OBVIOUS
        <3>2. PICK b : b = [tab[t] EXCEPT !.pending[k] = r]
            OBVIOUS
        <3>3. PICK q : q = [tab EXCEPT ![t] = b]
            OBVIOUS
        <3>4. tab' = [q EXCEPT ![t].pending[k].of = made + 1] /\ made' = made + 1
            BY <2>3, <3>1, <3>2, <3>3 DEF Grant
        <3>5. q[t] = b /\ DOMAIN q = Tabs
            BY <3>3 DEF TabsOK, TabsTyped
        <3>6. /\ b.tokens = tab[t].tokens /\ b.leaving = tab[t].leaving
              /\ b.pending = [tab[t].pending EXCEPT ![k] = r]
            BY <1>1, <3>2 DEF Tab
        <3>7. tab'[t] = [b EXCEPT !.pending[k].of = made + 1]
            BY <3>4, <3>5
        <3>8. b.pending[k] = r /\ \A j \in Kinds \ {k} : b.pending[j] = tab[t].pending[j]
            BY <1>1, <3>6
        <3>9. PICK g : g = [r EXCEPT !.of = made + 1]
            OBVIOUS
        <3>10. g.of = made + 1
            BY <3>1, <3>9, TypedTab DEF TokenRequest
        <3>11. tab'[t] = [b EXCEPT !.pending = [b.pending EXCEPT ![k] = g]]
            BY <3>7, <3>8, <3>9
        <3>12. /\ tab'[t].tokens = b.tokens /\ tab'[t].leaving = b.leaving
               /\ tab'[t].pending = [b.pending EXCEPT ![k] = g]
            BY <1>1, <3>2, <3>11 DEF Tab
        <3>13. tab'[t].pending[k] = g /\ \A j \in Kinds \ {k} : tab'[t].pending[j] = b.pending[j]
            BY <1>1, <3>6, <3>12
        <3> QED
            BY <2>3, <3>4, <3>6, <3>8, <3>10, <3>12, <3>13
    <2> QED
        BY <2>1, <2>2, <2>3
<1>3. Known \subseteq Known' /\ (made' = made + 1 => made + 1 \in Known')
    BY <1>1 DEF Known
<1>4. ASSUME NEW u \in Tabs
      PROVE  {local', kept'[u]} \union Mentions(tab'[u]) \subseteq Known'
    BY <1>1, <1>2, <1>3, MentionedHere DEF Mentions
<1> QED
    BY <1>4 DEF AllMade, Mentions

LEMMA StepsMade ==
    ASSUME TabsOK, AllMade, NEW t \in Tabs, TabSteps(t)
    PROVE  AllMade'
<1>1. CASE Load(t) \/ ReturnFromRedirect(t)
    <2>1. /\ NoRequest \in TokenRequest /\ NoRequest.of = NoSession
          /\ SentFor(NoSession, TRUE) \in TokenRequest /\ SentFor(NoSession, TRUE).of = NoSession
        BY Requested DEF NoRequest, SentFor, SessionOrNone
    <2> QED
        BY <1>1, <2>1, LoadedMade DEF Load, ReturnFromRedirect
<1>2. CASE Close(t)
    <2>1. PICK b : b = [Closed EXCEPT !.loads = tab[t].loads]
        OBVIOUS
    <2>2. b.tokens = Closed.tokens /\ b.leaving = Closed.leaving /\ b.pending = Closed.pending
        BY <2>1 DEF Closed
    <2>3. Mentions(b) = Mentions(Closed)
        BY <2>2 DEF Mentions
    <2>4. Mentions(b) \subseteq Known
        BY <2>3, ClosedMentions, MentionedHere
    <2> QED
        BY <1>2, <2>1, <2>4, MentionedHere, StillMade DEF Close, TabsOK, TabsTyped
<1>3. CASE getAccessToken(t)
    <2>1. /\ SentFor(tab[t].tokens, FALSE) \in TokenRequest
          /\ SentFor(tab[t].tokens, FALSE).of = tab[t].tokens /\ "refresh" \in Kinds
        BY TypedTab, Requested DEF SentFor, Kinds
    <2>2. tab' = [tab EXCEPT ![t] = [tab[t] EXCEPT !.pending["refresh"] = SentFor(tab[t].tokens, FALSE)]]
        BY <1>3 DEF getAccessToken
    <2> QED
        BY <1>3, <2>1, <2>2, MentionedHere, PendingMade DEF getAccessToken
<1>4. ASSUME NEW remember \in BOOLEAN, login(t, remember)
      PROVE  AllMade'
    <2>1. /\ SentFor(NoSession, remember) \in TokenRequest
          /\ SentFor(NoSession, remember).of = NoSession /\ "login" \in Kinds
        BY Requested DEF SentFor, SessionOrNone, Kinds
    <2>2. tab' = [tab EXCEPT ![t] = [tab[t] EXCEPT !.pending["login"] = SentFor(NoSession, remember)]]
        BY <1>4 DEF login
    <2>3. NoSession \in Known' /\ made' \in {made, made + 1} /\ UNCHANGED <<local, kept>>
        BY <1>4, MentionedHere DEF login
    <2> QED
        BY <2>1, <2>2, <2>3, PendingMade
<1>5. ASSUME NEW k \in Kinds, Refuse(t, k)
      PROVE  AllMade'
    <2>1. PICK r : r = [tab[t].pending[k] EXCEPT !.at = "refused"]
        OBVIOUS
    <2>2. r \in TokenRequest /\ r.of = tab[t].pending[k].of
        BY <2>1, TypedTab DEF TokenRequest
    <2>3. tab' = [tab EXCEPT ![t] = [tab[t] EXCEPT !.pending[k] = r]]
        BY <1>5, <2>1 DEF Refuse
    <2>4. r.of \in Known' /\ made' \in {made, made + 1} /\ UNCHANGED <<local, kept>>
        BY <1>5, <2>2, MentionedHere DEF Refuse
    <2> QED
        BY <2>2, <2>3, <2>4, PendingMade
<1>6. CASE logout(t)
    <2>1. PICK b : b = [tab[t] EXCEPT !.leaving = tab[t].leaving \union ({tab[t].tokens} \ {NoSession})]
        OBVIOUS
    <2>2. tab[t].leaving \union ({tab[t].tokens} \ {NoSession}) \in SUBSET Sessions
        BY TypedTab DEF SessionOrNone
    <2>3. /\ b \in Tab /\ b.tokens = tab[t].tokens /\ b.pending = tab[t].pending
          /\ b.leaving \subseteq Known
        BY <2>1, <2>2, TypedTab, MentionedHere DEF Tab
    <2>4. Mentions(b) \subseteq Known
        BY <2>3, MentionedHere DEF Mentions
    <2> QED
        BY <1>6, <2>1, <2>3, <2>4, ClearedMade DEF logout
<1>7. ASSUME NEW s, endSessionOf(t, s)
      PROVE  AllMade'
    <2>1. PICK b : b = [tab[t] EXCEPT !.leaving = tab[t].leaving \ {s}]
        OBVIOUS
    <2>2. b.tokens = tab[t].tokens /\ b.pending = tab[t].pending /\ b.leaving \subseteq Known
        BY <2>1, TypedTab, MentionedHere DEF Tab
    <2>3. Mentions(b) \subseteq Known
        BY <2>2, MentionedHere DEF Mentions
    <2> QED
        BY <1>7, <2>1, <2>3, MentionedHere, StillMade DEF endSessionOf
<1>8. CASE AccessTokenAges(t)
    <2>1. PICK b : b = [tab[t] EXCEPT !.fresh = FALSE]
        OBVIOUS
    <2>2. b.tokens = tab[t].tokens /\ b.pending = tab[t].pending /\ b.leaving = tab[t].leaving
        BY <2>1, TypedTab DEF Tab
    <2>3. Mentions(b) \subseteq Known
        BY <2>2, MentionedHere DEF Mentions
    <2> QED
        BY <1>8, <2>1, <2>3, MentionedHere, StillMade DEF AccessTokenAges
<1> QED
    BY <1>1, <1>2, <1>3, <1>4, <1>5, <1>6, <1>7, <1>8, AnsweredMade, GrantedMade DEF TabSteps

\* Whatever the number of tabs, and in whatever order their requests are
\* answered and taken up, the variables keep to their types, and nothing in
\* the browser is of a session that nobody made: no tokens, no request, no
\* entry of either store and no logout that is still to be sent.
THEOREM SessionTypeCorrect == SessionSpec => []SessionTypeOK
<1>1. SessionInit => TabsOK /\ AllMade
    <2>1. SessionInit => \A t \in Tabs : local = NoSession /\ kept[t] = NoSession /\ tab[t] = Closed
        BY DEF SessionInit
    <2> QED
        BY <2>1, Started, ClosedMentions DEF AllMade, Known
<1>2. TabsOK /\ AllMade /\ [SessionNext]_sessionVars => TabsOK' /\ AllMade'
    <2> SUFFICES ASSUME TabsOK, AllMade, [SessionNext]_sessionVars PROVE TabsOK' /\ AllMade'
        OBVIOUS
    <2>1. CASE \E t \in Tabs : TabSteps(t)
        BY <2>1, StepsMade, TabsStayOK
    <2>2. CASE \E s \in live : SessionExpires(s)
        BY <2>2, TabsStayOK DEF SessionExpires, AllMade, Known, Mentions
    <2>3. CASE UNCHANGED sessionVars
        BY <2>3, TabsStayOK DEF sessionVars, AllMade, Known, Mentions
    <2> QED
        BY <2>1, <2>2, <2>3 DEF SessionNext
<1>3. TabsOK /\ AllMade => SessionTypeOK
    BY DEF TabsOK, TabsTyped, AllMade, Known, SessionTypeOK
<1> QED
    BY <1>1, <1>2, <1>3, PTL DEF SessionSpec

LEMMA OneTabStaysOK ==
    ASSUME NEW t, Tabs = {t}
    PROVE  TabsOK /\ Matches(t) /\ [SessionNext]_sessionVars => TabsOK' /\ Matches(t)'
<1> SUFFICES ASSUME TabsOK, Matches(t), [SessionNext]_sessionVars
             PROVE  TabsOK' /\ Matches(t)'
    OBVIOUS
<1>1. TabsOK'
    BY TabsStayOK
<1>2. CASE \E u \in Tabs : TabSteps(u)
    BY <1>2, TabStep DEF Kept
<1>3. CASE \E s \in live : SessionExpires(s)
    BY <1>1, <1>3 DEF SessionExpires, Matches, Match
<1>4. CASE UNCHANGED sessionVars
    BY <1>1, <1>4 DEF sessionVars, Matches, Match
<1> QED
    BY <1>1, <1>2, <1>3, <1>4 DEF SessionNext

\* In a browser with one tab, a signed-in tab has its refresh token in the
\* store its login chose and in no other, and a signed-out one has left no
\* token behind: with any number of logins, reloads, refreshes, refusals and
\* logouts under way at once.
THEOREM OneTabMatches ==
    ASSUME NEW CONSTANT t, Tabs = {t}
    PROVE  SessionSpec => []StorageMatches
<1>1. SessionInit => TabsOK /\ Matches(t)
    BY Started
<1>2. TabsOK /\ Matches(t) /\ [SessionNext]_sessionVars => TabsOK' /\ Matches(t)'
    BY OneTabStaysOK
<1>3. Matches(t) => StorageMatches
    BY DEF Matches, Match, StorageMatches, stored
<1> QED
    BY <1>1, <1>2, <1>3, PTL DEF SessionSpec
=============================================================================

--------------------------- MODULE OneTimeSecrets ---------------------------
(***************************************************************************)
(* The secrets main-api gives out to one account: password reset links,    *)
(* the codes texted to a phone number that is being enrolled, and sets of  *)
(* recovery codes; and the second factors they put on the account at the   *)
(* identity provider or take off it.                                       *)
(*                                                                         *)
(* A function that starts a secret retires the live ones of its kind, in a *)
(* statement with its own snapshot, and inserts.  One that spends a secret *)
(* reads it and then writes it by key, except for recovery codes, where    *)
(* one statement does both.  Each function is a transaction of its own and *)
(* the provider is called after it.                                        *)
(***************************************************************************)
EXTENDS FiniteSets, FiniteSetsExt, Naturals

CONSTANTS
    Sessions,       \* requests being served at the same time
    Numbers,        \* phone numbers
    NoNumber,       \* no phone on the account
    Cooldown,       \* the sixty seconds between two messages, in ticks
    CodeLife,       \* the ten minutes of a texted code
    Hour,           \* the hour of a link, and the rolling hour of the limits
    MaxPerAccount,  \* messages to an account in an hour
    MaxPerNumber,   \* messages to a number in an hour
    MaxAttempts,    \* wrong guesses at one code
    CodeCount,      \* recovery codes in a set
    MaxMade,        \* bound: secrets ever made
    MaxTime         \* bound: ticks

ASSUME ConstantsAssumption ==
    /\ NoNumber \notin Numbers
    /\ {Cooldown, CodeLife, Hour, MaxPerAccount, MaxPerNumber, MaxAttempts, CodeCount}
          \subseteq Nat \ {0}
    /\ {MaxMade, MaxTime} \subseteq Nat

VARIABLES
    clock,
    made,       \* how many secrets were made; the n-th has key n
    secret,     \* rows of PasswordResets, PhoneVerifications, RecoveryCodes
    phone,      \* the number on the account, its SMS factor
    app,        \* whether the account has an authenticator app
    call,       \* what each request is in the middle of
    calm,       \* history: no two transactions have overlapped so far
    used,       \* history: how often each secret was taken as right
    guesses     \* history: how often, while calm, each was guessed at wrongly

rows == <<made, secret>>
factors == <<phone, app>>
history == <<calm, used, guesses>>
vars == <<clock, rows, factors, call, history>>

-----------------------------------------------------------------------------
Keys == 1 .. MaxMade
Kinds == {"reset", "phone", "recovery"}

\* "number" is a message's, and "batch" tells the sets of recovery codes apart.
Secret == [kind : Kinds, spent : BOOLEAN, attempts : 0 .. MaxAttempts,
           number : Numbers \union {NoNumber}, at : Nat, batch : Keys]
Unmade == [kind |-> "none"]

New(kind, number, at, batch) ==
    [kind |-> kind, spent |-> FALSE, attempts |-> 0, number |-> number,
     at |-> at, batch |-> batch]

Idle == [op |-> "idle"]
StartCall == [op : {"start"}, kind : Kinds, number : Numbers \union {NoNumber},
              seen : SUBSET Keys, at : Nat]
SpendCall == [op : {"reset"}, key : Keys]
CheckCall == [op : {"check"}, key : Keys, right : BOOLEAN,
              attempts : 0 .. MaxAttempts, stale : BOOLEAN]
EnrollCall == [op : {"enroll"}, key : Keys]
ListCall == [op : {"list"}]
StripCall == [op : {"strip"}, left : SUBSET {"app", "sms"}]
Calls == {Idle} \union StartCall \union SpendCall \union CheckCall
           \union EnrollCall \union ListCall \union StripCall

TypeOK ==
    /\ clock \in 0 .. MaxTime /\ made \in 0 .. MaxMade
    /\ secret \in [Keys -> Secret \union {Unmade}]
    /\ phone \in Numbers \union {NoNumber} /\ app \in BOOLEAN
    /\ call \in [Sessions -> Calls]
    /\ calm \in BOOLEAN
    /\ used \in [Keys -> Nat] /\ guesses \in [Keys -> Nat]

Init ==
    /\ clock = 0 /\ made = 0
    /\ secret = [k \in Keys |-> Unmade]
    /\ phone = NoNumber /\ app = FALSE
    /\ call = [s \in Sessions |-> Idle]
    /\ calm = TRUE
    /\ used = [k \in Keys |-> 0] /\ guesses = [k \in Keys |-> 0]

-----------------------------------------------------------------------------
Of(kind) == {k \in Keys : secret[k].kind = kind}
Live(kind) == {k \in Of(kind) : ~secret[k].spent}

Starts(s, c) == call[s] = Idle /\ call' = [call EXCEPT ![s] = c]
Ends(s) == call' = [call EXCEPT ![s] = Idle]

InTransaction(c) == c.op \in {"start", "reset", "check"}
Begins == calm' = (calm /\ ~\E s \in Sessions : InTransaction(call[s]))

\* An hour for a link, ten minutes for a texted code, by the time at which the
\* transaction began.
Stale(k) == secret[k].at + (IF secret[k].kind = "phone" THEN CodeLife ELSE Hour) <= clock

Accepts(k) == used' = [used EXCEPT ![k] = @ + 1]

Tick ==
    /\ clock < MaxTime
    /\ clock' = clock + 1
    /\ UNCHANGED <<rows, factors, call, history>>

\* Somebody adds an authenticator app at the provider.
AppEnrolled ==
    /\ ~app /\ app' = TRUE
    /\ UNCHANGED <<clock, rows, phone, call, history>>

-----------------------------------------------------------------------------
(* Making secrets.                                                         *)

\* Mutant: the hour starts anew on the hour.
RecentThisHour == {k \in Of("phone") : secret[k].at \div Hour = clock \div Hour}

Recent == {k \in Of("phone") : secret[k].at + Hour > clock}

\* The limits that StartPhoneVerification reads.
MayText(number) ==
    /\ \A k \in Of("phone") : secret[k].at + Cooldown <= clock
    /\ Cardinality(Recent) < MaxPerAccount
    /\ Cardinality({k \in Recent : secret[k].number = number}) < MaxPerNumber

Size(kind) == IF kind = "recovery" THEN CodeCount ELSE 1

\* Mutant: an outstanding code is left as it is.
ToRetireButCodes(kind) == IF kind = "phone" THEN {} ELSE Live(kind)

ToRetire(kind) == Live(kind)

\* What the start has read: the limits, and the rows it will retire.
Start(s, kind, number) ==
    /\ kind = "phone" <=> number # NoNumber
    /\ kind = "phone" => MayText(number)
    /\ made + Size(kind) <= MaxMade
    /\ Starts(s, [op |-> "start", kind |-> kind, number |-> number,
                  seen |-> ToRetire(kind), at |-> clock])
    /\ Begins
    /\ UNCHANGED <<clock, rows, factors, used, guesses>>

\* The message goes out after the commit, whether or not it arrives.
StartCommit(s) ==
    /\ call[s].op = "start"
    /\ LET c == call[s]
           new == made + 1 .. made + Size(c.kind)
       IN  /\ new \subseteq Keys
           /\ made' = made + Size(c.kind)
           /\ secret' = [k \in Keys |->
                 CASE k \in new    -> New(c.kind, c.number, c.at, made + 1)
                   [] k \in c.seen -> [secret[k] EXCEPT !.spent = TRUE]
                   [] OTHER        -> secret[k]]
    /\ Ends(s)
    /\ UNCHANGED <<clock, factors, history>>

-----------------------------------------------------------------------------
(* Spending a reset link.                                                  *)

ResetGuard(s, k) ==
    /\ k \in Live("reset") /\ ~Stale(k)
    /\ Starts(s, [op |-> "reset", key |-> k])
    /\ Begins
    /\ UNCHANGED <<clock, rows, factors, used, guesses>>

\* Mutant: the password is set first, and the link spent in the next request.
ResetCommitUnspent(s) ==
    /\ call[s].op = "reset"
    /\ Accepts(call[s].key)
    /\ Ends(s)
    /\ UNCHANGED <<clock, rows, factors, calm, guesses>>

\* The password is set afterwards, at the provider, which may refuse.
ResetCommit(s) ==
    /\ call[s].op = "reset"
    /\ secret' = [secret EXCEPT ![call[s].key].spent = TRUE]
    /\ Accepts(call[s].key)
    /\ Ends(s)
    /\ UNCHANGED <<clock, made, factors, calm, guesses>>

-----------------------------------------------------------------------------
(* Enrolling a phone number.                                               *)

\* The one outstanding row, the newest if there should be more.
Outstanding(k) ==
    k \in Live("phone") /\ \A j \in Live("phone") : secret[j].at <= secret[k].at

CheckGuard(s, k, right) ==
    /\ Outstanding(k)
    /\ Starts(s, [op |-> "check", key |-> k, right |-> right,
                  attempts |-> secret[k].attempts, stale |-> Stale(k)])
    /\ Begins
    /\ UNCHANGED <<clock, rows, factors, used, guesses>>

CheckStale(s) ==
    /\ call[s].op = "check" /\ call[s].stale
    /\ secret' = [secret EXCEPT ![call[s].key].spent = TRUE]
    /\ Ends(s)
    /\ UNCHANGED <<clock, made, factors, history>>

\* Mutant: the limit is on the attempts before this one.
RetiresLate(attempts) == attempts > MaxAttempts

Retires(attempts) == attempts >= MaxAttempts

\* The row is written by key from what was read.
CheckWrong(s) ==
    /\ call[s].op = "check" /\ ~call[s].stale /\ ~call[s].right
    /\ LET k == call[s].key
           attempts == call[s].attempts + 1
       IN  /\ secret' = [secret EXCEPT ![k].attempts = attempts,
                                       ![k].spent = Retires(attempts)]
           /\ guesses' = IF calm THEN [guesses EXCEPT ![k] = @ + 1] ELSE guesses
    /\ Ends(s)
    /\ UNCHANGED <<clock, made, factors, calm, used>>

\* The unspent test is in the statement.  One that finds nothing is a refusal.
CheckRight(s) ==
    /\ call[s].op = "check" /\ ~call[s].stale /\ call[s].right
    /\ LET k == call[s].key
       IN  IF secret[k].spent
           THEN Ends(s) /\ UNCHANGED <<secret, used>>
           ELSE /\ secret' = [secret EXCEPT ![k].spent = TRUE]
                /\ Accepts(k)
                /\ call' = [call EXCEPT ![s] = [op |-> "enroll", key |-> k]]
    /\ UNCHANGED <<clock, made, factors, calm, guesses>>

\* Mutant: the number is the one the last message was started for.
NumberToEnrollLast(k) == secret[Max(Of("phone"))].number

NumberToEnroll(k) == secret[k].number

EnrollPhone(s) ==
    /\ call[s].op = "enroll"
    /\ phone' = NumberToEnroll(call[s].key)
    /\ Ends(s)
    /\ UNCHANGED <<clock, rows, app, history>>

-----------------------------------------------------------------------------
(* Recovery codes, and taking factors off.                                 *)

OnAccount ==
    (IF app THEN {"app"} ELSE {}) \union (IF phone # NoNumber THEN {"sms"} ELSE {})

\* Mutant: a code is looked up, spent or not.
RecoverableEvenSpent == Of("recovery")

Recoverable == Live("recovery")

\* The password was right.  One statement finds the code and spends it.
UseRecoveryCode(s, k) ==
    /\ k \in Recoverable
    /\ secret' = [secret EXCEPT ![k].spent = TRUE]
    /\ Accepts(k)
    /\ Starts(s, [op |-> "list"])
    /\ UNCHANGED <<clock, made, factors, calm, guesses>>

\* Then the account's factors are read, which may be none, to be taken off.
ListFactors(s) ==
    /\ call[s].op = "list"
    /\ call' = [call EXCEPT ![s] = [op |-> "strip", left |-> OnAccount]]
    /\ UNCHANGED <<clock, rows, factors, history>>

Disable(s, kind) ==
    /\ kind \in OnAccount
    /\ Starts(s, [op |-> "strip", left |-> {kind}])
    /\ UNCHANGED <<clock, rows, factors, history>>

RemoveFactor(s, kind) ==
    /\ call[s].op = "strip" /\ kind \in call[s].left
    /\ call' = [call EXCEPT ![s].left = @ \ {kind}]
    /\ app' = (app /\ kind # "app")
    /\ phone' = IF kind = "sms" THEN NoNumber ELSE phone
    /\ UNCHANGED <<clock, rows, history>>

\* Done, or a statement or a call to the provider fails.
Finishes(s) ==
    /\ call[s] # Idle
    /\ Ends(s)
    /\ UNCHANGED <<clock, rows, factors, history>>

-----------------------------------------------------------------------------
SessionSteps(s) ==
    \/ \E kind \in Kinds, number \in Numbers \union {NoNumber} : Start(s, kind, number)
    \/ StartCommit(s)
    \/ \E k \in Keys : ResetGuard(s, k)
    \/ ResetCommit(s)
    \/ \E k \in Keys, right \in BOOLEAN : CheckGuard(s, k, right)
    \/ CheckStale(s) \/ CheckWrong(s) \/ CheckRight(s) \/ EnrollPhone(s)
    \/ (\E k \in Keys : UseRecoveryCode(s, k)) \/ ListFactors(s)
    \/ \E kind \in {"app", "sms"} : Disable(s, kind) \/ RemoveFactor(s, kind)
    \/ Finishes(s)

Next ==
    \/ \E s \in Sessions : SessionSteps(s)
    \/ AppEnrolled
    \/ Tick

Spec == Init /\ [][Next]_vars

-----------------------------------------------------------------------------
(* Properties.                                                             *)

\* "Two requests racing with the same code cannot both find it unspent": a
\* recovery code is good once in any interleaving.
RecoveryCodeWorksOnce == \A k \in Of("recovery") : used[k] <= 1

\* "A link works once whatever happens next", and so does a texted code, for
\* as long as no two transactions have overlapped.
SecretWorksOnce == calm => \A k \in Of("reset") \union Of("phone") : used[k] <= 1

\* "Every earlier link/code for the account stops working the moment this
\* runs": of each kind the live secrets are the last made, until transactions
\* overlap.
OnlyTheLastIsLive ==
    calm => \A kind \in Kinds : \A k \in Live(kind), j \in Of(kind) :
                secret[j].batch <= secret[k].batch

\* "Five wrong guesses and the message has to be sent again": until
\* transactions overlap a code is guessed at no more often, and never after
\* it was right.
GuessesBounded ==
    calm => \A k \in Of("phone") : guesses[k] + used[k] <= MaxAttempts

\* The limits of StartPhoneVerification as a page of the log would show them:
\* until transactions overlap, no hour holds more messages than allowed.
MessagesBounded ==
    calm => \A k \in Of("phone") :
        LET hour == {j \in Of("phone") : secret[j].at <= secret[k].at
                                          /\ secret[j].at + Hour > secret[k].at}
        IN  /\ Cardinality(hour) <= MaxPerAccount
            /\ \A n \in Numbers :
                  Cardinality({j \in hour : secret[j].number = n}) <= MaxPerNumber

\* What bounds somebody who guesses, or who has messages sent: both limits.
LimitsKept == GuessesBounded /\ MessagesBounded

\* "The only number this can turn into a second factor is the one a code was
\* sent to and answered", in any interleaving.
NumberAnswered ==
    phone # NoNumber =>
        \E k \in Of("phone") : secret[k].number = phone /\ used[k] > 0
=============================================================================

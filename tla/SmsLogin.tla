------------------------------ MODULE SmsLogin ------------------------------
(***************************************************************************)
(* The SMS second factor of the Keycloak plugin, for one account: the code *)
(* it is waiting for (SmsCode), the budget of messages (SmsSendBudget) and *)
(* the two flows that use them, the browser form (SmsAuthenticator) and    *)
(* the direct grant (SmsDirectGrantAuthenticator).                         *)
(*                                                                         *)
(* Code and budget live in Keycloak's single-use object store, which every *)
(* instance shares and which offers get, put and an atomic remove, but no  *)
(* compare-and-set.  A request is therefore one step per store operation   *)
(* and one for the gateway, and requests for the same account interleave   *)
(* between them.  Keys are per account, so one account is the whole story. *)
(***************************************************************************)
EXTENDS FiniteSets, Naturals, Sequences

CONSTANTS
    Requests,       \* requests being served at the same time
    Flows,          \* which of "browser" and "grant" the realm has
    Cooldown,       \* COOLDOWN_SECONDS, in ticks
    Window,         \* WINDOW_SECONDS
    Lifetime,       \* LIFETIME_SECONDS
    MaxInWindow,    \* MAX_IN_WINDOW
    MaxCodes,       \* bound: messages ever claimed, so codes ever made
    MaxTime         \* bound: ticks

ASSUME ConstantsAssumption ==
    /\ Flows \subseteq {"browser", "grant"}
    /\ {Cooldown, Window, Lifetime, MaxInWindow} \subseteq Nat \ {0}
    /\ MaxCodes \in Nat /\ MaxTime \in Nat

VARIABLES
    clock,
    hasNumber,  \* SmsPhone.of(user) # null
    slot,       \* the store's entry under "front-runner.sms-code."
    budget,     \* the store's entry under "front-runner.sms-sends."
    req,        \* what each request is in the middle of
    made,       \* how many codes were generated; the n-th is code n
    messages,   \* codes that reached the handset, in order
    claims,     \* history: every ALLOWED decision, in order
    guesses,    \* history: how often each code was taken and compared
    logins,     \* history: codes that let a login through
    unheard,    \* history: codes the form gave up unremembered, the gateway being late
    calm        \* history: no two requests overlapped and none died so far

store == <<slot, budget>>
history == <<claims, guesses, logins, unheard>>
vars == <<clock, hasNumber, slot, budget, req, made, messages, claims, guesses, logins, unheard, calm>>

-----------------------------------------------------------------------------
Codes == 1 .. MaxCodes

\* The six digits are told apart from one another; a wrong answer is 0.
WrongCode == 0
NoCode == [code |-> 0, until |-> 0]
NoNote == [count |-> 0, endsAt |-> 0, lastSentAt |-> 0, until |-> 0]
Note == [count : Nat, endsAt : Nat, lastSentAt : Nat, until : Nat]

Stages == {"idle", "claim", "clear", "put", "send", "forget", "remember"}
Idle == [at |-> "idle", flow |-> "browser", note |-> NoNote, code |-> 0]
Request == [at : Stages, flow : {"browser", "grant"}, note : Note,
            code : Codes \union {0}]

TypeOK ==
    /\ clock \in Nat
    /\ hasNumber \in BOOLEAN
    /\ slot \in [code : Codes \union {0}, until : Nat]
    /\ budget \in Note
    /\ req \in [Requests -> Request]
    /\ made \in 0 .. MaxCodes
    /\ messages \in Seq(Codes)
    /\ claims \in Seq([at : Nat, fresh : BOOLEAN])
    /\ guesses \in [Codes -> Nat]
    /\ logins \subseteq Codes
    /\ unheard \subseteq Codes
    /\ calm \in BOOLEAN

Init ==
    /\ clock = 0
    /\ hasNumber = TRUE
    /\ slot = NoCode /\ budget = NoNote
    /\ req = [r \in Requests |-> Idle]
    /\ made = 0
    /\ messages = <<>> /\ claims = <<>>
    /\ guesses = [c \in Codes |-> 0]
    /\ logins = {} /\ unheard = {}
    /\ calm = TRUE

-----------------------------------------------------------------------------
(* A request arrives.                                                      *)

Arrives(r, f) ==
    /\ req[r] = Idle /\ f \in Flows
    /\ calm' = (calm /\ \A q \in Requests : req[q] = Idle)

\* Bound: every request that may be allowed a message has a code to make.
MayMakeACode ==
    Len(claims) + Cardinality({r \in Requests : req[r].at = "claim"}) < MaxCodes

GoesOnTo(r, stage) == req' = [req EXCEPT ![r].at = stage]
IsDone(r) == req' = [req EXCEPT ![r] = Idle]

outstanding == slot # NoCode
Delivered == {messages[i] : i \in DOMAIN messages}

\* First sight of the step, or a grant without a code: a code that is
\* already waiting is asked for again, with nothing sent.
Authenticate(r, f) ==
    /\ Arrives(r, f) /\ MayMakeACode
    /\ hasNumber /\ ~outstanding
    /\ req' = [req EXCEPT ![r] = [Idle EXCEPT !.at = "claim", !.flow = f]]
    /\ UNCHANGED <<clock, hasNumber, store, made, messages, history>>

\* "Send it again", from the link under the browser's form.
Resend(r) ==
    /\ Arrives(r, "browser") /\ MayMakeACode
    /\ hasNumber
    /\ req' = [req EXCEPT ![r] = [Idle EXCEPT !.at = "claim"]]
    /\ UNCHANGED <<clock, hasNumber, store, made, messages, history>>

\* Mutant: the code is read, and removed only when it was right.
SpendByReading(presented) ==
    /\ slot' = IF presented = slot.code THEN NoCode ELSE slot
    /\ guesses' = IF outstanding THEN [guesses EXCEPT ![slot.code] = @ + 1] ELSE guesses

\* SmsCode.spend: the entry is taken whether or not it matches.
Spend(presented) ==
    /\ slot' = NoCode
    /\ guesses' = IF outstanding THEN [guesses EXCEPT ![slot.code] = @ + 1] ELSE guesses

\* The form, or the grant, comes back with digits: either some message's, or
\* digits no message carried.  The browser takes the code before it looks for
\* the number, the grant after.
Answers(r, f, presented) ==
    /\ Arrives(r, f)
    /\ f = "grant" => hasNumber
    /\ Spend(presented)

AnswerRight(r, f) ==
    /\ outstanding
    /\ slot.code \in Delivered
    /\ Answers(r, f, slot.code)
    /\ logins' = logins \union {slot.code}
    /\ UNCHANGED <<clock, hasNumber, budget, req, made, messages, claims, unheard>>

\* A wrong answer goes on to ask for another message.
AnswerWrong(r, f, presented) ==
    /\ MayMakeACode
    /\ outstanding => presented # slot.code
    /\ Answers(r, f, presented)
    /\ IF hasNumber
       THEN req' = [req EXCEPT ![r] = [Idle EXCEPT !.at = "claim", !.flow = f]]
       ELSE UNCHANGED req
    /\ UNCHANGED <<clock, hasNumber, budget, made, messages, claims, logins, unheard>>

-----------------------------------------------------------------------------
(* SmsSendBudget.claim: get, then remove and put.                          *)

\* The record a message at this instant leaves behind.  "until" is what is
\* left of its lifespan until the put fixes when the entry goes.
\* Mutant: the window is dated backwards.
FreshNoteBackwards == [count |-> 1, endsAt |-> clock - Window,
                       lastSentAt |-> clock, until |-> Window]

FreshNote == [count |-> 1, endsAt |-> clock + Window,
              lastSentAt |-> clock, until |-> Window]

\* Mutant: a message is not counted.
NextNoteUncounted ==
    [count |-> budget.count, endsAt |-> budget.endsAt, lastSentAt |-> clock,
     until |-> IF budget.endsAt > clock THEN budget.endsAt - clock ELSE 1]

NextNote ==
    [count |-> budget.count + 1, endsAt |-> budget.endsAt, lastSentAt |-> clock,
     until |-> IF budget.endsAt > clock THEN budget.endsAt - clock ELSE 1]

Allowed == budget = NoNote \/ (/\ budget.count < MaxInWindow
                               /\ clock - budget.lastSentAt >= Cooldown)

ClaimRead(r) ==
    /\ req[r].at = "claim"
    /\ IF Allowed
       THEN /\ req' = [req EXCEPT ![r].at = IF budget = NoNote THEN "put" ELSE "clear",
                                  ![r].note = IF budget = NoNote THEN FreshNote ELSE NextNote]
            /\ claims' = Append(claims, [at |-> clock, fresh |-> budget = NoNote])
       ELSE IsDone(r) /\ UNCHANGED claims
    /\ UNCHANGED <<clock, hasNumber, store, made, messages, guesses, logins, unheard, calm>>

ClaimClear(r) ==
    /\ req[r].at = "clear"
    /\ budget' = NoNote
    /\ GoesOnTo(r, "put")
    /\ UNCHANGED <<clock, hasNumber, slot, made, messages, history, calm>>

\* The browser sends the new code first, the grant remembers it first.
AfterClaim(r) == IF req[r].flow = "browser" THEN "send" ELSE "forget"

ClaimPut(r) ==
    /\ req[r].at = "put"
    /\ budget' = [req[r].note EXCEPT !.until = @ + clock]
    /\ made' = made + 1
    /\ req' = [req EXCEPT ![r].at = AfterClaim(r), ![r].code = made + 1]
    /\ UNCHANGED <<clock, hasNumber, slot, messages, history, calm>>

-----------------------------------------------------------------------------
(* SmsCode.remember, remove then put, and the gateway.                     *)

\* Mutant: the browser flow goes home once its message is out.
AfterSendNotRemembered(r) == "idle"

AfterSend(r) == IF req[r].flow = "browser" THEN "forget" ELSE "idle"
AfterRemember(r) == IF req[r].flow = "browser" THEN "idle" ELSE "send"

GoesOn(r, stage) == IF stage = "idle" THEN IsDone(r) ELSE GoesOnTo(r, stage)

Send(r) ==
    /\ req[r].at = "send"
    /\ messages' = Append(messages, req[r].code)
    /\ GoesOn(r, AfterSend(r))
    /\ UNCHANGED <<clock, hasNumber, store, made, history, calm>>

\* The message goes out but the gateway's answer does not come back in time.
\* Both flows give the request up: the grant has remembered its code by then,
\* the form never will, and leaves the code that was waiting before it.
SendAnswerLost(r) ==
    /\ req[r].at = "send"
    /\ messages' = Append(messages, req[r].code)
    /\ IsDone(r)
    /\ unheard' = IF req[r].flow = "browser" THEN unheard \union {req[r].code} ELSE unheard
    /\ UNCHANGED <<clock, hasNumber, store, made, claims, guesses, logins, calm>>

\* The gateway is not set up or refuses; both flows give the request up.
SendFails(r) ==
    /\ req[r].at = "send"
    /\ IsDone(r)
    /\ UNCHANGED <<clock, hasNumber, store, made, messages, history, calm>>

Forget(r) ==
    /\ req[r].at = "forget"
    /\ slot' = NoCode
    /\ GoesOnTo(r, "remember")
    /\ UNCHANGED <<clock, hasNumber, budget, made, messages, history, calm>>

Remember(r) ==
    /\ req[r].at = "remember"
    /\ slot' = [code |-> req[r].code, until |-> clock + Lifetime]
    /\ GoesOn(r, AfterRemember(r))
    /\ UNCHANGED <<clock, hasNumber, budget, made, messages, history, calm>>

\* The instance serving the request stops, or the store throws.
RequestDies(r) ==
    /\ req[r] # Idle
    /\ IsDone(r)
    /\ calm' = FALSE
    /\ UNCHANGED <<clock, hasNumber, store, made, messages, history>>

\* Time passes; the store drops what has outlived its lifespan.
Tick ==
    /\ clock < MaxTime
    /\ clock' = clock + 1
    /\ slot' = IF slot.until <= clock + 1 THEN NoCode ELSE slot
    /\ budget' = IF budget.until <= clock + 1 THEN NoNote ELSE budget
    /\ UNCHANGED <<hasNumber, req, made, messages, history, calm>>

\* main-api takes the number off the account, or puts one on.
NumberChanges ==
    /\ hasNumber' = ~hasNumber
    /\ UNCHANGED <<clock, store, req, made, messages, history, calm>>

RequestSteps(r) ==
    \/ \E f \in Flows : Authenticate(r, f) \/ AnswerRight(r, f)
    \/ Resend(r)
    \/ \E f \in Flows, c \in Delivered \union {WrongCode} : AnswerWrong(r, f, c)
    \/ ClaimRead(r) \/ ClaimClear(r) \/ ClaimPut(r)
    \/ Send(r) \/ SendAnswerLost(r) \/ SendFails(r)
    \/ Forget(r) \/ Remember(r)
    \/ RequestDies(r)

Next == Tick \/ NumberChanges \/ \E r \in Requests : RequestSteps(r)

Spec == Init /\ [][Next]_vars

-----------------------------------------------------------------------------
(* Properties.                                                             *)

\* "One guess per message": however requests overlap or die, a code that was
\* made is taken and compared at most once, so it lets at most one login in.
OneGuessPerCode == \A c \in Codes : guesses[c] <= 1

\* The budget, with one request at a time: a message that finds no record
\* opens a window, windows do not overlap, no window has more messages than
\* MAX_IN_WINDOW, and those are COOLDOWN_SECONDS apart.
InWindowOf(i) ==
    {j \in i .. Len(claims) : claims[j].at < claims[i].at + Window}

BudgetKept ==
    \A i \in DOMAIN claims : calm /\ claims[i].fresh =>
        /\ Cardinality(InWindowOf(i)) <= MaxInWindow
        /\ \A j \in InWindowOf(i) \ {i} :
              ~claims[j].fresh /\ claims[j].at >= claims[j - 1].at + Cooldown

\* As long as requests do not overlap or die, "the first message stops working
\* the moment the second is sent", but for a second that the form took for not
\* sent: a login is let in by a message the form did not give up, and every
\* message the handset has had since is one it did.
LatestMessageOnly ==
    [][calm' => \A c \in logins' \ logins :
          /\ c \notin unheard
          /\ \E i \in DOMAIN messages :
                /\ messages[i] = c
                /\ \A j \in DOMAIN messages : j > i => messages[j] \in unheard]_vars
=============================================================================

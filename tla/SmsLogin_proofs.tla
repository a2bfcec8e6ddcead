--------------------------- MODULE SmsLogin_proofs ---------------------------
(***************************************************************************)
(* Theorems about SmsLogin, for any requests, limits and lifetimes.  "One  *)
(* guess per message" holds for requests that overlap, die or lose their   *)
(* answer: a code is in the hands of the request that made it, then in the *)
(* store, then nowhere, as the store's entry is taken by the first answer  *)
(* and nothing puts a code back.  The latest message, but for those the    *)
(* form took for not sent, and the budget are kept until two requests      *)
(* overlap or one dies.                                                    *)
(***************************************************************************)
EXTENDS SmsLogin, FiniteSetTheorems, SequenceTheorems, TLAPS

\* A request with a code it is still going to put into the store.
Carries(k) ==
    \/ k.at \in {"forget", "remember"}
    \/ k.at = "send" /\ k.flow = "browser"

AnyRequest == [at : Stages, flow : {"browser", "grant"}, note : Note, code : Nat]

Typed ==
    /\ clock \in Nat /\ made \in Nat
    /\ slot.code \in Nat /\ guesses \in [Codes -> Nat] /\ budget \in Note
    /\ req \in [Requests -> AnyRequest]

\* A code in the store has been made and has not been guessed at.
InStore == slot.code <= made /\ (slot.code \in Codes => guesses[slot.code] = 0)

\* A code a request carries is not in the store, nor carried by another.
InHands ==
    /\ \A r \in Requests : Carries(req[r]) =>
          /\ req[r].code \in 1 .. made /\ req[r].code # slot.code
          /\ req[r].code \in Codes => guesses[req[r].code] = 0
    /\ \A q, r \in Requests :
          Carries(req[q]) /\ Carries(req[r]) /\ req[q].code = req[r].code => q = r

NotYetMade == \A c \in Codes : c > made => guesses[c] = 0

GuessInv == Typed /\ InStore /\ InHands /\ NotYetMade /\ OneGuessPerCode

-----------------------------------------------------------------------------
LEMMA IdleRequest == Idle \in AnyRequest /\ ~Carries(Idle)
BY DEF Idle, AnyRequest, Stages, Note, NoNote, Carries

LEMMA NotACode == 0 \notin Codes /\ Codes \subseteq Nat
BY ConstantsAssumption DEF Codes

\* A step at which no request comes to carry a code, and none is guessed at.
LEMMA NoneCarriesMore ==
    ASSUME GuessInv, Typed', UNCHANGED <<made, guesses>>, slot'.code \in {slot.code, 0},
           \A q \in Requests : Carries(req'[q]) => Carries(req[q]) /\ req'[q].code = req[q].code
    PROVE  GuessInv'
<1>1. InStore'
    BY NotACode DEF GuessInv, InStore, Typed
<1>2. InHands'
    BY DEF GuessInv, InHands, Typed
<1>3. NotYetMade' /\ OneGuessPerCode'
    BY DEF GuessInv, NotYetMade, OneGuessPerCode
<1> QED
    BY <1>1, <1>2, <1>3 DEF GuessInv

\* An answer takes the code out of the store, right or wrong.
LEMMA Guessed ==
    ASSUME GuessInv, NEW presented, Spend(presented), Typed', UNCHANGED made,
           \A q \in Requests : ~Carries(req'[q]) \/ req'[q] = req[q]
    PROVE  GuessInv'
<1>1. slot'.code = 0
    BY DEF Spend, NoCode
<1>2. guesses' = guesses \/ guesses' = [guesses EXCEPT ![slot.code] = @ + 1]
    BY DEF Spend
<1>3. \A c \in Codes : guesses'[c] = guesses[c] \/ (c = slot.code /\ guesses'[c] = guesses[c] + 1)
    BY <1>2 DEF GuessInv, Typed
<1>4. OneGuessPerCode'
    BY <1>3 DEF GuessInv, InStore, OneGuessPerCode
<1>5. InStore'
    BY <1>1, NotACode DEF GuessInv, InStore, Typed
<1>6. InHands'
    BY <1>1, <1>3 DEF GuessInv, InHands, Typed
<1>7. NotYetMade'
    BY <1>3, NotACode DEF GuessInv, InStore, NotYetMade, Typed
<1> QED
    BY <1>4, <1>5, <1>6, <1>7 DEF GuessInv

\* One request goes on to be k.
LEMMA Moves ==
    ASSUME Typed, NEW r \in Requests, NEW k \in AnyRequest, req' = [req EXCEPT ![r] = k]
    PROVE  /\ req' \in [Requests -> AnyRequest]
           /\ req'[r] = k /\ \A q \in Requests \ {r} : req'[q] = req[q]
BY DEF Typed

LEMMA Ends ==
    ASSUME GuessInv, NEW r \in Requests, IsDone(r), UNCHANGED <<clock, made, guesses, budget>>,
           slot'.code \in {slot.code, 0}
    PROVE  GuessInv'
<1>1. req' = [req EXCEPT ![r] = Idle]
    BY DEF IsDone
<1>2. /\ req' \in [Requests -> AnyRequest]
      /\ req'[r] = Idle /\ \A q \in Requests \ {r} : req'[q] = req[q]
    BY <1>1, Moves, IdleRequest DEF GuessInv
<1>3. Typed'
    BY <1>2 DEF GuessInv, Typed
<1> QED
    BY <1>2, <1>3, IdleRequest, NoneCarriesMore

\* A request that goes on without coming to carry anything.
LEMMA GoesOnWithout ==
    ASSUME GuessInv, NEW r \in Requests, NEW k \in AnyRequest, req' = [req EXCEPT ![r] = k],
           Carries(k) => Carries(req[r]) /\ k.code = req[r].code,
           clock' \in Nat, UNCHANGED <<made, guesses>>, budget' \in Note,
           slot'.code \in {slot.code, 0}
    PROVE  GuessInv'
<1>1. /\ req' \in [Requests -> AnyRequest]
      /\ req'[r] = k /\ \A q \in Requests \ {r} : req'[q] = req[q]
    BY Moves DEF GuessInv
<1>2. Typed'
    BY <1>1 DEF GuessInv, Typed
<1> QED
    BY <1>1, <1>2, NoneCarriesMore

LEMMA GoingOn ==
    ASSUME Typed, NEW r \in Requests, NEW stage \in Stages, GoesOnTo(r, stage)
    PROVE  \E k \in AnyRequest : /\ req' = [req EXCEPT ![r] = k]
                                 /\ k.at = stage /\ k.code = req[r].code /\ k.flow = req[r].flow
<1>1. PICK k : k = [req[r] EXCEPT !.at = stage]
    OBVIOUS
<1>2. req[r] \in AnyRequest
    BY DEF Typed
<1>3. k \in AnyRequest /\ k.at = stage /\ k.code = req[r].code /\ k.flow = req[r].flow
    BY <1>1, <1>2 DEF AnyRequest
<1>4. req' = [req EXCEPT ![r] = k]
    BY <1>1 DEF GoesOnTo
<1> QED
    BY <1>3, <1>4

-----------------------------------------------------------------------------
(* A request arrives, or asks for a message.                               *)

\* To the budget, with nothing in hand.
LEMMA Claiming ==
    ASSUME NEW f \in {"browser", "grant"}
    PROVE  /\ [Idle EXCEPT !.at = "claim", !.flow = f] \in AnyRequest
           /\ ~Carries([Idle EXCEPT !.at = "claim", !.flow = f])
<1>1. PICK k : k = [Idle EXCEPT !.at = "claim", !.flow = f]
    OBVIOUS
<1>2. k \in AnyRequest /\ k.at = "claim"
    BY <1>1, IdleRequest DEF AnyRequest, Stages
<1> QED
    BY <1>1, <1>2 DEF Carries

LEMMA AuthenticateStep ==
    ASSUME GuessInv, NEW r \in Requests, NEW f \in Flows, Authenticate(r, f)
    PROVE  GuessInv'
<1>1. f \in {"browser", "grant"}
    BY ConstantsAssumption
<1>2. PICK k : k = [Idle EXCEPT !.at = "claim", !.flow = f]
    OBVIOUS
<1>3. k \in AnyRequest /\ ~Carries(k)
    BY <1>1, <1>2, Claiming
<1>4. /\ req' = [req EXCEPT ![r] = k]
      /\ UNCHANGED <<clock, made, guesses, budget, slot>>
    BY <1>2 DEF Authenticate, store, history
<1> QED
    BY <1>3, <1>4, GoesOnWithout DEF GuessInv, Typed

LEMMA ResendStep ==
    ASSUME GuessInv, NEW r \in Requests, Resend(r)
    PROVE  GuessInv'
<1>1. PICK k : k = [Idle EXCEPT !.at = "claim"]
    OBVIOUS
<1>2. k \in AnyRequest /\ k.at = "claim"
    BY <1>1, IdleRequest DEF AnyRequest, Stages
<1>3. /\ req' = [req EXCEPT ![r] = k] /\ ~Carries(k)
      /\ UNCHANGED <<clock, made, guesses, budget, slot>>
    BY <1>1, <1>2 DEF Resend, store, history, Carries
<1> QED
    BY <1>2, <1>3, GoesOnWithout DEF GuessInv, Typed

LEMMA SpendTyped ==
    ASSUME Typed, NEW presented, Spend(presented)
    PROVE  slot'.code \in Nat /\ guesses' \in [Codes -> Nat]
<1>1. slot'.code = 0
    BY DEF Spend, NoCode
<1>2. guesses' = guesses \/ guesses' = [guesses EXCEPT ![slot.code] = @ + 1]
    BY DEF Spend
<1> QED
    BY <1>1, <1>2 DEF Typed

LEMMA AnswerRightStep ==
    ASSUME GuessInv, NEW r \in Requests, NEW f \in Flows, AnswerRight(r, f)
    PROVE  GuessInv'
<1>1. Spend(slot.code) /\ UNCHANGED <<clock, budget, req, made>>
    BY DEF AnswerRight, Answers
<1>2. Typed'
    BY <1>1, SpendTyped DEF GuessInv, Typed
<1> QED
    BY <1>1, <1>2, Guessed

LEMMA AnswerWrongStep ==
    ASSUME GuessInv, NEW r \in Requests, NEW f \in Flows, NEW presented,
           AnswerWrong(r, f, presented)
    PROVE  GuessInv'
<1>1. Spend(presented) /\ UNCHANGED <<clock, budget, made>>
    BY DEF AnswerWrong, Answers
<1>2. slot'.code \in Nat /\ guesses' \in [Codes -> Nat]
    BY <1>1, SpendTyped DEF GuessInv
<1>3. f \in {"browser", "grant"}
    BY ConstantsAssumption
<1>4. PICK k : k = [Idle EXCEPT !.at = "claim", !.flow = f]
    OBVIOUS
<1>5. k \in AnyRequest /\ ~Carries(k)
    BY <1>3, <1>4, Claiming
<1>6. req' = [req EXCEPT ![r] = k] \/ req' = req
    BY <1>4 DEF AnswerWrong
<1>7. /\ req' \in [Requests -> AnyRequest]
      /\ \A q \in Requests : ~Carries(req'[q]) \/ req'[q] = req[q]
    BY <1>5, <1>6 DEF GuessInv, Typed
<1>8. Typed'
    BY <1>1, <1>2, <1>7 DEF GuessInv, Typed
<1> QED
    BY <1>1, <1>7, <1>8, Guessed

-----------------------------------------------------------------------------
(* The budget, and a code being made.                                      *)

LEMMA ClaimReadStep ==
    ASSUME GuessInv, NEW r \in Requests, ClaimRead(r)
    PROVE  GuessInv'
<1>1. UNCHANGED <<clock, made, guesses, slot, budget>>
    BY DEF ClaimRead, store
<1>2. CASE ~Allowed
    BY <1>1, <1>2, Ends DEF ClaimRead
<1>3. CASE Allowed
    <2>1. PICK note : note = IF budget = NoNote THEN FreshNote ELSE NextNote
        OBVIOUS
    <2>2. PICK stage : stage = IF budget = NoNote THEN "put" ELSE "clear"
        OBVIOUS
    <2>3. note \in Note
        BY <2>1, ConstantsAssumption DEF GuessInv, Typed, Note, FreshNote, NextNote
    <2>4. PICK k : k = [req[r] EXCEPT !.at = stage, !.note = note]
        OBVIOUS
    <2>5. k \in AnyRequest /\ ~Carries(k)
        BY <2>2, <2>3, <2>4 DEF GuessInv, Typed, AnyRequest, Stages, Carries
    <2>6. req' = [req EXCEPT ![r] = k]
        BY <1>3, <2>1, <2>2, <2>4 DEF ClaimRead
    <2> QED
        BY <1>1, <2>5, <2>6, GoesOnWithout DEF GuessInv, Typed
<1> QED
    BY <1>2, <1>3

LEMMA ClaimClearStep ==
    ASSUME GuessInv, NEW r \in Requests, ClaimClear(r)
    PROVE  GuessInv'
<1>1. /\ GoesOnTo(r, "put") /\ "put" \in Stages
      /\ UNCHANGED <<clock, made, guesses, slot>> /\ budget' \in Note
    BY DEF ClaimClear, Stages, history, NoNote, Note
<1>2. PICK k \in AnyRequest : req' = [req EXCEPT ![r] = k] /\ k.at = "put"
    BY <1>1, GoingOn DEF GuessInv
<1>3. ~Carries(k)
    BY <1>2 DEF Carries
<1> QED
    BY <1>1, <1>2, <1>3, GoesOnWithout DEF GuessInv, Typed

\* The new code is one nobody has.
LEMMA ClaimPutStep ==
    ASSUME GuessInv, NEW r \in Requests, ClaimPut(r)
    PROVE  GuessInv'
<1>1. made' = made + 1 /\ UNCHANGED <<clock, guesses, slot>>
    BY DEF ClaimPut, history
<1>2. PICK k : k = [req[r] EXCEPT !.at = AfterClaim(r), !.code = made + 1]
    OBVIOUS
<1>3. req' = [req EXCEPT ![r] = k]
    BY <1>2 DEF ClaimPut
<1>4. AfterClaim(r) \in Stages /\ made + 1 \in Nat
    BY DEF AfterClaim, Stages, GuessInv, Typed
<1>5. k \in AnyRequest /\ k.code = made + 1
    BY <1>2, <1>4 DEF GuessInv, Typed, AnyRequest
<1>6. /\ req' \in [Requests -> AnyRequest]
      /\ req'[r] = k /\ \A q \in Requests \ {r} : req'[q] = req[q]
    BY <1>3, <1>5, Moves DEF GuessInv
<1>7. budget' \in Note
    <2>1. req[r].note \in Note
        BY DEF GuessInv, Typed, AnyRequest
    <2> QED
        BY <2>1 DEF ClaimPut, GuessInv, Typed, Note
<1>8. Typed'
    BY <1>1, <1>6, <1>7 DEF GuessInv, Typed
<1>9. InStore' /\ NotYetMade' /\ OneGuessPerCode'
    BY <1>1, NotACode DEF GuessInv, Typed, InStore, NotYetMade, OneGuessPerCode
<1>10. InHands'
    <2>1. ASSUME NEW q \in Requests, Carries(req'[q])
          PROVE  /\ req'[q].code \in 1 .. made' /\ req'[q].code # slot'.code
                 /\ req'[q].code \in Codes => guesses'[req'[q].code] = 0
        <3>1. CASE q = r
            BY <1>1, <1>5, <1>6, <3>1 DEF GuessInv, Typed, InStore, NotYetMade
        <3>2. CASE q # r
            BY <1>1, <1>6, <2>1, <3>2 DEF GuessInv, Typed, InHands
        <3> QED
            BY <3>1, <3>2
    <2>2. ASSUME NEW p \in Requests, NEW q \in Requests, Carries(req'[p]), Carries(req'[q]),
                 req'[p].code = req'[q].code
          PROVE  p = q
        BY <1>5, <1>6, <2>2 DEF GuessInv, Typed, InHands
    <2> QED
        BY <2>1, <2>2 DEF InHands
<1> QED
    BY <1>8, <1>9, <1>10 DEF GuessInv

-----------------------------------------------------------------------------
(* The message, and the store.                                             *)

LEMMA SendStep ==
    ASSUME GuessInv, NEW r \in Requests, Send(r)
    PROVE  GuessInv'
<1>1. /\ req[r].at = "send" /\ GoesOn(r, AfterSend(r))
      /\ UNCHANGED <<clock, made, guesses, slot, budget>>
    BY DEF Send, store, history
<1>2. CASE req[r].flow = "browser"
    <2>1. GoesOnTo(r, "forget") /\ "forget" \in Stages
        BY <1>1, <1>2 DEF GoesOn, AfterSend, Stages
    <2>2. PICK k \in AnyRequest :
             req' = [req EXCEPT ![r] = k] /\ k.at = "forget" /\ k.code = req[r].code
        BY <2>1, GoingOn DEF GuessInv
    <2>3. Carries(req[r])
        BY <1>1, <1>2 DEF Carries
    <2> QED
        BY <1>1, <2>2, <2>3, GoesOnWithout DEF GuessInv, Typed
<1>3. CASE req[r].flow # "browser"
    BY <1>1, <1>3, Ends DEF GoesOn, AfterSend
<1> QED
    BY <1>2, <1>3

LEMMA ForgetStep ==
    ASSUME GuessInv, NEW r \in Requests, Forget(r)
    PROVE  GuessInv'
<1>1. /\ req[r].at = "forget" /\ GoesOnTo(r, "remember") /\ "remember" \in Stages
      /\ slot'.code = 0 /\ UNCHANGED <<clock, made, guesses, budget>>
    BY DEF Forget, NoCode, history, Stages
<1>2. PICK k \in AnyRequest :
         req' = [req EXCEPT ![r] = k] /\ k.at = "remember" /\ k.code = req[r].code
    BY <1>1, GoingOn DEF GuessInv
<1>3. Carries(req[r])
    BY <1>1 DEF Carries
<1> QED
    BY <1>1, <1>2, <1>3, GoesOnWithout DEF GuessInv, Typed

\* The code leaves the hands it was in for the store.
LEMMA RememberStep ==
    ASSUME GuessInv, NEW r \in Requests, Remember(r)
    PROVE  GuessInv'
<1>1. /\ req[r].at = "remember" /\ GoesOn(r, AfterRemember(r))
      /\ slot'.code = req[r].code /\ UNCHANGED <<clock, made, guesses, budget>>
    BY DEF Remember, history
<1>2. Carries(req[r]) /\ req[r] \in AnyRequest
    BY <1>1 DEF Carries, GuessInv, Typed
<1>3. \E k \in AnyRequest : req' = [req EXCEPT ![r] = k] /\ ~Carries(k)
    <2>1. CASE req[r].flow = "browser"
        BY <1>1, <2>1, IdleRequest DEF GoesOn, AfterRemember, IsDone
    <2>2. CASE req[r].flow # "browser"
        <3>1. GoesOnTo(r, "send") /\ "send" \in Stages
            BY <1>1, <2>2 DEF GoesOn, AfterRemember, Stages
        <3>2. PICK k \in AnyRequest :
                 req' = [req EXCEPT ![r] = k] /\ k.at = "send" /\ k.flow = req[r].flow
            BY <3>1, GoingOn DEF GuessInv
        <3> QED
            BY <2>2, <3>2 DEF Carries
    <2> QED
        BY <2>1, <2>2
<1>4. PICK k \in AnyRequest : req' = [req EXCEPT ![r] = k] /\ ~Carries(k)
    BY <1>3
<1>5. /\ req' \in [Requests -> AnyRequest]
      /\ req'[r] = k /\ \A q \in Requests \ {r} : req'[q] = req[q]
    BY <1>4, Moves DEF GuessInv
<1>6. req[r].code \in 1 .. made /\ (req[r].code \in Codes => guesses[req[r].code] = 0)
    BY <1>2 DEF GuessInv, InHands
<1>7. Typed'
    BY <1>1, <1>5, <1>6 DEF GuessInv, Typed
<1>8. InStore'
    BY <1>1, <1>6 DEF GuessInv, Typed, InStore
<1>9. InHands'
    BY <1>1, <1>2, <1>4, <1>5 DEF GuessInv, InHands
<1>10. NotYetMade' /\ OneGuessPerCode'
    BY <1>1 DEF GuessInv, NotYetMade, OneGuessPerCode
<1> QED
    BY <1>7, <1>8, <1>9, <1>10 DEF GuessInv

LEMMA TickStep ==
    ASSUME GuessInv, Tick
    PROVE  GuessInv'
<1>1. /\ clock' = clock + 1 /\ UNCHANGED <<req, made, guesses>>
      /\ slot'.code \in {slot.code, 0} /\ budget' \in {budget, NoNote}
    BY DEF Tick, history, NoCode
<1>2. Typed'
    BY <1>1 DEF GuessInv, Typed, Note, NoNote
<1> QED
    BY <1>1, <1>2, NoneCarriesMore

LEMMA StandsStill ==
    ASSUME GuessInv, UNCHANGED <<clock, req, made, guesses, slot, budget>>
    PROVE  GuessInv'
<1>1. Typed'
    BY DEF GuessInv, Typed
<1> QED
    BY <1>1, NoneCarriesMore

-----------------------------------------------------------------------------
LEMMA StartsWell ==
    ASSUME Init
    PROVE  GuessInv
<1>1. /\ clock = 0 /\ made = 0 /\ slot.code = 0 /\ budget = NoNote
      /\ req = [r \in Requests |-> Idle] /\ guesses = [c \in Codes |-> 0]
    BY DEF Init, NoCode
<1>2. Typed
    BY <1>1, IdleRequest DEF Typed, Note, NoNote
<1>3. InHands
    BY <1>1, IdleRequest DEF InHands
<1>4. InStore /\ NotYetMade /\ OneGuessPerCode
    BY <1>1, NotACode DEF InStore, NotYetMade, OneGuessPerCode
<1> QED
    BY <1>2, <1>3, <1>4 DEF GuessInv

LEMMA StepKeeps ==
    ASSUME GuessInv, [Next]_vars
    PROVE  GuessInv'
<1>1. CASE UNCHANGED vars \/ NumberChanges
    <2>1. UNCHANGED <<clock, req, made, guesses, slot, budget>>
        BY <1>1 DEF vars, NumberChanges, store, history
    <2> QED
        BY <2>1, StandsStill
<1>2. CASE Tick
    BY <1>2, TickStep
<1>3. ASSUME NEW r \in Requests, RequestSteps(r) PROVE GuessInv'
    <2>1. ASSUME NEW f \in Flows, Authenticate(r, f) \/ AnswerRight(r, f) PROVE GuessInv'
        BY <2>1, AuthenticateStep, AnswerRightStep
    <2>2. ASSUME NEW f \in Flows, NEW c \in Delivered \union {WrongCode}, AnswerWrong(r, f, c)
          PROVE  GuessInv'
        BY <2>2, AnswerWrongStep
    <2>3. CASE Resend(r) \/ ClaimRead(r) \/ ClaimClear(r) \/ ClaimPut(r)
        BY <2>3, ResendStep, ClaimReadStep, ClaimClearStep, ClaimPutStep
    <2>4. CASE Send(r) \/ Forget(r) \/ Remember(r)
        BY <2>4, SendStep, ForgetStep, RememberStep
    <2>5. CASE SendAnswerLost(r) \/ SendFails(r) \/ RequestDies(r)
        <3>1. IsDone(r) /\ UNCHANGED <<clock, made, guesses, budget, slot>>
            BY <2>5 DEF SendAnswerLost, SendFails, RequestDies, store, history
        <3> QED
            BY <3>1, Ends
    <2> QED
        BY <1>3, <2>1, <2>2, <2>3, <2>4, <2>5 DEF RequestSteps
<1> QED
    BY <1>1, <1>2, <1>3 DEF Next

\* "One guess per message": whatever overlaps, dies or is not answered, a code
\* is compared with an answer at most once.
THEOREM GuessedOnce == Spec => []OneGuessPerCode
<1>1. GuessInv => OneGuessPerCode
    BY DEF GuessInv
<1> QED
    BY <1>1, StartsWell, StepKeeps, PTL DEF Spec

-----------------------------------------------------------------------------
(* The latest message.  As long as requests do not overlap, one of them at *)
(* most is under way; the browser's puts its code into the store behind    *)
(* the message, the grant's before it.                                     *)

MessagesOK ==
    /\ messages \in Seq(Nat)
    /\ \A i \in DOMAIN messages : messages[i] \in 1 .. made
    /\ \A r \in Requests : req[r].at = "send" => req[r].code \in 1 .. made
    /\ unheard \subseteq Delivered

\* The last message, but for those the form gave up.
LastIs(c) ==
    /\ c \notin unheard
    /\ \E i \in DOMAIN messages :
          messages[i] = c /\ \A j \in DOMAIN messages : j > i => messages[j] \in unheard

Ahead(k) ==
    /\ k.at \in {"forget", "remember"} /\ k.flow = "browser" => LastIs(k.code)
    /\ k.at \in {"forget", "remember"} /\ k.flow = "grant" => k.code \notin Delivered
    /\ k.at = "send" => k.code \notin Delivered
    /\ k.at = "send" /\ k.flow = "grant" => slot.code \in {0, k.code}
    /\ k.at = "remember" => slot.code = 0

\* A code in the store that reached the handset is the last that did, but
\* between the browser's message and the store.
StoreIsLatest(k) ==
    slot.code \in Delivered => LastIs(slot.code) \/ (k.at = "forget" /\ k.flow = "browser")

Alone(r) == \A q \in Requests \ {r} : req[q] = Idle

LatestInv ==
    /\ GuessInv /\ MessagesOK
    /\ calm => \A r \in Requests : req[r] # Idle => Alone(r) /\ Ahead(req[r]) /\ StoreIsLatest(req[r])
    /\ calm /\ (\A r \in Requests : req[r] = Idle) => StoreIsLatest(Idle)

LEMMA IdleIsNotAhead == Idle.at = "idle" /\ Idle.flow = "browser"
BY DEF Idle

LEMMA DeliveredIsMade ==
    ASSUME MessagesOK
    PROVE  Delivered \subseteq 1 .. made /\ 0 \notin Delivered
BY DEF MessagesOK, Delivered

\* A message more is the last; one the form gives up leaves the last what it was.
LEMMA OneMore ==
    ASSUME MessagesOK, NEW c \in Nat, messages' = Append(messages, c)
    PROVE  /\ messages' \in Seq(Nat) /\ Delivered' = Delivered \union {c}
           /\ \A i \in DOMAIN messages' : messages'[i] = c \/ messages'[i] \in Delivered
           /\ c \notin unheard' => LastIs(c)'
           /\ \A b : LastIs(b) /\ unheard' = unheard \union {c} /\ b # c => LastIs(b)'
<1>1. messages \in Seq(Nat)
    BY DEF MessagesOK
<1>2. /\ messages' \in Seq(Nat) /\ Len(messages') = Len(messages) + 1
      /\ messages'[Len(messages) + 1] = c
      /\ \A i \in 1 .. Len(messages) : messages'[i] = messages[i]
    BY <1>1
<1>3. DOMAIN messages = 1 .. Len(messages) /\ DOMAIN messages' = 1 .. Len(messages) + 1
    BY <1>1, <1>2
<1>4. Delivered' = Delivered \union {c}
    BY <1>1, <1>2, <1>3 DEF Delivered
<1>5. ASSUME c \notin unheard' PROVE LastIs(c)'
    BY <1>1, <1>2, <1>3, <1>5 DEF LastIs
<1>6. ASSUME NEW b, LastIs(b), unheard' = unheard \union {c}, b # c
      PROVE  LastIs(b)'
    <2>1. PICK i \in DOMAIN messages :
             messages[i] = b /\ \A j \in DOMAIN messages : j > i => messages[j] \in unheard
        BY <1>6 DEF LastIs
    <2>2. i \in DOMAIN messages' /\ messages'[i] = b
        BY <1>1, <1>2, <1>3, <2>1
    <2>3. ASSUME NEW j \in DOMAIN messages', j > i PROVE messages'[j] \in unheard'
        BY <1>1, <1>2, <1>3, <1>6, <2>1, <2>3
    <2> QED
        BY <1>6, <2>2, <2>3 DEF LastIs
<1> QED
    BY <1>2, <1>3, <1>4, <1>5, <1>6 DEF Delivered

\* The one request under way goes on to be k.
LEMMA LatestMoves ==
    ASSUME LatestInv, GuessInv', MessagesOK', NEW r \in Requests, NEW CONSTANT k,
           req' = [req EXCEPT ![r] = k],
           calm' => calm /\ Alone(r) /\ (k # Idle => Ahead(k)') /\ StoreIsLatest(k)'
    PROVE  LatestInv'
<1>1. req'[r] = k /\ \A q \in Requests \ {r} : req'[q] = req[q]
    BY DEF LatestInv, GuessInv, Typed
<1>2. ASSUME calm', NEW q \in Requests, req'[q] # Idle
      PROVE  (Alone(q) /\ Ahead(req[q]) /\ StoreIsLatest(req[q]))'
    <2>1. q = r /\ k # Idle
        BY <1>1, <1>2 DEF Alone
    <2>2. Alone(r)'
        BY <1>1, <1>2 DEF Alone
    <2>3. Ahead(k)' /\ StoreIsLatest(k)'
        BY <1>2, <2>1
    <2> QED
        BY <1>1, <2>1, <2>2, <2>3 DEF Ahead, StoreIsLatest
<1>3. ASSUME calm', \A q \in Requests : req'[q] = Idle
      PROVE  StoreIsLatest(Idle)'
    BY <1>1, <1>3
<1> QED
    BY <1>2, <1>3 DEF LatestInv

\* What is known when a request arrives, and of one that is under way.
LEMMA WhenArriving ==
    ASSUME LatestInv, NEW r \in Requests, NEW f, Arrives(r, f), calm'
    PROVE  calm /\ Alone(r) /\ req[r] = Idle /\ (slot.code \in Delivered => LastIs(slot.code))
<1>1. calm /\ \A q \in Requests : req[q] = Idle
    BY DEF Arrives
<1>2. StoreIsLatest(Idle)
    BY <1>1 DEF LatestInv
<1> QED
    BY <1>1, <1>2, IdleIsNotAhead DEF Alone, StoreIsLatest

LEMMA UnderWay ==
    ASSUME LatestInv, NEW r \in Requests, req[r].at # "idle", calm
    PROVE  Alone(r) /\ Ahead(req[r]) /\ StoreIsLatest(req[r])
BY IdleIsNotAhead DEF LatestInv

\* A step away from the message and from the store.
LEMMA Quiet ==
    ASSUME LatestInv, GuessInv', NEW r \in Requests, NEW CONSTANT k,
           req' = [req EXCEPT ![r] = k], k.at \notin {"send", "forget", "remember"},
           UNCHANGED <<messages, made, slot, unheard>>,
           calm' => calm /\ Alone(r) /\ (slot.code \in Delivered => LastIs(slot.code))
    PROVE  LatestInv'
<1>1. req'[r] = k /\ \A q \in Requests \ {r} : req'[q] = req[q]
    BY DEF LatestInv, GuessInv, Typed
<1>2. MessagesOK'
    BY <1>1 DEF LatestInv, MessagesOK, Delivered
<1>3. Ahead(k)'
    BY DEF Ahead
<1>4. calm' => StoreIsLatest(k)'
    BY DEF StoreIsLatest, Delivered, LastIs
<1> QED
    BY <1>2, <1>3, <1>4, LatestMoves

LEMMA LatestArrives ==
    ASSUME LatestInv, GuessInv', NEW r \in Requests,
           Resend(r) \/ \E f \in Flows : Authenticate(r, f)
    PROVE  LatestInv'
<1>1. PICK f : Arrives(r, f)
    BY DEF Resend, Authenticate
<1>2. UNCHANGED <<messages, made, slot, unheard>>
    BY DEF Resend, Authenticate, store, history
<1>3. PICK k : req' = [req EXCEPT ![r] = k] /\ k.at = "claim"
    <2>1. CASE Resend(r)
        <3>1. PICK k : k = [Idle EXCEPT !.at = "claim"]
            OBVIOUS
        <3>2. k.at = "claim"
            BY <3>1 DEF Idle
        <3> QED
            BY <2>1, <3>1, <3>2 DEF Resend
    <2>2. ASSUME NEW g \in Flows, Authenticate(r, g)
          PROVE  \E k : req' = [req EXCEPT ![r] = k] /\ k.at = "claim"
        <3>1. PICK k : k = [Idle EXCEPT !.at = "claim", !.flow = g]
            OBVIOUS
        <3>2. k.at = "claim"
            BY <3>1 DEF Idle
        <3> QED
            BY <2>2, <3>1, <3>2 DEF Authenticate
    <2> QED
        BY <2>1, <2>2
<1> QED
    BY <1>1, <1>2, <1>3, WhenArriving, Quiet

LEMMA LatestAnswers ==
    ASSUME LatestInv, GuessInv', NEW r \in Requests, NEW f, NEW presented,
           Arrives(r, f), Spend(presented), UNCHANGED <<messages, made, unheard>>,
           req' = req \/ \E k : req' = [req EXCEPT ![r] = k] /\ k.at = "claim"
    PROVE  LatestInv'
<1>1. slot'.code = 0
    BY DEF Spend, NoCode
<1>2. req[r] = Idle
    BY DEF Arrives
<1>3. PICK k : req' = [req EXCEPT ![r] = k] /\ k.at \in {"idle", "claim"}
    <2>1. CASE req' = req
        <3>1. req' = [req EXCEPT ![r] = Idle]
            BY <1>2, <2>1 DEF LatestInv, GuessInv, Typed
        <3> QED
            BY <3>1, IdleIsNotAhead
    <2>2. CASE \E k : req' = [req EXCEPT ![r] = k] /\ k.at = "claim"
        BY <2>2
    <2> QED
        BY <2>1, <2>2
<1>4. req'[r] = k /\ \A q \in Requests \ {r} : req'[q] = req[q]
    BY <1>3 DEF LatestInv, GuessInv, Typed
<1>5. MessagesOK'
    BY <1>3, <1>4 DEF LatestInv, MessagesOK, Delivered
<1>6. Ahead(k)' /\ StoreIsLatest(k)'
    BY <1>1, <1>3, <1>5, DeliveredIsMade DEF Ahead, StoreIsLatest, LatestInv, Delivered
<1> QED
    BY <1>3, <1>5, <1>6, WhenArriving, LatestMoves

LEMMA LatestClaims ==
    ASSUME LatestInv, GuessInv', NEW r \in Requests, ClaimRead(r) \/ ClaimClear(r)
    PROVE  LatestInv'
<1>1. req[r].at \in {"claim", "clear"} /\ UNCHANGED <<messages, made, slot, unheard, calm>>
    BY DEF ClaimRead, ClaimClear, store, history
<1>2. req[r] \in AnyRequest
    BY DEF LatestInv, GuessInv, Typed
<1>3. PICK k : req' = [req EXCEPT ![r] = k] /\ k.at \in {"idle", "clear", "put"}
    <2>1. CASE ClaimRead(r) /\ ~Allowed
        BY <2>1, IdleIsNotAhead DEF ClaimRead, IsDone
    <2>2. CASE ClaimRead(r) /\ Allowed
        <3>1. PICK k : k = [req[r] EXCEPT !.at = IF budget = NoNote THEN "put" ELSE "clear",
                                          !.note = IF budget = NoNote THEN FreshNote ELSE NextNote]
            OBVIOUS
        <3>2. req' = [req EXCEPT ![r] = k]
            BY <2>2, <3>1 DEF ClaimRead
        <3>3. k.at \in {"clear", "put"}
            BY <1>2, <3>1 DEF AnyRequest
        <3> QED
            BY <3>2, <3>3
    <2>3. CASE ClaimClear(r)
        <3>1. GoesOnTo(r, "put") /\ "put" \in Stages
            BY <2>3 DEF ClaimClear, Stages
        <3> QED
            BY <3>1, GoingOn DEF LatestInv, GuessInv
    <2> QED
        BY <2>1, <2>2, <2>3
<1>4. calm => Alone(r) /\ (slot.code \in Delivered => LastIs(slot.code))
    BY <1>1, UnderWay DEF StoreIsLatest
<1> QED
    BY <1>1, <1>3, <1>4, Quiet

\* A code just made has reached nobody.
LEMMA LatestMade ==
    ASSUME LatestInv, GuessInv', NEW r \in Requests, ClaimPut(r)
    PROVE  LatestInv'
<1>1. /\ req[r].at = "put" /\ made' = made + 1 /\ made \in Nat
      /\ UNCHANGED <<messages, slot, unheard, calm>>
    BY DEF ClaimPut, history, LatestInv, GuessInv, Typed
<1>2. PICK k : k = [req[r] EXCEPT !.at = AfterClaim(r), !.code = made + 1]
    OBVIOUS
<1>3. req' = [req EXCEPT ![r] = k]
    BY <1>2 DEF ClaimPut
<1>4. /\ k.at = AfterClaim(r) /\ k.code = made + 1 /\ k.flow = req[r].flow
      /\ k.flow \in {"browser", "grant"}
    BY <1>2 DEF LatestInv, GuessInv, Typed, AnyRequest
<1>5. req'[r] = k /\ \A q \in Requests \ {r} : req'[q] = req[q]
    BY <1>3 DEF LatestInv, GuessInv, Typed
<1>6. MessagesOK'
    BY <1>1, <1>4, <1>5 DEF LatestInv, MessagesOK, Delivered
<1>7. k.code \notin Delivered' /\ Delivered' = Delivered
    BY <1>1, <1>4, DeliveredIsMade DEF LatestInv, Delivered
<1>8. Ahead(k)'
    BY <1>4, <1>7 DEF Ahead, AfterClaim
<1>9. calm => Alone(r) /\ StoreIsLatest(req[r])
    BY <1>1, UnderWay
<1>10. calm => StoreIsLatest(k)'
    BY <1>1, <1>7, <1>9 DEF StoreIsLatest, LastIs
<1> QED
    BY <1>1, <1>3, <1>6, <1>8, <1>9, <1>10, LatestMoves

\* The browser's message goes out before its code is in the store, the grant's
\* after: either way it is then the last one.
LEMMA LatestSent ==
    ASSUME LatestInv, GuessInv', NEW r \in Requests, Send(r)
    PROVE  LatestInv'
<1>1. /\ req[r].at = "send" /\ GoesOn(r, AfterSend(r))
      /\ messages' = Append(messages, req[r].code)
      /\ UNCHANGED <<made, slot, unheard, calm>>
    BY DEF Send, store, history
<1>2. req[r].code \in 1 .. made /\ made \in Nat /\ MessagesOK
    BY <1>1 DEF LatestInv, MessagesOK, GuessInv, Typed
<1>3. PICK c : c = req[r].code
    OBVIOUS
<1>4. c \in Nat /\ messages' = Append(messages, c)
    BY <1>1, <1>2, <1>3
<1>5. /\ messages' \in Seq(Nat) /\ Delivered' = Delivered \union {c}
      /\ \A i \in DOMAIN messages' : messages'[i] = c \/ messages'[i] \in Delivered
      /\ c \notin unheard' => LastIs(c)'
    BY <1>2, <1>4, OneMore
<1>6. calm => Alone(r) /\ Ahead(req[r]) /\ StoreIsLatest(req[r])
    BY <1>1, UnderWay
<1>7. calm => LastIs(c)'
    BY <1>1, <1>2, <1>3, <1>5, <1>6 DEF Ahead, MessagesOK
<1>8. CASE req[r].flow = "browser"
    <2>1. GoesOnTo(r, "forget") /\ "forget" \in Stages
        BY <1>1, <1>8 DEF GoesOn, AfterSend, Stages
    <2>2. PICK k \in AnyRequest : /\ req' = [req EXCEPT ![r] = k]
                                  /\ k.at = "forget" /\ k.code = req[r].code /\ k.flow = req[r].flow
        BY <2>1, GoingOn DEF LatestInv, GuessInv
    <2>3. req'[r] = k /\ \A q \in Requests \ {r} : req'[q] = req[q]
        BY <2>2 DEF LatestInv, GuessInv, Typed
    <2>4. MessagesOK'
        BY <1>1, <1>2, <1>3, <1>5, <2>2, <2>3, DeliveredIsMade DEF MessagesOK
    <2>5. calm => Ahead(k)' /\ StoreIsLatest(k)'
        BY <1>3, <1>7, <1>8, <2>2 DEF Ahead, StoreIsLatest
    <2> QED
        BY <1>1, <1>6, <2>2, <2>4, <2>5, LatestMoves
<1>9. CASE req[r].flow # "browser"
    <2>1. req' = [req EXCEPT ![r] = Idle]
        BY <1>1, <1>9 DEF GoesOn, AfterSend, IsDone
    <2>2. req'[r] = Idle /\ \A q \in Requests \ {r} : req'[q] = req[q]
        BY <2>1 DEF LatestInv, GuessInv, Typed
    <2>3. MessagesOK'
        BY <1>1, <1>2, <1>3, <1>5, <2>2, DeliveredIsMade, IdleIsNotAhead DEF MessagesOK
    <2>4. req[r].flow = "grant"
        BY <1>9 DEF LatestInv, GuessInv, Typed, AnyRequest
    <2>5. calm => slot.code \in {0, c}
        BY <1>1, <1>3, <1>6, <2>4 DEF Ahead
    <2>6. 0 \notin Delivered'
        BY <1>2, <1>3, <1>5, DeliveredIsMade
    <2>7. calm => StoreIsLatest(Idle)'
        BY <1>1, <1>7, <2>5, <2>6 DEF StoreIsLatest
    <2> QED
        BY <1>1, <1>6, <2>1, <2>3, <2>7, LatestMoves
<1> QED
    BY <1>8, <1>9

LEMMA LatestForgets ==
    ASSUME LatestInv, GuessInv', NEW r \in Requests, Forget(r)
    PROVE  LatestInv'
<1>1. /\ req[r].at = "forget" /\ GoesOnTo(r, "remember") /\ "remember" \in Stages
      /\ slot'.code = 0 /\ UNCHANGED <<messages, made, unheard, calm>>
    BY DEF Forget, NoCode, history, Stages
<1>2. PICK k \in AnyRequest : /\ req' = [req EXCEPT ![r] = k]
                              /\ k.at = "remember" /\ k.code = req[r].code /\ k.flow = req[r].flow
    BY <1>1, GoingOn DEF LatestInv, GuessInv
<1>3. req'[r] = k /\ \A q \in Requests \ {r} : req'[q] = req[q]
    BY <1>2 DEF LatestInv, GuessInv, Typed
<1>4. MessagesOK'
    BY <1>1, <1>2, <1>3 DEF LatestInv, MessagesOK, Delivered
<1>5. calm => Alone(r) /\ Ahead(req[r])
    BY <1>1, UnderWay
<1>6. calm => Ahead(k)'
    BY <1>1, <1>2, <1>5 DEF Ahead, LastIs, Delivered
<1>7. StoreIsLatest(k)'
    BY <1>1, <1>4, DeliveredIsMade DEF StoreIsLatest, Delivered, LatestInv
<1> QED
    BY <1>1, <1>2, <1>4, <1>5, <1>6, <1>7, LatestMoves

LEMMA LatestRemembers ==
    ASSUME LatestInv, GuessInv', NEW r \in Requests, Remember(r)
    PROVE  LatestInv'
<1>1. /\ req[r].at = "remember" /\ GoesOn(r, AfterRemember(r))
      /\ slot'.code = req[r].code /\ UNCHANGED <<messages, made, unheard, calm>>
    BY DEF Remember, history
<1>2. req[r] \in AnyRequest
    BY DEF LatestInv, GuessInv, Typed
<1>3. req[r].code \in 1 .. made
    BY <1>1 DEF LatestInv, GuessInv, InHands, Carries
<1>4. calm => Alone(r) /\ Ahead(req[r])
    BY <1>1, UnderWay
<1>5. CASE req[r].flow = "browser"
    <2>1. req' = [req EXCEPT ![r] = Idle]
        BY <1>1, <1>5 DEF GoesOn, AfterRemember, IsDone
    <2>2. req'[r] = Idle /\ \A q \in Requests \ {r} : req'[q] = req[q]
        BY <2>1 DEF LatestInv, GuessInv, Typed
    <2>3. MessagesOK'
        BY <1>1, <2>2, IdleIsNotAhead DEF LatestInv, MessagesOK, Delivered
    <2>4. calm => StoreIsLatest(Idle)'
        BY <1>1, <1>4, <1>5 DEF Ahead, StoreIsLatest, LastIs
    <2> QED
        BY <1>1, <1>4, <2>1, <2>3, <2>4, LatestMoves
<1>6. CASE req[r].flow = "grant"
    <2>1. GoesOnTo(r, "send") /\ "send" \in Stages
        BY <1>1, <1>6 DEF GoesOn, AfterRemember, Stages
    <2>2. PICK k \in AnyRequest : /\ req' = [req EXCEPT ![r] = k]
                                  /\ k.at = "send" /\ k.code = req[r].code /\ k.flow = req[r].flow
        BY <2>1, GoingOn DEF LatestInv, GuessInv
    <2>3. req'[r] = k /\ \A q \in Requests \ {r} : req'[q] = req[q]
        BY <2>2 DEF LatestInv, GuessInv, Typed
    <2>4. MessagesOK'
        BY <1>1, <1>3, <2>2, <2>3 DEF LatestInv, MessagesOK, Delivered
    <2>5. calm => k.code \notin Delivered'
        BY <1>1, <1>4, <1>6, <2>2 DEF Ahead, Delivered
    <2>6. calm => Ahead(k)' /\ StoreIsLatest(k)'
        BY <1>1, <1>6, <2>2, <2>5 DEF Ahead, StoreIsLatest
    <2> QED
        BY <1>1, <1>4, <2>2, <2>4, <2>6, LatestMoves
<1> QED
    BY <1>2, <1>5, <1>6 DEF AnyRequest

\* A request that dies on the way leaves a gap.  One whose message did not go out
\* leaves things as they were; one whose message is not answered for has the
\* code in the store if it is a grant's, and is given up if it is the form's.
LEMMA LatestEnds ==
    ASSUME LatestInv, GuessInv', NEW r \in Requests,
           SendAnswerLost(r) \/ SendFails(r) \/ RequestDies(r)
    PROVE  LatestInv'
<1>1. req' = [req EXCEPT ![r] = Idle] /\ UNCHANGED <<made, slot>>
    BY DEF SendAnswerLost, SendFails, RequestDies, IsDone, store
<1>2. CASE SendFails(r)
    <2>1. req[r].at = "send" /\ UNCHANGED <<messages, unheard, calm>>
        BY <1>2 DEF SendFails, history
    <2>2. calm => Alone(r) /\ StoreIsLatest(req[r])
        BY <2>1, UnderWay
    <2>3. calm => (slot.code \in Delivered => LastIs(slot.code))
        BY <2>1, <2>2 DEF StoreIsLatest
    <2> QED
        BY <1>1, <2>1, <2>2, <2>3, IdleIsNotAhead, Quiet
<1>3. CASE RequestDies(r)
    <2>1. ~calm' /\ UNCHANGED <<messages, unheard>>
        BY <1>3 DEF RequestDies, history
    <2> QED
        BY <1>1, <2>1, IdleIsNotAhead, Quiet
<1>4. CASE SendAnswerLost(r)
    <2>1. /\ req[r].at = "send" /\ messages' = Append(messages, req[r].code)
          /\ UNCHANGED calm
        BY <1>4 DEF SendAnswerLost
    <2>2. PICK c : c = req[r].code
        OBVIOUS
    <2>3. c \in 1 .. made /\ c \in Nat /\ made \in Nat /\ MessagesOK
        BY <2>1, <2>2 DEF LatestInv, MessagesOK, GuessInv, Typed
    <2>4. /\ messages' \in Seq(Nat) /\ Delivered' = Delivered \union {c}
          /\ \A i \in DOMAIN messages' : messages'[i] = c \/ messages'[i] \in Delivered
          /\ c \notin unheard' => LastIs(c)'
          /\ \A b : LastIs(b) /\ unheard' = unheard \union {c} /\ b # c => LastIs(b)'
        BY <2>1, <2>2, <2>3, OneMore
    <2>5. req'[r] = Idle /\ \A q \in Requests \ {r} : req'[q] = req[q]
        BY <1>1 DEF LatestInv, GuessInv, Typed
    <2>6. unheard' = IF req[r].flow = "browser" THEN unheard \union {c} ELSE unheard
        BY <1>4, <2>2 DEF SendAnswerLost
    <2>7. MessagesOK'
        BY <1>1, <2>3, <2>4, <2>5, <2>6, DeliveredIsMade, IdleIsNotAhead DEF MessagesOK
    <2>8. calm => Alone(r) /\ Ahead(req[r]) /\ StoreIsLatest(req[r])
        BY <2>1, UnderWay
    <2>9. 0 \notin Delivered'
        BY <2>3, <2>4, DeliveredIsMade
    <2>10. ASSUME calm, req[r].flow = "browser" PROVE StoreIsLatest(Idle)'
        <3>1. slot.code # c
            BY <2>1, <2>2, <2>10 DEF LatestInv, GuessInv, InHands, Carries
        <3>2. slot.code \in Delivered => LastIs(slot.code)
            BY <2>1, <2>8, <2>10 DEF StoreIsLatest
        <3>3. slot'.code \in Delivered' => LastIs(slot.code)'
            BY <1>1, <2>4, <2>6, <2>10, <3>1, <3>2
        <3> QED
            BY <1>1, <3>3 DEF StoreIsLatest, LastIs
    <2>11. ASSUME calm, req[r].flow # "browser" PROVE StoreIsLatest(Idle)'
        <3>1. req[r].flow = "grant"
            BY <2>11 DEF LatestInv, GuessInv, Typed, AnyRequest
        <3>2. slot.code \in {0, c} /\ c \notin Delivered
            BY <2>1, <2>2, <2>8, <2>11, <3>1 DEF Ahead
        <3>3. LastIs(c)'
            BY <2>3, <2>4, <2>6, <2>11, <3>2 DEF MessagesOK
        <3> QED
            BY <1>1, <2>9, <3>2, <3>3 DEF StoreIsLatest, LastIs
    <2> QED
        BY <1>1, <2>1, <2>7, <2>8, <2>10, <2>11, LatestMoves
<1> QED
    BY <1>2, <1>3, <1>4

\* Time, and what the account's owner does about the number.
LEMMA LatestStands ==
    ASSUME LatestInv, GuessInv', UNCHANGED <<req, messages, made, unheard, calm>>,
           slot'.code \in {slot.code, 0}
    PROVE  LatestInv'
<1>1. MessagesOK' /\ Delivered' = Delivered /\ 0 \notin Delivered
    BY DeliveredIsMade DEF LatestInv, MessagesOK, Delivered
<1>2. ASSUME NEW k, Ahead(k)
      PROVE  Ahead(k)'
    BY <1>1, <1>2 DEF Ahead, LastIs
<1>3. ASSUME NEW k, StoreIsLatest(k)
      PROVE  StoreIsLatest(k)'
    BY <1>1, <1>3 DEF StoreIsLatest, LastIs
<1>4. ASSUME calm', NEW r \in Requests, req'[r] # Idle
      PROVE  (Alone(r) /\ Ahead(req[r]) /\ StoreIsLatest(req[r]))'
    <2>1. PICK k : k = req[r]
        OBVIOUS
    <2>2. Alone(r) /\ Ahead(k) /\ StoreIsLatest(k)
        BY <1>4, <2>1 DEF LatestInv
    <2>3. Ahead(k)' /\ StoreIsLatest(k)'
        BY <1>2, <1>3, <2>2
    <2>4. k = req'[r]
        BY <2>1
    <2> QED
        BY <2>2, <2>3, <2>4 DEF Alone
<1>5. ASSUME calm', \A r \in Requests : req'[r] = Idle
      PROVE  StoreIsLatest(Idle)'
    BY <1>3, <1>5 DEF LatestInv
<1> QED
    BY <1>1, <1>4, <1>5 DEF LatestInv

LEMMA LatestStarts ==
    ASSUME Init
    PROVE  LatestInv
<1>1. /\ messages = <<>> /\ req = [r \in Requests |-> Idle] /\ slot.code = 0
      /\ unheard = {}
    BY DEF Init, NoCode
<1>2. MessagesOK
    BY <1>1, IdleIsNotAhead DEF MessagesOK
<1>3. StoreIsLatest(Idle)
    BY <1>1, <1>2, DeliveredIsMade DEF StoreIsLatest
<1> QED
    BY <1>1, <1>2, <1>3, StartsWell DEF LatestInv

LEMMA LatestKept ==
    ASSUME LatestInv, [Next]_vars
    PROVE  LatestInv'
<1>1. GuessInv'
    BY StepKeeps DEF LatestInv
<1>2. CASE UNCHANGED vars \/ NumberChanges \/ Tick
    <2>1. UNCHANGED <<req, messages, made, unheard, calm>> /\ slot'.code \in {slot.code, 0}
        BY <1>2 DEF vars, NumberChanges, Tick, store, history, NoCode
    <2> QED
        BY <1>1, <2>1, LatestStands
<1>3. ASSUME NEW r \in Requests, RequestSteps(r) PROVE LatestInv'
    <2>1. CASE Resend(r) \/ \E f \in Flows : Authenticate(r, f)
        BY <1>1, <2>1, LatestArrives
    <2>2. ASSUME NEW f \in Flows, AnswerRight(r, f) PROVE LatestInv'
        <3>1. Arrives(r, f) /\ Spend(slot.code) /\ UNCHANGED <<req, messages, made, unheard>>
            BY <2>2 DEF AnswerRight, Answers
        <3> QED
            BY <1>1, <3>1, LatestAnswers
    <2>3. ASSUME NEW f \in Flows, NEW c \in Delivered \union {WrongCode}, AnswerWrong(r, f, c)
          PROVE  LatestInv'
        <3>1. Arrives(r, f) /\ Spend(c) /\ UNCHANGED <<messages, made, unheard>>
            BY <2>3 DEF AnswerWrong, Answers
        <3>2. PICK k : k = [Idle EXCEPT !.at = "claim", !.flow = f]
            OBVIOUS
        <3>3. k.at = "claim"
            BY <3>2 DEF Idle
        <3>4. req' = [req EXCEPT ![r] = k] \/ req' = req
            BY <2>3, <3>2 DEF AnswerWrong
        <3> QED
            BY <1>1, <3>1, <3>3, <3>4, LatestAnswers
    <2>4. CASE ClaimRead(r) \/ ClaimClear(r) \/ ClaimPut(r)
        BY <1>1, <2>4, LatestClaims, LatestMade
    <2>5. CASE Send(r) \/ Forget(r) \/ Remember(r)
        BY <1>1, <2>5, LatestSent, LatestForgets, LatestRemembers
    <2>6. CASE SendAnswerLost(r) \/ SendFails(r) \/ RequestDies(r)
        BY <1>1, <2>6, LatestEnds
    <2> QED
        BY <1>3, <2>1, <2>2, <2>3, <2>4, <2>5, <2>6 DEF RequestSteps
<1> QED
    BY <1>2, <1>3 DEF Next

\* Only a right answer logs anybody in, and it is the code in the store.
LEMMA LetIn ==
    ASSUME LatestInv, [Next]_vars, calm', NEW c \in logins' \ logins
    PROVE  LastIs(c)
<1>1. PICK r \in Requests, f \in Flows : AnswerRight(r, f)
    <2>1. logins' # logins
        OBVIOUS
    <2> QED
        BY <2>1 DEF Next, RequestSteps, vars, Tick, NumberChanges, Authenticate, Resend,
           AnswerWrong, ClaimRead, ClaimClear, ClaimPut, Send, SendAnswerLost, SendFails,
           Forget, Remember, RequestDies, history
<1>2. Arrives(r, f) /\ c = slot.code /\ c \in Delivered
    BY <1>1 DEF AnswerRight, Answers
<1> QED
    BY <1>2, WhenArriving

\* As long as requests do not overlap or die, only the last message that
\* reached the handset lets anybody in, but for the ones the form gave up when
\* the gateway's answer did not come: those let nobody in.
THEOREM OnlyTheLatest == Spec => LatestMessageOnly
<1>1. LatestInv /\ [Next]_vars =>
        [calm' => \A c \in logins' \ logins :
              /\ c \notin unheard
              /\ \E i \in DOMAIN messages :
                    /\ messages[i] = c
                    /\ \A j \in DOMAIN messages : j > i => messages[j] \in unheard]_vars
    BY LetIn DEF LastIs
<1> QED
    BY <1>1, LatestStarts, LatestKept, PTL DEF Spec, LatestMessageOnly

-----------------------------------------------------------------------------
(* The budget.  Between a claim and its put the record is in the hands of   *)
(* the request, and otherwise in the store until its window is over; it     *)
(* says what the claims of that window say.                                 *)

\* Claims are in the order they were made in.
Times ==
    \A i, j \in DOMAIN claims :
        claims[i].at <= clock /\ (i <= j => claims[i].at <= claims[j].at)

\* The claim that opened the window of the last one.
Opens(i) ==
    /\ i \in DOMAIN claims /\ claims[i].fresh
    /\ \A j \in DOMAIN claims : j > i => ~claims[j].fresh

\* A record says what the claims of the last window say.
Tells(n) ==
    \E i \in DOMAIN claims :
        /\ Opens(i)
        /\ n.count = (Len(claims) + 1) - i /\ n.endsAt = claims[i].at + Window
        /\ n.lastSentAt = claims[Len(claims)].at

WindowsOver == \A i \in DOMAIN claims : claims[i].fresh => claims[i].at + Window <= clock

WindowsApart ==
    \A i, j \in DOMAIN claims :
        (i < j /\ claims[i].fresh /\ claims[j].fresh) => claims[i].at + Window <= claims[j].at

Spaced ==
    \A i \in DOMAIN claims :
        ~claims[i].fresh => i > 1 /\ claims[i - 1].at + Cooldown <= claims[i].at

Rationed ==
    \A i, j \in DOMAIN claims :
        (/\ i <= j /\ claims[i].fresh
         /\ \A k \in DOMAIN claims : (i < k /\ k <= j) => ~claims[k].fresh)
            => (j + 1) - i <= MaxInWindow

\* Between the claim and the put the record is in the request's hands, and
\* otherwise in the store until its window is over.
Claimed(k) == k.at \in {"clear", "put"}
NoteTells(k) == Tells(k.note) /\ k.note.endsAt <= k.note.until + clock
StoreTells ==
    /\ budget = NoNote => WindowsOver
    /\ budget # NoNote => Tells(budget) /\ budget.endsAt <= budget.until

BudgetInv ==
    /\ Times
    /\ calm => /\ WindowsApart /\ Spaced /\ Rationed
               /\ \A r \in Requests : Claimed(req[r]) => NoteTells(req[r])
               /\ (\A r \in Requests : ~Claimed(req[r])) => StoreTells

\* A message that was allowed has a code to make.
Claimers == {r \in Requests : req[r].at = "claim"}
Makers == {r \in Requests : Claimed(req[r])}
CodesLeft ==
    /\ IsFiniteSet(Claimers) /\ Len(claims) + Cardinality(Claimers) <= MaxCodes
    /\ IsFiniteSet(Makers) /\ made + Cardinality(Makers) <= Len(claims)

ClaimsTyped == claims \in Seq([at : Nat, fresh : BOOLEAN])

-----------------------------------------------------------------------------
(* What a step does to the requests and the claims.                         *)

\* A request that arrives and may be allowed a message.
Asks(r, k) ==
    /\ req' = [req EXCEPT ![r] = k] /\ MayMakeACode /\ req[r] = Idle
    /\ k \in AnyRequest /\ k.at = "claim" /\ k.code = 0

\* One that goes on elsewhere, or ends, has claimed or given up its claim.
GoesElsewhere(r, k) ==
    /\ req' = [req EXCEPT ![r] = k]
    /\ k \in AnyRequest /\ k.at \notin {"claim", "clear", "put"} /\ k.code \in {0, req[r].code}
    /\ Claimed(req[r]) => ~calm'

LEMMA IdleClaimsNothing == Idle \in AnyRequest /\ Idle.at = "idle" /\ Idle.code = 0
BY IdleRequest DEF Idle

LEMMA AsksFor ==
    ASSUME NEW r \in Requests, NEW f \in {"browser", "grant"}, MayMakeACode, req[r] = Idle,
           req' = [req EXCEPT ![r] = [Idle EXCEPT !.at = "claim", !.flow = f]]
    PROVE  \E k : Asks(r, k)
<1>1. PICK k : k = [Idle EXCEPT !.at = "claim", !.flow = f]
    OBVIOUS
<1>2. k \in AnyRequest
    BY <1>1, Claiming
<1>3. k.at = "claim" /\ k.code = 0
    BY <1>1 DEF Idle
<1> QED
    BY <1>1, <1>2, <1>3 DEF Asks

LEMMA Leaves ==
    ASSUME NEW r \in Requests, IsDone(r), Claimed(req[r]) => ~calm'
    PROVE  \E k : GoesElsewhere(r, k)
BY IdleClaimsNothing DEF IsDone, GoesElsewhere

LEMMA GoesAhead ==
    ASSUME Typed, NEW r \in Requests, NEW stage \in Stages, GoesOnTo(r, stage),
           stage \notin {"claim", "clear", "put"}, ~Claimed(req[r])
    PROVE  \E k : GoesElsewhere(r, k)
<1>1. PICK k \in AnyRequest : /\ req' = [req EXCEPT ![r] = k]
                              /\ k.at = stage /\ k.code = req[r].code
    BY GoingOn
<1> QED
    BY <1>1 DEF GoesElsewhere

LEMMA Shapes ==
    ASSUME Typed, [Next]_vars
    PROVE  \/ UNCHANGED <<clock, budget, claims, made, req>> /\ (calm' => calm)
           \/ Tick
           \/ \E r \in Requests :
                \/ ClaimRead(r) \/ ClaimClear(r) \/ ClaimPut(r)
                \/ /\ UNCHANGED <<clock, budget, claims, made>> /\ (calm' => calm)
                   /\ \E k : Asks(r, k) \/ GoesElsewhere(r, k)
<1>1. CASE UNCHANGED vars \/ NumberChanges
    BY <1>1 DEF vars, NumberChanges, store, history
<1>2. CASE Tick
    BY <1>2
<1>3. ASSUME NEW r \in Requests, RequestSteps(r)
      PROVE  \/ UNCHANGED <<clock, budget, claims, made, req>> /\ (calm' => calm)
             \/ ClaimRead(r) \/ ClaimClear(r) \/ ClaimPut(r)
             \/ /\ UNCHANGED <<clock, budget, claims, made>> /\ (calm' => calm)
                /\ \E k : Asks(r, k) \/ GoesElsewhere(r, k)
    <2>1. ASSUME NEW f \in Flows, Authenticate(r, f)
          PROVE  /\ UNCHANGED <<clock, budget, claims, made>> /\ (calm' => calm)
                 /\ \E k : Asks(r, k)
        <3>1. f \in {"browser", "grant"}
            BY ConstantsAssumption
        <3>2. \E k : Asks(r, k)
            BY <2>1, <3>1, AsksFor DEF Authenticate, Arrives
        <3> QED
            BY <2>1, <3>2 DEF Authenticate, Arrives, store, history
    <2>2. CASE Resend(r)
        <3>1. PICK k : k = [Idle EXCEPT !.at = "claim"]
            OBVIOUS
        <3>2. k \in AnyRequest /\ k.at = "claim" /\ k.code = 0
            BY <3>1, IdleRequest DEF AnyRequest, Stages, Idle
        <3>3. Asks(r, k)
            BY <2>2, <3>1, <3>2 DEF Resend, Arrives, Asks
        <3> QED
            BY <2>2, <3>3 DEF Resend, Arrives, store, history
    <2>3. ASSUME NEW f \in Flows, AnswerRight(r, f)
          PROVE  UNCHANGED <<clock, budget, claims, made, req>> /\ (calm' => calm)
        BY <2>3 DEF AnswerRight, Answers, Arrives
    <2>4. ASSUME NEW f \in Flows, NEW c \in Delivered \union {WrongCode}, AnswerWrong(r, f, c)
          PROVE  /\ UNCHANGED <<clock, budget, claims, made>> /\ (calm' => calm)
                 /\ UNCHANGED req \/ \E k : Asks(r, k)
        <3>1. f \in {"browser", "grant"}
            BY ConstantsAssumption
        <3>2. UNCHANGED req \/ \E k : Asks(r, k)
            BY <2>4, <3>1, AsksFor DEF AnswerWrong, Answers, Arrives
        <3> QED
            BY <2>4, <3>2 DEF AnswerWrong, Answers, Arrives
    <2>5. CASE ClaimRead(r) \/ ClaimClear(r) \/ ClaimPut(r)
        BY <2>5
    <2>6. CASE Send(r) \/ Forget(r) \/ Remember(r)
        <3>1. /\ UNCHANGED <<clock, budget, claims, made>> /\ (calm' => calm)
              /\ ~Claimed(req[r])
            BY <2>6 DEF Send, Forget, Remember, store, history, Claimed
        <3>2. IsDone(r) \/ GoesOnTo(r, "forget") \/ GoesOnTo(r, "remember") \/ GoesOnTo(r, "send")
            BY <2>6 DEF Send, Forget, Remember, GoesOn, AfterSend, AfterRemember
        <3>3. \E k : GoesElsewhere(r, k)
            BY <3>1, <3>2, Leaves, GoesAhead DEF Stages
        <3> QED
            BY <3>1, <3>3
    <2>7. CASE SendAnswerLost(r) \/ SendFails(r) \/ RequestDies(r)
        <3>1. /\ UNCHANGED <<clock, budget, claims, made>> /\ (calm' => calm)
              /\ Claimed(req[r]) => ~calm'
              /\ IsDone(r)
            BY <2>7 DEF SendAnswerLost, SendFails, RequestDies, store, history, Claimed
        <3> QED
            BY <3>1, Leaves
    <2> QED
        BY <1>3, <2>1, <2>2, <2>3, <2>4, <2>5, <2>6, <2>7 DEF RequestSteps
<1> QED
    BY <1>1, <1>2, <1>3 DEF Next

-----------------------------------------------------------------------------
(* The claims.                                                              *)

\* One claim more, now.
LEMMA OneClaimMore ==
    ASSUME ClaimsTyped, NEW e \in [at : Nat, fresh : BOOLEAN], claims' = Append(claims, e)
    PROVE  /\ ClaimsTyped' /\ Len(claims) \in Nat /\ Len(claims') = Len(claims) + 1
           /\ DOMAIN claims = 1 .. Len(claims) /\ DOMAIN claims' = 1 .. (Len(claims) + 1)
           /\ claims'[Len(claims) + 1] = e
           /\ \A i \in DOMAIN claims : claims'[i] = claims[i]
BY DEF ClaimsTyped

LEMMA ClaimAt ==
    ASSUME ClaimsTyped
    PROVE  /\ Len(claims) \in Nat /\ DOMAIN claims = 1 .. Len(claims)
           /\ \A i \in DOMAIN claims : claims[i].at \in Nat /\ claims[i].fresh \in BOOLEAN
<1>1. Len(claims) \in Nat /\ DOMAIN claims = 1 .. Len(claims)
    BY DEF ClaimsTyped
<1>2. ASSUME NEW i \in DOMAIN claims
      PROVE  claims[i] \in [at : Nat, fresh : BOOLEAN]
    BY <1>1, ElementOfSeq DEF ClaimsTyped
<1> QED
    BY <1>1, <1>2

\* What a claim in a new window does to the windows before it.
LEMMA FreshClaim ==
    ASSUME ClaimsTyped, Typed, Times, WindowsApart, Spaced, Rationed, WindowsOver,
           claims' = Append(claims, [at |-> clock, fresh |-> TRUE]), clock' = clock
    PROVE  /\ ClaimsTyped' /\ Times' /\ WindowsApart' /\ Spaced' /\ Rationed'
           /\ Tells(FreshNote)'
<1> DEFINE e == [at |-> clock, fresh |-> TRUE]
<1>n. PICK n : n = Len(claims)
    OBVIOUS
<1>0. e \in [at : Nat, fresh : BOOLEAN] /\ e.at = clock /\ e.fresh /\ clock \in Nat
    BY DEF Typed
<1>1. /\ ClaimsTyped' /\ n \in Nat /\ Len(claims') = n + 1
      /\ DOMAIN claims = 1 .. n /\ DOMAIN claims' = 1 .. (n + 1)
      /\ claims'[n + 1] = e /\ \A i \in DOMAIN claims : claims'[i] = claims[i]
    BY <1>0, <1>n, OneClaimMore
<1> HIDE DEF e
<1>2. \A i \in DOMAIN claims : claims[i].at \in Nat /\ claims[i].fresh \in BOOLEAN
    BY ClaimAt
<1>3. Times'
    BY <1>0, <1>1, <1>2 DEF Times
<1>4. WindowsApart'
    BY <1>0, <1>1, <1>2 DEF WindowsApart, WindowsOver
<1>5. Spaced'
    BY <1>0, <1>1, <1>2 DEF Spaced
<1>6. Rationed'
    <2> SUFFICES ASSUME NEW i \in 1 .. (n + 1), NEW j \in 1 .. (n + 1), i <= j, claims'[i].fresh,
                        \A k \in 1 .. (n + 1) : (i < k /\ k <= j) => ~claims'[k].fresh
                 PROVE  (j + 1) - i <= MaxInWindow
        BY <1>1 DEF Rationed
    <2>1. CASE j = n + 1
        <3>1. i = j
            BY <1>0, <1>1, <2>1
        <3> QED
            BY <1>1, <3>1, ConstantsAssumption
    <2>2. CASE j \in 1 .. n
        <3>1. i \in DOMAIN claims /\ j \in DOMAIN claims /\ claims[i].fresh
            BY <1>1, <2>2
        <3>2. \A k \in DOMAIN claims : (i < k /\ k <= j) => ~claims[k].fresh
            BY <1>1
        <3> QED
            BY <3>1, <3>2 DEF Rationed
    <2> QED
        BY <1>1, <2>1, <2>2
<1>7. Tells(FreshNote)'
    <2>1. Opens(n + 1)'
        BY <1>0, <1>1 DEF Opens
    <2>2. FreshNote.count = 1 /\ FreshNote.endsAt = clock + Window /\ FreshNote.lastSentAt = clock
        BY DEF FreshNote
    <2> QED
        BY <1>0, <1>1, <2>1, <2>2 DEF Tells, FreshNote
<1> QED
    BY <1>1, <1>3, <1>4, <1>5, <1>6, <1>7

\* What another claim in the same window does.
LEMMA NextClaim ==
    ASSUME ClaimsTyped, Typed, Times, WindowsApart, Spaced, Rationed, Tells(budget),
           budget.count < MaxInWindow, clock - budget.lastSentAt >= Cooldown,
           claims' = Append(claims, [at |-> clock, fresh |-> FALSE]), clock' = clock,
           budget' = budget
    PROVE  /\ ClaimsTyped' /\ Times' /\ WindowsApart' /\ Spaced' /\ Rationed'
           /\ Tells(NextNote)'
<1> DEFINE e == [at |-> clock, fresh |-> FALSE]
<1>n. PICK n : n = Len(claims)
    OBVIOUS
<1>0. e \in [at : Nat, fresh : BOOLEAN] /\ e.at = clock /\ ~e.fresh /\ clock \in Nat
    BY DEF Typed
<1>1. /\ ClaimsTyped' /\ n \in Nat /\ Len(claims') = n + 1
      /\ DOMAIN claims = 1 .. n /\ DOMAIN claims' = 1 .. (n + 1)
      /\ claims'[n + 1] = e /\ \A i \in DOMAIN claims : claims'[i] = claims[i]
    BY <1>0, <1>n, OneClaimMore
<1> HIDE DEF e
<1>2. \A i \in DOMAIN claims : claims[i].at \in Nat /\ claims[i].fresh \in BOOLEAN
    BY ClaimAt
<1>3. PICK o \in 1 .. n : /\ Opens(o)
                          /\ budget.count = (n + 1) - o /\ budget.endsAt = claims[o].at + Window
                          /\ budget.lastSentAt = claims[n].at
    BY <1>n, <1>1 DEF Tells
<1>4. Times'
    BY <1>0, <1>1, <1>2 DEF Times
<1>5. WindowsApart'
    <2> SUFFICES ASSUME NEW i \in 1 .. (n + 1), NEW j \in 1 .. (n + 1), i < j,
                        claims'[i].fresh, claims'[j].fresh
                 PROVE  claims'[i].at + Window <= claims'[j].at
        BY <1>1 DEF WindowsApart
    <2>1. i \in 1 .. n /\ j \in 1 .. n
        BY <1>0, <1>1
    <2> QED
        BY <1>1, <2>1 DEF WindowsApart
<1>6. n > 0 /\ claims[n].at \in Nat /\ claims[n].at + Cooldown <= clock
    <2>1. n > 0 /\ n \in DOMAIN claims
        BY <1>1, <1>3
    <2>2. claims[n].at \in Nat /\ claims[n].at <= clock
        BY <1>2, <2>1 DEF Times
    <2> QED
        BY <1>0, <1>3, <2>1, <2>2, ConstantsAssumption
<1>7. Spaced'
    <2> SUFFICES ASSUME NEW i \in 1 .. (n + 1), ~claims'[i].fresh
                 PROVE  i > 1 /\ claims'[i - 1].at + Cooldown <= claims'[i].at
        BY <1>1 DEF Spaced
    <2>1. CASE i = n + 1
        <3>1. i - 1 = n /\ n \in DOMAIN claims
            BY <1>1, <1>6, <2>1
        <3>2. claims'[i - 1].at = claims[n].at /\ claims'[i].at = clock
            BY <1>0, <1>1, <2>1, <3>1
        <3>3. i > 1
            BY <1>1, <1>6, <2>1
        <3> QED
            BY <1>6, <3>2, <3>3
    <2>2. CASE i \in 1 .. n
        <3>1. ~claims[i].fresh /\ i \in DOMAIN claims
            BY <1>1, <2>2
        <3>2. i > 1 /\ claims[i - 1].at + Cooldown <= claims[i].at
            BY <3>1 DEF Spaced
        <3>3. i - 1 \in DOMAIN claims
            BY <1>1, <2>2, <3>2
        <3>4. claims'[i] = claims[i] /\ claims'[i - 1] = claims[i - 1]
            BY <1>1, <3>1, <3>3
        <3> QED
            BY <3>2, <3>4
    <2> QED
        BY <1>1, <2>1, <2>2
<1>8. Rationed'
    <2> SUFFICES ASSUME NEW i \in 1 .. (n + 1), NEW j \in 1 .. (n + 1), i <= j, claims'[i].fresh,
                        \A k \in 1 .. (n + 1) : (i < k /\ k <= j) => ~claims'[k].fresh
                 PROVE  (j + 1) - i <= MaxInWindow
        BY <1>1 DEF Rationed
    <2>1. CASE j = n + 1
        <3>1. i \in 1 .. n /\ claims[i].fresh
            BY <1>0, <1>1
        <3>2. \A k \in 1 .. n : i < k => ~claims[k].fresh
            BY <1>1, <2>1
        <3>3. i = o
            BY <1>1, <1>3, <3>1, <3>2 DEF Opens
        <3> QED
            BY <1>1, <1>3, <2>1, <3>3, ConstantsAssumption
    <2>2. CASE j \in 1 .. n
        <3>1. i \in DOMAIN claims /\ j \in DOMAIN claims /\ claims[i].fresh
            BY <1>1, <2>2
        <3>2. \A k \in DOMAIN claims : (i < k /\ k <= j) => ~claims[k].fresh
            BY <1>1
        <3> QED
            BY <3>1, <3>2 DEF Rationed
    <2> QED
        BY <1>1, <2>1, <2>2
<1>9. Tells(NextNote)'
    <2>1. Opens(o)'
        BY <1>0, <1>1, <1>3 DEF Opens
    <2>2. /\ NextNote'.count = (n + 2) - o /\ NextNote'.endsAt = claims[o].at + Window
          /\ NextNote'.lastSentAt = clock
        BY <1>1, <1>3 DEF NextNote
    <2>3. claims'[o] = claims[o] /\ o \in DOMAIN claims'
        BY <1>1, <1>3
    <2>4. (n + 2) - o = (Len(claims') + 1) - o
        BY <1>1
    <2> QED
        BY <1>0, <1>1, <2>1, <2>2, <2>3, <2>4 DEF Tells
<1> QED
    BY <1>1, <1>4, <1>5, <1>7, <1>8, <1>9

-----------------------------------------------------------------------------
(* The record.                                                              *)

LEMMA TellsStill ==
    ASSUME claims' = claims, NEW m
    PROVE  Tells(m) <=> Tells(m)'
BY DEF Tells, Opens

\* Steps that claim nothing, and move no record but out of an old window.
LEMMA BudgetSteady ==
    ASSUME Typed, ClaimsTyped, BudgetInv, claims' = claims, clock' \in {clock, clock + 1},
           calm' => calm,
           calm' => \A q \in Requests :
              /\ Claimed(req'[q]) => req'[q] = req[q]
              /\ Claimed(req[q]) => Claimed(req'[q]),
           budget' = budget \/ (budget' = NoNote /\ budget.until <= clock')
    PROVE  ClaimsTyped' /\ BudgetInv'
<1>0. ClaimsTyped' /\ clock \in Nat /\ clock' \in Nat /\ clock <= clock'
    BY DEF ClaimsTyped, Typed
<1>1. \A i \in DOMAIN claims : claims[i].at \in Nat /\ claims[i].fresh \in BOOLEAN
    BY ClaimAt
<1>2. Times'
    BY <1>0, <1>1 DEF BudgetInv, Times
<1>3. ASSUME calm'
      PROVE  WindowsApart' /\ Spaced' /\ Rationed'
    BY <1>3 DEF BudgetInv, WindowsApart, Spaced, Rationed
<1>4. ASSUME calm', NEW q \in Requests, Claimed(req'[q])
      PROVE  NoteTells(req[q])'
    <2>1. PICK k : k = req[q]
        OBVIOUS
    <2>2. k = req'[q] /\ Claimed(req[q]) /\ calm
        BY <1>4, <2>1
    <2>3. Tells(k.note) /\ k.note.endsAt <= k.note.until + clock
        BY <2>1, <2>2 DEF BudgetInv, NoteTells
    <2>4. k.note.endsAt \in Nat /\ k.note.until \in Nat
        BY <2>1 DEF Typed, AnyRequest, Note
    <2>5. Tells(k.note)'
        BY <2>3, TellsStill
    <2>6. k.note.endsAt <= k.note.until + clock'
        BY <1>0, <2>3, <2>4
    <2> QED
        BY <2>2, <2>5, <2>6 DEF NoteTells, Tells
<1>5. ASSUME calm', \A q \in Requests : ~Claimed(req'[q])
      PROVE  StoreTells'
    <2>1. StoreTells
        BY <1>5 DEF BudgetInv
    <2>2. PICK b : b = budget
        OBVIOUS
    <2>3. CASE budget = NoNote
        <3>1. WindowsOver
            BY <2>1, <2>3 DEF StoreTells
        <3>2. WindowsOver'
            BY <1>0, <1>1, <3>1, ConstantsAssumption DEF WindowsOver
        <3>3. budget' = NoNote
            BY <2>3
        <3> QED
            BY <3>2, <3>3 DEF StoreTells
    <2>4. CASE budget # NoNote /\ budget' = budget
        <3>1. Tells(b) /\ b.endsAt <= b.until
            BY <2>1, <2>2, <2>4 DEF StoreTells
        <3>2. Tells(b)' /\ b = budget'
            BY <2>2, <2>4, <3>1, TellsStill
        <3> QED
            BY <2>4, <3>1, <3>2 DEF StoreTells, Tells
    <2>5. CASE budget # NoNote /\ budget' = NoNote /\ budget.until <= clock'
        <3>1. Tells(budget) /\ budget.endsAt <= budget.until
            BY <2>1, <2>5 DEF StoreTells
        <3>2. budget.endsAt \in Nat /\ budget.until \in Nat
            BY DEF Typed, Note
        <3>3. PICK i \in DOMAIN claims : Opens(i) /\ budget.endsAt = claims[i].at + Window
            BY <3>1 DEF Tells
        <3>4. ASSUME NEW j \in DOMAIN claims, claims[j].fresh
              PROVE  claims[j].at + Window <= clock'
            <4>1. j <= i
                BY <3>3, <3>4, ClaimAt DEF Opens
            <4>2. claims[j].at <= claims[i].at
                BY <4>1 DEF BudgetInv, Times
            <4> QED
                BY <1>0, <1>1, <2>5, <3>1, <3>2, <3>3, <4>2, ConstantsAssumption
        <3>5. WindowsOver'
            BY <3>4 DEF WindowsOver
        <3> QED
            BY <2>5, <3>5 DEF StoreTells
    <2> QED
        BY <2>3, <2>4, <2>5
<1> QED
    BY <1>0, <1>2, <1>3, <1>4, <1>5 DEF BudgetInv

\* A claim by the only request there is.
LEMMA BudgetClaimed ==
    ASSUME LatestInv, ClaimsTyped, BudgetInv, NEW r \in Requests, ClaimRead(r), Allowed
    PROVE  ClaimsTyped' /\ BudgetInv'
<1>0. Typed /\ clock \in Nat /\ UNCHANGED <<clock, budget, calm>> /\ req[r].at = "claim"
    BY DEF LatestInv, GuessInv, Typed, ClaimRead, store
<1>1. PICK note, stage : /\ note = (IF budget = NoNote THEN FreshNote ELSE NextNote)
                         /\ stage = (IF budget = NoNote THEN "put" ELSE "clear")
    OBVIOUS
<1>2. req' = [req EXCEPT ![r] = [req[r] EXCEPT !.at = stage, !.note = note]]
    BY <1>1 DEF ClaimRead
<1>3. PICK k : k = [req[r] EXCEPT !.at = stage, !.note = note]
    OBVIOUS
<1>4. k.at \in {"put", "clear"} /\ k.note = note
    BY <1>0, <1>1, <1>3 DEF Typed, AnyRequest
<1>5. req'[r] = k /\ \A q \in Requests \ {r} : req'[q] = req[q]
    BY <1>0, <1>2, <1>3 DEF Typed
<1>6. PICK b \in BOOLEAN : /\ b <=> budget = NoNote
                           /\ claims' = Append(claims, [at |-> clock, fresh |-> b])
    <2>1. claims' = Append(claims, [at |-> clock, fresh |-> budget = NoNote])
        BY DEF ClaimRead
    <2>2. PICK b \in BOOLEAN : b = (budget = NoNote)
        OBVIOUS
    <2> QED
        BY <2>1, <2>2
<1>7. ClaimsTyped' /\ Times'
    <2>1. [at |-> clock, fresh |-> b] \in [at : Nat, fresh : BOOLEAN]
        BY <1>0
    <2>2. PICK n : n = Len(claims)
        OBVIOUS
    <2>3. /\ ClaimsTyped' /\ n \in Nat /\ Len(claims') = n + 1
          /\ DOMAIN claims = 1 .. n /\ DOMAIN claims' = 1 .. (n + 1)
          /\ claims'[n + 1] = [at |-> clock, fresh |-> b]
          /\ \A i \in DOMAIN claims : claims'[i] = claims[i]
        BY <1>6, <2>1, <2>2, OneClaimMore
    <2>4. \A i \in DOMAIN claims : claims[i].at \in Nat
        BY ClaimAt
    <2>5. claims'[n + 1].at = clock
        BY <2>3
    <2>6. Times'
        BY <1>0, <2>3, <2>4, <2>5 DEF BudgetInv, Times
    <2> QED
        BY <2>3, <2>6
<1>8. ASSUME calm'
      PROVE  WindowsApart' /\ Spaced' /\ Rationed' /\ NoteTells(req[r])'
    <2>1. calm /\ Alone(r)
        BY <1>0, <1>8, UnderWay
    <2>2. \A q \in Requests : ~Claimed(req[q])
        BY <1>0, <2>1, IdleClaimsNothing DEF Alone, Claimed
    <2>3. StoreTells /\ Times /\ WindowsApart /\ Spaced /\ Rationed
        BY <2>1, <2>2 DEF BudgetInv
    <2>4. CASE budget = NoNote
        <3>1. claims' = Append(claims, [at |-> clock, fresh |-> TRUE]) /\ WindowsOver
            BY <1>6, <2>3, <2>4 DEF StoreTells
        <3>2. WindowsApart' /\ Spaced' /\ Rationed' /\ Tells(FreshNote)'
            BY <1>0, <2>3, <3>1, FreshClaim
        <3>3. note = FreshNote /\ note' = FreshNote'
            BY <1>0, <1>1, <2>4 DEF FreshNote
        <3>4. note.endsAt = clock + Window /\ note.until = Window
            BY <3>3 DEF FreshNote
        <3>5. note.endsAt <= note.until + clock
            BY <1>0, <3>4, ConstantsAssumption
        <3>6. Tells(note)'
            BY <3>2, <3>3 DEF Tells
        <3> QED
            BY <1>0, <1>4, <1>5, <3>2, <3>5, <3>6 DEF NoteTells, Tells
    <2>5. CASE budget # NoNote
        <3>1. claims' = Append(claims, [at |-> clock, fresh |-> FALSE])
            BY <1>6, <2>5
        <3>2. Tells(budget) /\ budget.count < MaxInWindow /\ clock - budget.lastSentAt >= Cooldown
            BY <2>3, <2>5 DEF StoreTells, Allowed
        <3>3. WindowsApart' /\ Spaced' /\ Rationed' /\ Tells(NextNote)'
            BY <1>0, <2>3, <3>1, <3>2, NextClaim
        <3>4. note = NextNote /\ note' = NextNote'
            BY <1>0, <1>1, <2>5 DEF NextNote
        <3>5. /\ note.endsAt = budget.endsAt
              /\ note.until = IF budget.endsAt > clock THEN budget.endsAt - clock ELSE 1
            BY <3>4 DEF NextNote
        <3>6. budget.endsAt \in Nat
            BY <1>0 DEF Typed, Note
        <3>7. note.endsAt <= note.until + clock
            BY <1>0, <3>5, <3>6
        <3>8. Tells(note)'
            BY <3>3, <3>4 DEF Tells
        <3> QED
            BY <1>0, <1>4, <1>5, <3>3, <3>7, <3>8 DEF NoteTells, Tells
    <2> QED
        BY <2>4, <2>5
<1>9. ASSUME calm', NEW q \in Requests, Claimed(req'[q])
      PROVE  q = r
    <2>1. Alone(r)
        BY <1>0, <1>9, UnderWay
    <2> QED
        BY <1>5, <1>9, <2>1, IdleClaimsNothing DEF Alone, Claimed
<1>10. Claimed(req'[r])
    BY <1>4, <1>5 DEF Claimed
<1> QED
    BY <1>7, <1>8, <1>9, <1>10 DEF BudgetInv

LEMMA BudgetCleared ==
    ASSUME LatestInv, ClaimsTyped, BudgetInv, NEW r \in Requests, ClaimClear(r)
    PROVE  ClaimsTyped' /\ BudgetInv'
<1>0. Typed /\ UNCHANGED <<clock, claims, calm>> /\ req[r].at = "clear"
    BY DEF LatestInv, GuessInv, ClaimClear, history
<1>1. PICK k : k = [req[r] EXCEPT !.at = "put"]
    OBVIOUS
<1>2. req'[r] = k /\ \A q \in Requests \ {r} : req'[q] = req[q]
    BY <1>0, <1>1 DEF ClaimClear, GoesOnTo, Typed
<1>3. k.at = "put" /\ k.note = req[r].note
    BY <1>0, <1>1 DEF Typed, AnyRequest
<1>4. ASSUME calm', NEW q \in Requests, Claimed(req'[q])
      PROVE  NoteTells(req[q])'
    <2>1. calm /\ Alone(r)
        BY <1>0, <1>4, UnderWay
    <2>2. q = r
        BY <1>2, <1>4, <2>1, IdleClaimsNothing DEF Alone, Claimed
    <2>3. NoteTells(req[r])
        BY <1>0, <2>1 DEF BudgetInv, Claimed
    <2>4. Tells(k.note) /\ k.note.endsAt <= k.note.until + clock
        BY <1>3, <2>3 DEF NoteTells
    <2>5. Tells(k.note)'
        BY <1>0, <2>4, TellsStill
    <2> QED
        BY <1>0, <1>2, <2>2, <2>4, <2>5 DEF NoteTells, Tells
<1>5. Claimed(req'[r])
    BY <1>2, <1>3 DEF Claimed
<1>6. ClaimsTyped' /\ Times' /\ (calm' => WindowsApart' /\ Spaced' /\ Rationed')
    BY <1>0 DEF ClaimsTyped, BudgetInv, Times, WindowsApart, Spaced, Rationed
<1> QED
    BY <1>4, <1>5, <1>6 DEF BudgetInv

LEMMA BudgetPut ==
    ASSUME LatestInv, ClaimsTyped, BudgetInv, NEW r \in Requests, ClaimPut(r)
    PROVE  ClaimsTyped' /\ BudgetInv'
<1>0. Typed /\ UNCHANGED <<clock, claims, calm>> /\ req[r].at = "put"
    BY DEF LatestInv, GuessInv, ClaimPut, history
<1>1. PICK k : k = [req[r] EXCEPT !.at = AfterClaim(r), !.code = made + 1]
    OBVIOUS
<1>2. req'[r] = k /\ \A q \in Requests \ {r} : req'[q] = req[q]
    BY <1>0, <1>1 DEF ClaimPut, Typed
<1>3. k.at \in {"send", "forget"}
    BY <1>0, <1>1 DEF Typed, AnyRequest, AfterClaim
<1>4. PICK b, note : /\ b = [req[r].note EXCEPT !.until = @ + clock]
                     /\ note = req[r].note
    OBVIOUS
<1>5. budget' = b /\ note \in Note /\ clock \in Nat
    BY <1>0, <1>4 DEF ClaimPut, Typed, AnyRequest
<1>6. /\ b.count = note.count /\ b.endsAt = note.endsAt /\ b.lastSentAt = note.lastSentAt
      /\ b.until = note.until + clock
    BY <1>4, <1>5 DEF Note
<1>7. ASSUME calm'
      PROVE  StoreTells' /\ \A q \in Requests : ~Claimed(req'[q])
    <2>1. calm /\ Alone(r)
        BY <1>0, <1>7, UnderWay
    <2>2. \A q \in Requests : ~Claimed(req'[q])
        BY <1>2, <1>3, <2>1, IdleClaimsNothing DEF Alone, Claimed
    <2>3. NoteTells(req[r])
        BY <1>0, <2>1 DEF BudgetInv, Claimed
    <2>4. Tells(note) /\ note.endsAt <= note.until + clock
        BY <1>4, <2>3 DEF NoteTells
    <2>5. PICK i \in DOMAIN claims : note.count = (Len(claims) + 1) - i
        BY <2>4 DEF Tells
    <2>6. b.count # 0
        BY <1>6, <2>5, ClaimAt
    <2>7. b # NoNote
        BY <2>6 DEF NoNote
    <2>8. Tells(b)
        BY <1>6, <2>4 DEF Tells
    <2>9. Tells(b)'
        BY <1>0, <2>8, TellsStill
    <2>10. StoreTells'
        BY <1>5, <1>6, <2>4, <2>7, <2>9 DEF StoreTells, Tells
    <2> QED
        BY <2>2, <2>10
<1>8. ClaimsTyped' /\ Times' /\ (calm' => WindowsApart' /\ Spaced' /\ Rationed')
    BY <1>0 DEF ClaimsTyped, BudgetInv, Times, WindowsApart, Spaced, Rationed
<1> QED
    BY <1>7, <1>8 DEF BudgetInv

LEMMA BudgetKeeps ==
    ASSUME LatestInv, ClaimsTyped, BudgetInv, [Next]_vars
    PROVE  ClaimsTyped' /\ BudgetInv'
<1>0. Typed /\ clock \in Nat
    BY DEF LatestInv, GuessInv, Typed
<1>1. CASE UNCHANGED <<clock, budget, claims, made, req>> /\ (calm' => calm)
    BY <1>0, <1>1, BudgetSteady
<1>2. CASE Tick
    <2>1. /\ claims' = claims /\ clock' = clock + 1 /\ req' = req /\ calm' = calm
          /\ budget' = IF budget.until <= clock + 1 THEN NoNote ELSE budget
        BY <1>2 DEF Tick, history
    <2> QED
        BY <1>0, <2>1, BudgetSteady
<1>3. ASSUME NEW r \in Requests, ClaimRead(r) PROVE ClaimsTyped' /\ BudgetInv'
    <2>1. CASE Allowed
        BY <1>3, <2>1, BudgetClaimed
    <2>2. CASE ~Allowed
        <3>1. IsDone(r) /\ UNCHANGED <<clock, budget, claims, calm>> /\ ~Claimed(req[r])
            BY <1>3, <2>2 DEF ClaimRead, store, Claimed
        <3>2. req'[r] = Idle /\ \A q \in Requests \ {r} : req'[q] = req[q]
            BY <1>0, <3>1 DEF IsDone, Typed
        <3>3. ~Claimed(req'[r])
            BY <3>2, IdleClaimsNothing DEF Claimed
        <3> QED
            BY <1>0, <3>1, <3>2, <3>3, BudgetSteady
    <2> QED
        BY <2>1, <2>2
<1>4. ASSUME NEW r \in Requests, ClaimClear(r) \/ ClaimPut(r) PROVE ClaimsTyped' /\ BudgetInv'
    BY <1>4, BudgetCleared, BudgetPut
<1>5. ASSUME NEW r \in Requests, NEW k, Asks(r, k) \/ GoesElsewhere(r, k),
             UNCHANGED <<clock, budget, claims, made>>, calm' => calm
      PROVE  ClaimsTyped' /\ BudgetInv'
    <2>1. req'[r] = k /\ \A q \in Requests \ {r} : req'[q] = req[q]
        BY <1>0, <1>5 DEF Asks, GoesElsewhere, Typed
    <2>2. ~Claimed(req'[r]) /\ (calm' => ~Claimed(req[r]))
        BY <1>5, <2>1, IdleClaimsNothing DEF Asks, GoesElsewhere, Claimed
    <2> QED
        BY <1>0, <1>5, <2>1, <2>2, BudgetSteady
<1> QED
    BY <1>0, <1>1, <1>2, <1>3, <1>4, <1>5, Shapes

LEMMA BudgetStarts ==
    ASSUME Init
    PROVE  ClaimsTyped /\ BudgetInv
<1>1. claims = <<>> /\ budget = NoNote /\ req = [r \in Requests |-> Idle]
    BY DEF Init
<1>2. ClaimsTyped /\ DOMAIN claims = {}
    BY <1>1 DEF ClaimsTyped
<1>3. \A r \in Requests : ~Claimed(req[r])
    BY <1>1, IdleClaimsNothing DEF Claimed
<1> QED
    BY <1>1, <1>2, <1>3 DEF BudgetInv, Times, WindowsApart, Spaced, Rationed, StoreTells, WindowsOver

LEMMA AlwaysBudget == Spec => [](LatestInv /\ ClaimsTyped /\ BudgetInv)
<1>1. Init => LatestInv /\ ClaimsTyped /\ BudgetInv
    BY LatestStarts, BudgetStarts
<1>2. LatestInv /\ ClaimsTyped /\ BudgetInv /\ [Next]_vars => (LatestInv /\ ClaimsTyped /\ BudgetInv)'
    BY LatestKept, BudgetKeeps
<1> QED
    BY <1>1, <1>2, PTL DEF Spec

\* As long as requests do not overlap or die, no window has more messages than
\* it may, none begins before the last is over, and messages of a window are
\* apart, for any limits and however long claims, messages and answers take.
THEOREM WithinBudget == Spec => []BudgetKept
<1>1. ClaimsTyped /\ BudgetInv => BudgetKept
    <2> SUFFICES ASSUME ClaimsTyped, BudgetInv, NEW i \in DOMAIN claims, calm, claims[i].fresh
                 PROVE  /\ Cardinality(InWindowOf(i)) <= MaxInWindow
                        /\ \A j \in InWindowOf(i) \ {i} :
                              ~claims[j].fresh /\ claims[j].at >= claims[j - 1].at + Cooldown
        BY DEF BudgetKept
    <2>0. /\ Len(claims) \in Nat /\ DOMAIN claims = 1 .. Len(claims)
          /\ \A j \in DOMAIN claims : claims[j].at \in Nat /\ claims[j].fresh \in BOOLEAN
        BY ClaimAt
    <2>1. ASSUME NEW j \in InWindowOf(i)
          PROVE  j \in DOMAIN claims /\ i <= j /\ claims[j].at < claims[i].at + Window
        BY <2>0 DEF InWindowOf
    <2>2. ASSUME NEW j \in InWindowOf(i), j # i
          PROVE  ~claims[j].fresh
        <3>1. i < j
            BY <2>0, <2>1, <2>2
        <3>2. ASSUME claims[j].fresh PROVE FALSE
            <4>1. claims[i].at + Window <= claims[j].at
                BY <2>1, <3>1, <3>2 DEF BudgetInv, WindowsApart
            <4> QED
                BY <2>0, <2>1, <4>1, ConstantsAssumption
        <3> QED
            BY <3>2
    <2>3. ASSUME NEW j \in InWindowOf(i), j # i
          PROVE  claims[j].at >= claims[j - 1].at + Cooldown
        <3>1. j > 1 /\ claims[j - 1].at + Cooldown <= claims[j].at
            BY <2>1, <2>2, <2>3 DEF BudgetInv, Spaced
        <3>2. j - 1 \in DOMAIN claims
            BY <2>0, <2>1, <3>1
        <3> QED
            BY <2>0, <2>1, <3>1, <3>2, ConstantsAssumption
    <2>4. ASSUME NEW j \in InWindowOf(i)
          PROVE  j \in i .. (i + MaxInWindow - 1)
        <3>1. ASSUME NEW k \in DOMAIN claims, i < k, k <= j
              PROVE  ~claims[k].fresh
            <4>1. claims[k].at <= claims[j].at
                BY <2>1, <3>1 DEF BudgetInv, Times
            <4>2. k \in InWindowOf(i)
                BY <2>0, <2>1, <3>1, <4>1, ConstantsAssumption DEF InWindowOf
            <4> QED
                BY <2>0, <2>2, <3>1, <4>2
        <3>2. (j + 1) - i <= MaxInWindow
            BY <2>1, <3>1 DEF BudgetInv, Rationed
        <3> QED
            BY <2>0, <2>1, <3>2, ConstantsAssumption
    <2>5. Cardinality(InWindowOf(i)) <= MaxInWindow
        <3>1. i \in Int /\ i + MaxInWindow - 1 \in Int /\ MaxInWindow \in Nat
            BY <2>0, ConstantsAssumption
        <3>2. /\ IsFiniteSet(i .. (i + MaxInWindow - 1))
              /\ Cardinality(i .. (i + MaxInWindow - 1)) = MaxInWindow
            BY <3>1, FS_Interval, ConstantsAssumption
        <3>3. InWindowOf(i) \in SUBSET (i .. (i + MaxInWindow - 1))
            BY <2>4
        <3> QED
            BY <3>2, <3>3, FS_Subset
    <2> QED
        BY <2>2, <2>3, <2>5
<1> QED
    BY <1>1, AlwaysBudget, PTL

-----------------------------------------------------------------------------
(* The types.  What bounds them is that a request asks only while a code is *)
(* left for it, and that a claim makes one code at most.                    *)

\* The counts, with the sets that are counted named.
LEMMA CountsKept ==
    ASSUME CodesLeft, NEW C, NEW M, Claimers' = C, Makers' = M,
           IsFiniteSet(C), IsFiniteSet(M),
           Len(claims') + Cardinality(C) <= MaxCodes, made' + Cardinality(M) <= Len(claims')
    PROVE  CodesLeft'
BY DEF CodesLeft

LEMMA CodesKept ==
    ASSUME Typed, ClaimsTyped, CodesLeft, [Next]_vars
    PROVE  CodesLeft'
<1>0. /\ Len(claims) \in Nat /\ made \in Nat /\ MaxCodes \in Nat
      /\ Cardinality(Claimers) \in Nat /\ Cardinality(Makers) \in Nat
    BY FS_CardinalityType, ConstantsAssumption, ClaimAt DEF CodesLeft, Typed
<1>r. ASSUME NEW r \in Requests
      PROVE  /\ IsFiniteSet(Claimers \ {r}) /\ Cardinality(Claimers \ {r}) \in Nat
             /\ Cardinality(Claimers \ {r}) <= Cardinality(Claimers)
             /\ r \in Claimers => Cardinality(Claimers \ {r}) = Cardinality(Claimers) - 1
             /\ IsFiniteSet(Makers \ {r}) /\ Cardinality(Makers \ {r}) \in Nat
             /\ Cardinality(Makers \ {r}) <= Cardinality(Makers)
             /\ r \in Makers => Cardinality(Makers \ {r}) = Cardinality(Makers) - 1
    <2>1. IsFiniteSet(Claimers) /\ IsFiniteSet(Makers)
        BY DEF CodesLeft
    <2>2. /\ IsFiniteSet(Claimers \ {r})
          /\ Cardinality(Claimers \ {r}) =
                IF r \in Claimers THEN Cardinality(Claimers) - 1 ELSE Cardinality(Claimers)
        BY <2>1, FS_RemoveElement
    <2>3. /\ IsFiniteSet(Makers \ {r})
          /\ Cardinality(Makers \ {r}) =
                IF r \in Makers THEN Cardinality(Makers) - 1 ELSE Cardinality(Makers)
        BY <2>1, FS_RemoveElement
    <2>4. Cardinality(Claimers \ {r}) \in Nat /\ Cardinality(Makers \ {r}) \in Nat
        BY <2>2, <2>3, FS_CardinalityType
    <2> QED
        BY <1>0, <2>2, <2>3, <2>4
<1>a. ASSUME NEW r \in Requests
      PROVE  /\ r \notin Claimers => /\ IsFiniteSet(Claimers \union {r})
                                     /\ Cardinality(Claimers \union {r}) = Cardinality(Claimers) + 1
             /\ r \notin Makers => /\ IsFiniteSet(Makers \union {r})
                                   /\ Cardinality(Makers \union {r}) = Cardinality(Makers) + 1
    BY FS_AddElement DEF CodesLeft
<1>1. ASSUME UNCHANGED <<claims, made, req>> PROVE CodesLeft'
    BY <1>1 DEF CodesLeft, Claimers, Makers, Claimed
<1>2. ASSUME NEW r \in Requests, NEW k, Asks(r, k), UNCHANGED <<claims, made>>
      PROVE  CodesLeft'
    <2>1. req'[r] = k /\ \A q \in Requests \ {r} : req'[q] = req[q]
        BY <1>2 DEF Asks, Typed
    <2>2. k.at = "claim" /\ req[r].at = "idle"
        BY <1>2, IdleClaimsNothing DEF Asks
    <2>3. /\ r \notin Claimers /\ Claimers' = Claimers \union {r}
          /\ Makers' = Makers
        BY <2>1, <2>2 DEF Claimers, Makers, Claimed
    <2>4. Len(claims) + Cardinality(Claimers) < MaxCodes
        BY <1>2 DEF Asks, MayMakeACode, Claimers
    <2>c. /\ IsFiniteSet(Claimers \union {r}) /\ claims' = claims /\ Len(claims') = Len(claims)
          /\ Cardinality(Claimers \union {r}) = Cardinality(Claimers) + 1
        BY <1>2, <1>a, <2>3
    <2>5. /\ IsFiniteSet(Claimers \union {r})
          /\ Len(claims') + Cardinality(Claimers \union {r}) <= MaxCodes
        BY <1>0, <2>c, <2>4
    <2>6. IsFiniteSet(Makers) /\ made' + Cardinality(Makers) <= Len(claims')
        BY <1>2 DEF CodesLeft
    <2> QED
        BY <2>3, <2>5, <2>6, CountsKept
<1>3. ASSUME NEW r \in Requests, NEW k, req' = [req EXCEPT ![r] = k],
             k.at \notin {"claim", "clear", "put"}, UNCHANGED <<claims, made>>
      PROVE  CodesLeft'
    <2>1. req'[r] = k /\ \A q \in Requests \ {r} : req'[q] = req[q]
        BY <1>3 DEF Typed
    <2>2. Claimers' = Claimers \ {r} /\ Makers' = Makers \ {r}
        BY <1>3, <2>1 DEF Claimers, Makers, Claimed
    <2>3. /\ Len(claims) + Cardinality(Claimers) <= MaxCodes
          /\ made + Cardinality(Makers) <= Len(claims)
        BY DEF CodesLeft
    <2>c. /\ IsFiniteSet(Claimers \ {r}) /\ IsFiniteSet(Makers \ {r})
          /\ Cardinality(Claimers \ {r}) \in Nat /\ Cardinality(Makers \ {r}) \in Nat
          /\ Cardinality(Claimers \ {r}) <= Cardinality(Claimers)
          /\ Cardinality(Makers \ {r}) <= Cardinality(Makers)
        BY <1>r
    <2>d. Len(claims') = Len(claims) /\ made' = made
        BY <1>3
    <2>4. /\ IsFiniteSet(Claimers \ {r}) /\ IsFiniteSet(Makers \ {r})
          /\ Len(claims') + Cardinality(Claimers \ {r}) <= MaxCodes
          /\ made' + Cardinality(Makers \ {r}) <= Len(claims')
        BY <1>0, <2>c, <2>d, <2>3
    <2> QED
        BY <2>2, <2>4, CountsKept
<1>4. ASSUME NEW r \in Requests, ClaimRead(r) PROVE CodesLeft'
    <2>1. CASE ~Allowed
        BY <1>3, <1>4, <2>1, IdleClaimsNothing DEF ClaimRead, IsDone, store
    <2>2. CASE Allowed
        <3>1. PICK k : k = [req[r] EXCEPT !.at = IF budget = NoNote THEN "put" ELSE "clear",
                                          !.note = IF budget = NoNote THEN FreshNote ELSE NextNote]
            OBVIOUS
        <3>2. req' = [req EXCEPT ![r] = k]
            BY <1>4, <2>2, <3>1 DEF ClaimRead
        <3>3. Claimed(k) /\ req[r].at = "claim" /\ made' = made
            BY <1>4, <3>1 DEF Claimed, ClaimRead, Typed, AnyRequest, store
        <3>4. req'[r] = k /\ \A q \in Requests \ {r} : req'[q] = req[q]
            BY <3>2 DEF Typed
        <3>5. /\ r \in Claimers /\ Claimers' = Claimers \ {r}
              /\ r \notin Makers /\ Makers' = Makers \union {r}
            BY <3>3, <3>4 DEF Claimers, Makers, Claimed
        <3>6. claims' = Append(claims, [at |-> clock, fresh |-> budget = NoNote])
            BY <1>4, <2>2 DEF ClaimRead
        <3>7. [at |-> clock, fresh |-> budget = NoNote] \in [at : Nat, fresh : BOOLEAN]
            BY DEF Typed
        <3>8. Len(claims') = Len(claims) + 1
            BY <3>6, <3>7, OneClaimMore
        <3>9. /\ Len(claims) + Cardinality(Claimers) <= MaxCodes
              /\ made + Cardinality(Makers) <= Len(claims)
            BY DEF CodesLeft
        <3>c. /\ IsFiniteSet(Claimers \ {r}) /\ IsFiniteSet(Makers \union {r})
              /\ Cardinality(Claimers \ {r}) = Cardinality(Claimers) - 1
              /\ Cardinality(Makers \union {r}) = Cardinality(Makers) + 1
            BY <1>a, <1>r, <3>5
        <3>10. /\ IsFiniteSet(Claimers \ {r})
               /\ Len(claims') + Cardinality(Claimers \ {r}) <= MaxCodes
            BY <1>0, <3>c, <3>8, <3>9
        <3>11. /\ IsFiniteSet(Makers \union {r})
               /\ made' + Cardinality(Makers \union {r}) <= Len(claims')
            BY <1>0, <3>c, <3>3, <3>8, <3>9
        <3> QED
            BY <3>5, <3>10, <3>11, CountsKept
    <2> QED
        BY <2>1, <2>2
<1>5. ASSUME NEW r \in Requests, ClaimClear(r) PROVE CodesLeft'
    <2>1. GoesOnTo(r, "put") /\ "put" \in Stages /\ UNCHANGED <<claims, made>> /\ req[r].at = "clear"
        BY <1>5 DEF ClaimClear, history, Stages
    <2>2. PICK k \in AnyRequest : req' = [req EXCEPT ![r] = k] /\ k.at = "put"
        BY <2>1, GoingOn
    <2>3. req'[r] = k /\ \A q \in Requests \ {r} : req'[q] = req[q]
        BY <2>2 DEF Typed
    <2>4. Claimers' = Claimers /\ Makers' = Makers
        BY <2>1, <2>2, <2>3 DEF Claimers, Makers, Claimed
    <2> QED
        BY <2>1, <2>4 DEF CodesLeft
<1>6. ASSUME NEW r \in Requests, ClaimPut(r) PROVE CodesLeft'
    <2>1. made' = made + 1 /\ claims' = claims /\ req[r].at = "put"
        BY <1>6 DEF ClaimPut, history
    <2>2. PICK k : k = [req[r] EXCEPT !.at = AfterClaim(r), !.code = made + 1]
        OBVIOUS
    <2>3. req' = [req EXCEPT ![r] = k]
        BY <1>6, <2>2 DEF ClaimPut
    <2>4. k.at \in {"send", "forget"}
        BY <2>2 DEF AfterClaim, Typed, AnyRequest
    <2>5. req'[r] = k /\ \A q \in Requests \ {r} : req'[q] = req[q]
        BY <2>3 DEF Typed
    <2>6. Claimers' = Claimers /\ r \in Makers /\ Makers' = Makers \ {r}
        BY <2>1, <2>4, <2>5 DEF Claimers, Makers, Claimed
    <2>7. IsFiniteSet(Claimers) /\ Len(claims') + Cardinality(Claimers) <= MaxCodes
        BY <2>1 DEF CodesLeft
    <2>8. /\ IsFiniteSet(Makers \ {r}) /\ made + Cardinality(Makers) <= Len(claims)
          /\ Cardinality(Makers \ {r}) = Cardinality(Makers) - 1
        BY <1>r, <2>6 DEF CodesLeft
    <2>9. made' + Cardinality(Makers \ {r}) <= Len(claims')
        BY <1>0, <2>1, <2>8
    <2> QED
        BY <2>6, <2>7, <2>8, <2>9, CountsKept
<1>7. ASSUME Tick PROVE CodesLeft'
    BY <1>1, <1>7 DEF Tick, history
<1> QED
    BY <1>1, <1>2, <1>3, <1>4, <1>5, <1>6, <1>7, Shapes DEF GoesElsewhere

\* The rest of the types.
Kinds ==
    /\ hasNumber \in BOOLEAN /\ calm \in BOOLEAN
    /\ slot \in [code : Nat, until : Nat]
    /\ logins \subseteq 1 .. made
    /\ \A r \in Requests : req[r].code \in 0 .. made

LEMMA CodesOfRequests ==
    ASSUME Typed, [Next]_vars, \A r \in Requests : req[r].code \in 0 .. made
    PROVE  made' \in Nat /\ made' >= made /\ \A r \in Requests : req'[r].code \in 0 .. made'
<1>0. made \in Nat
    BY DEF Typed
<1>1. ASSUME UNCHANGED <<made, req>>
      PROVE  made' \in Nat /\ made' >= made /\ \A r \in Requests : req'[r].code \in 0 .. made'
    BY <1>0, <1>1
<1>2. ASSUME NEW r \in Requests, NEW k, req' = [req EXCEPT ![r] = k],
             k.code \in {0, req[r].code}, made' = made
      PROVE  made' \in Nat /\ made' >= made /\ \A q \in Requests : req'[q].code \in 0 .. made'
    <2>1. req'[r] = k /\ \A q \in Requests \ {r} : req'[q] = req[q]
        BY <1>2 DEF Typed
    <2> QED
        BY <1>0, <1>2, <2>1
<1>3. ASSUME NEW r \in Requests, ClaimRead(r)
      PROVE  /\ made' = made
             /\ \E k : req' = [req EXCEPT ![r] = k] /\ k.code \in {0, req[r].code}
    <2>1. made' = made
        BY <1>3 DEF ClaimRead
    <2>2. CASE ~Allowed
        BY <1>3, <2>1, <2>2, IdleClaimsNothing DEF ClaimRead, IsDone
    <2>3. CASE Allowed
        <3>1. PICK k : k = [req[r] EXCEPT !.at = IF budget = NoNote THEN "put" ELSE "clear",
                                          !.note = IF budget = NoNote THEN FreshNote ELSE NextNote]
            OBVIOUS
        <3>2. req' = [req EXCEPT ![r] = k]
            BY <1>3, <2>3, <3>1 DEF ClaimRead
        <3>3. k.code = req[r].code
            BY <3>1 DEF Typed, AnyRequest
        <3> QED
            BY <2>1, <3>2, <3>3
    <2> QED
        BY <2>2, <2>3
<1>4. ASSUME NEW r \in Requests, ClaimClear(r)
      PROVE  /\ made' = made
             /\ \E k : req' = [req EXCEPT ![r] = k] /\ k.code \in {0, req[r].code}
    <2>1. GoesOnTo(r, "put") /\ "put" \in Stages /\ made' = made
        BY <1>4 DEF ClaimClear, Stages
    <2> QED
        BY <2>1, GoingOn
<1>5. ASSUME NEW r \in Requests, ClaimPut(r)
      PROVE  made' \in Nat /\ made' >= made /\ \A q \in Requests : req'[q].code \in 0 .. made'
    <2>1. made' = made + 1
        BY <1>5 DEF ClaimPut
    <2>2. PICK k : k = [req[r] EXCEPT !.at = AfterClaim(r), !.code = made + 1]
        OBVIOUS
    <2>3. req' = [req EXCEPT ![r] = k]
        BY <1>5, <2>2 DEF ClaimPut
    <2>4. k.code = made + 1
        BY <2>2 DEF Typed, AnyRequest
    <2>5. req'[r] = k /\ \A q \in Requests \ {r} : req'[q] = req[q]
        BY <2>3 DEF Typed
    <2> QED
        BY <1>0, <2>1, <2>4, <2>5
<1>6. ASSUME Tick PROVE UNCHANGED <<made, req>>
    BY <1>6 DEF Tick
<1> QED
    BY <1>1, <1>2, <1>3, <1>4, <1>5, <1>6, Shapes DEF Asks, GoesElsewhere

\* What the store holds, and who got in.
LEMMA StoreAndLogins ==
    ASSUME LatestInv, Kinds, [Next]_vars
    PROVE  /\ hasNumber' \in BOOLEAN /\ calm' \in BOOLEAN
           /\ slot' \in [code : Nat, until : Nat]
           /\ logins' \subseteq 1 .. made
<1>0. /\ clock \in Nat /\ made \in Nat /\ Lifetime \in Nat
      /\ NoCode \in [code : Nat, until : Nat] /\ Delivered \subseteq 1 .. made
    BY ConstantsAssumption, DeliveredIsMade DEF LatestInv, GuessInv, Typed, NoCode
<1>1. CASE UNCHANGED vars \/ NumberChanges
    BY <1>1 DEF Kinds, vars, NumberChanges, store, history
<1>2. CASE Tick
    BY <1>0, <1>2 DEF Kinds, Tick, history
<1>3. ASSUME NEW r \in Requests, RequestSteps(r)
      PROVE  /\ hasNumber' \in BOOLEAN /\ calm' \in BOOLEAN
             /\ slot' \in [code : Nat, until : Nat]
             /\ logins' \subseteq 1 .. made
    <2>1. ASSUME NEW f \in Flows, Authenticate(r, f) \/ Resend(r)
          PROVE  /\ UNCHANGED <<hasNumber, slot, logins>> /\ calm' \in BOOLEAN
        BY <2>1 DEF Authenticate, Resend, Arrives, store, history, Kinds
    <2>2. ASSUME NEW f \in Flows, AnswerRight(r, f)
          PROVE  /\ hasNumber' \in BOOLEAN /\ calm' \in BOOLEAN /\ slot' = NoCode
                 /\ logins' \subseteq 1 .. made
        <3>1. /\ slot.code \in 1 .. made /\ logins' = logins \union {slot.code}
              /\ hasNumber' = hasNumber /\ slot' = NoCode
            BY <1>0, <2>2 DEF AnswerRight, Answers, Spend
        <3>2. calm' \in BOOLEAN
            BY <2>2 DEF AnswerRight, Answers, Arrives, Kinds
        <3> QED
            BY <3>1, <3>2 DEF Kinds
    <2>3. ASSUME NEW f \in Flows, NEW c, AnswerWrong(r, f, c)
          PROVE  /\ UNCHANGED <<hasNumber, logins>> /\ calm' \in BOOLEAN /\ slot' = NoCode
        BY <2>3 DEF AnswerWrong, Answers, Arrives, Spend, Kinds
    <2>4. CASE ClaimRead(r) \/ ClaimClear(r) \/ ClaimPut(r) \/ Send(r) \/ SendFails(r)
        BY <2>4 DEF ClaimRead, ClaimClear, ClaimPut, Send, SendFails, store, history, Kinds
    <2>5. CASE SendAnswerLost(r) \/ RequestDies(r)
        BY <2>5 DEF SendAnswerLost, RequestDies, store, history, Kinds
    <2>6. CASE Forget(r)
        BY <1>0, <2>6 DEF Forget, history, Kinds
    <2>7. CASE Remember(r)
        <3>1. /\ slot' = [code |-> req[r].code, until |-> clock + Lifetime]
              /\ UNCHANGED <<hasNumber, calm, logins>>
            BY <2>7 DEF Remember, history
        <3>2. req[r].code \in Nat
            BY DEF LatestInv, GuessInv, Typed, AnyRequest
        <3> QED
            BY <1>0, <3>1, <3>2 DEF Kinds
    <2>8. CASE Resend(r)
        BY <2>8 DEF Resend, Arrives, store, history, Kinds
    <2> QED
        BY <1>0, <1>3, <2>1, <2>2, <2>3, <2>4, <2>5, <2>6, <2>7, <2>8 DEF RequestSteps, Kinds
<1> QED
    BY <1>1, <1>2, <1>3 DEF Next

LEMMA KindsKept ==
    ASSUME LatestInv, Kinds, [Next]_vars
    PROVE  Kinds'
<1>1. made' \in Nat /\ made' >= made /\ \A r \in Requests : req'[r].code \in 0 .. made'
    BY CodesOfRequests DEF LatestInv, GuessInv, Kinds
<1>2. made \in Nat
    BY DEF LatestInv, GuessInv, Typed
<1>3. 1 .. made \subseteq 1 .. made'
    BY <1>1, <1>2
<1> QED
    BY <1>1, <1>3, StoreAndLogins DEF Kinds

\* Every variable has its type: codes and messages stay within what was made,
\* and what is made within the messages that were ever claimed.
THEOREM TypeCorrect == Spec => []TypeOK
<1>1. Init => CodesLeft /\ Kinds
    <2> SUFFICES ASSUME Init PROVE CodesLeft /\ Kinds
        OBVIOUS
    <2>1. /\ claims = <<>> /\ made = 0 /\ req = [r \in Requests |-> Idle]
          /\ slot = NoCode /\ logins = {} /\ hasNumber = TRUE /\ calm = TRUE
        BY DEF Init
    <2>2. Claimers = {} /\ Makers = {}
        BY <2>1, IdleClaimsNothing DEF Claimers, Makers, Claimed
    <2>3. CodesLeft
        BY <2>1, <2>2, FS_EmptySet, ConstantsAssumption DEF CodesLeft
    <2>4. Kinds
        BY <2>1, IdleClaimsNothing DEF Kinds, NoCode
    <2> QED
        BY <2>3, <2>4
<1>2. (LatestInv /\ ClaimsTyped /\ BudgetInv) /\ (CodesLeft /\ Kinds) /\ [Next]_vars
         => (CodesLeft /\ Kinds)'
    BY CodesKept, KindsKept DEF LatestInv, GuessInv
<1>3. LatestInv /\ ClaimsTyped /\ CodesLeft /\ Kinds => TypeOK
    <2> SUFFICES ASSUME LatestInv, ClaimsTyped, CodesLeft, Kinds PROVE TypeOK
        OBVIOUS
    <2>1. Typed /\ MessagesOK /\ InStore
        BY DEF LatestInv, GuessInv
    <2>2. made \in Nat /\ MaxCodes \in Nat /\ made <= MaxCodes
        <3>1. Cardinality(Claimers) \in Nat /\ Cardinality(Makers) \in Nat
            BY FS_CardinalityType DEF CodesLeft
        <3>2. Len(claims) \in Nat /\ made \in Nat
            BY <2>1, ClaimAt DEF Typed
        <3> QED
            BY <3>1, <3>2, ConstantsAssumption DEF CodesLeft
    <2>3. 1 .. made \subseteq Codes /\ 0 .. made = (1 .. made) \union {0}
        BY <2>2 DEF Codes
    <2>4. slot \in [code : Codes \union {0}, until : Nat]
        <3>1. slot.code \in 0 .. made
            BY <2>1, <2>2 DEF Kinds, InStore
        <3> QED
            BY <2>3, <3>1 DEF Kinds
    <2>5. req \in [Requests -> Request]
        <3>1. ASSUME NEW r \in Requests
              PROVE  req[r] \in Request
            <4>1. req[r] \in AnyRequest /\ req[r].code \in Codes \union {0}
                BY <2>1, <2>3 DEF Typed, Kinds
            <4> QED
                BY <4>1 DEF AnyRequest, Request
        <3> QED
            BY <2>1, <3>1 DEF Typed
    <2>6. messages \in Seq(Codes)
        <3>1. /\ messages \in Seq(Nat) /\ Len(messages) \in Nat
              /\ DOMAIN messages = 1 .. Len(messages)
            BY <2>1 DEF MessagesOK
        <3>2. \A i \in 1 .. Len(messages) : messages[i] \in Codes
            BY <2>1, <2>3, <3>1 DEF MessagesOK
        <3>3. messages = [i \in 1 .. Len(messages) |-> messages[i]]
            BY <3>1
        <3>4. messages \in [1 .. Len(messages) -> Codes]
            BY <3>2, <3>3
        <3> QED
            BY <3>1, <3>4, SeqDef
    <2>7. logins \subseteq Codes /\ made \in 0 .. MaxCodes
        BY <2>2, <2>3 DEF Kinds
    <2>8. unheard \subseteq Codes
        BY <2>1, <2>3, DeliveredIsMade DEF MessagesOK
    <2> QED
        BY <2>1, <2>4, <2>5, <2>6, <2>7, <2>8 DEF TypeOK, Typed, Kinds, ClaimsTyped
<1> QED
    BY <1>1, <1>2, <1>3, AlwaysBudget, PTL DEF Spec
=============================================================================

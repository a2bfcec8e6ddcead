----------------------------- MODULE GuiSession -----------------------------
(***************************************************************************)
(* Who is signed in, in the browser: the SessionProvider of main-gui in    *)
(* each tab, the two places its refresh token is kept, and the identity    *)
(* provider's sessions behind the tokens.                                  *)
(*                                                                         *)
(* A tab is one thread, so what runs between two awaits is one step.  What *)
(* it awaits is a request: sent, answered by the provider at some moment,  *)
(* and taken up in the tab at a later one; logins, logouts and reloads     *)
(* come in between.  Every login makes a session of its own, and a token   *)
(* is told by the session it belongs to.                                   *)
(***************************************************************************)
EXTENDS Naturals

CONSTANTS
    Tabs,           \* tabs of one browser
    NoSession,
    MaxSessions,    \* bound: logins
    MaxLoads        \* bound: page loads of a tab

Sessions == 1 .. MaxSessions

ASSUME ConstantsAssumption ==
    MaxSessions \in Nat /\ MaxLoads \in Nat /\ NoSession \notin Nat

VARIABLES
    made,       \* logins the provider has let in
    live,       \* sessions the provider still has
    local,      \* local storage, one for all tabs
    kept,       \* session storage, one per tab
    tab,        \* each tab's SessionProvider
    left        \* history: tabs whose last word was Logout

sessionVars == <<made, live, local, kept, tab, left>>

-----------------------------------------------------------------------------
SessionOrNone == Sessions \union {NoSession}

\* A request for tokens: the session it is for (none yet for a login), where
\* its answer is, and where the tokens are to be kept.
TokenRequest == [of : SessionOrNone, at : {"none", "sent", "granted", "refused"},
                 remember : BOOLEAN]
NoRequest == [of |-> NoSession, at |-> "none", remember |-> FALSE]
SentFor(s, remember) == [of |-> s, at |-> "sent", remember |-> remember]

Kinds == {"restore", "refresh", "login"}

Tab == [status : {"closed", "loading", "signed-out", "signed-in"},
        tokens : SessionOrNone, fresh : BOOLEAN, remembered : BOOLEAN,
        pending : [Kinds -> TokenRequest], leaving : SUBSET Sessions,
        loads : 0 .. MaxLoads]

\* The sessions a tab has tokens of, asks for tokens of, or is about to end.
Mentions(b) == {b.tokens} \union b.leaving \union {b.pending[k].of : k \in Kinds}

\* Nothing in the browser is of a session that nobody made.
SessionTypeOK ==
    /\ made \in 0 .. MaxSessions
    /\ live \subseteq 1 .. made
    /\ local \in SessionOrNone
    /\ kept \in [Tabs -> SessionOrNone]
    /\ tab \in [Tabs -> Tab]
    /\ left \subseteq Tabs
    /\ \A t \in Tabs :
          {local, kept[t]} \union Mentions(tab[t]) \subseteq 1 .. made \union {NoSession}

NothingPending == [k \in Kinds |-> NoRequest]

Closed == [status |-> "closed", tokens |-> NoSession, fresh |-> FALSE,
           remembered |-> FALSE, pending |-> NothingPending,
           leaving |-> {}, loads |-> 0]

SessionInit ==
    /\ made = 0 /\ live = {}
    /\ local = NoSession
    /\ kept = [t \in Tabs |-> NoSession]
    /\ tab = [t \in Tabs |-> Closed]
    /\ left = {}

-----------------------------------------------------------------------------
(* What the callbacks of the provider share.                               *)

\* Mutant: only the store that is written to is cleared first.
StoresBeside(t, s, remember) ==
    /\ local' = IF s = NoSession \/ remember THEN s ELSE local
    /\ kept' = IF s = NoSession \/ ~remember THEN [kept EXCEPT ![t] = s] ELSE kept

Stores(t, s, remember) ==
    /\ local' = IF remember THEN s ELSE NoSession
    /\ kept' = [kept EXCEPT ![t] = IF remember THEN NoSession ELSE s]

Applied(b, s, remember) ==
    [b EXCEPT !.status = "signed-in", !.tokens = s, !.fresh = TRUE,
              !.remembered = remember]

Cleared(b) == [b EXCEPT !.status = "signed-out", !.tokens = NoSession, !.fresh = FALSE]

Settled(b, k) == [b EXCEPT !.pending[k] = NoRequest]

apply(t, b, s, remember) ==
    /\ tab' = [tab EXCEPT ![t] = Applied(b, s, remember)]
    /\ Stores(t, s, remember)

clear(t, b) ==
    /\ tab' = [tab EXCEPT ![t] = Cleared(b)]
    /\ Stores(t, NoSession, FALSE)

\* What the tab finds on disk: local storage is looked at first.
stored(t) == IF local # NoSession THEN local ELSE kept[t]

\* A page load: whatever the page was waiting for is gone, and a refresh
\* token on disk is put to the provider at once.
Loaded(t, exchange) ==
    [Closed EXCEPT
        !.loads = tab[t].loads + 1,
        !.status = IF stored(t) = NoSession THEN "signed-out" ELSE "loading",
        !.pending = [NothingPending EXCEPT
            !.restore = IF stored(t) = NoSession THEN NoRequest
                        ELSE SentFor(stored(t), local # NoSession),
            !.login = exchange]]

-----------------------------------------------------------------------------
(* The page.                                                               *)

MayLoad(t) == tab[t].loads < MaxLoads
IsOpen(t) == tab[t].status # "closed"

Load(t) ==
    /\ MayLoad(t)
    /\ tab' = [tab EXCEPT ![t] = Loaded(t, NoRequest)]
    /\ left' = left \ {t}
    /\ UNCHANGED <<made, live, local, kept>>

\* Back from the provider at /auth/callback, with a code to exchange.  Trips
\* start from the login card, and from the security page of a signed-in tab.
ReturnFromRedirect(t) ==
    /\ MayLoad(t)
    /\ tab[t].status \in {"signed-out", "signed-in"}
    /\ tab' = [tab EXCEPT ![t] = Loaded(t, SentFor(NoSession, TRUE))]
    /\ left' = left \ {t}
    /\ UNCHANGED <<made, live, local, kept>>

\* A tab that is closed takes its session storage with it.
Close(t) ==
    /\ IsOpen(t)
    /\ tab' = [tab EXCEPT ![t] = [Closed EXCEPT !.loads = tab[t].loads]]
    /\ kept' = [kept EXCEPT ![t] = NoSession]
    /\ left' = left \ {t}
    /\ UNCHANGED <<made, live, local>>

-----------------------------------------------------------------------------
(* Requests.                                                               *)

\* A call is made with a token that is about to expire.  Later callers join
\* the request that is already under way.
getAccessToken(t) ==
    /\ tab[t].tokens # NoSession /\ ~tab[t].fresh
    /\ tab[t].pending["refresh"] = NoRequest
    /\ tab' = [tab EXCEPT ![t].pending["refresh"] = SentFor(tab[t].tokens, FALSE)]
    /\ UNCHANGED <<made, live, local, kept, left>>

\* The login card, which the header offers to a signed-out tab.
login(t, remember) ==
    /\ tab[t].status = "signed-out"
    /\ tab[t].pending["login"] = NoRequest
    /\ tab' = [tab EXCEPT ![t].pending["login"] = SentFor(NoSession, remember)]
    /\ UNCHANGED <<made, live, local, kept, left>>

\* The provider takes a refresh token of a session it still has, or a login.
Grant(t, k) ==
    /\ tab[t].pending[k].at = "sent"
    /\ IF k = "login"
       THEN /\ made < MaxSessions
            /\ made' = made + 1
            /\ live' = live \union {made + 1}
            /\ tab' = [tab EXCEPT ![t].pending[k].at = "granted",
                                  ![t].pending[k].of = made + 1]
       ELSE /\ tab[t].pending[k].of \in live
            /\ tab' = [tab EXCEPT ![t].pending[k].at = "granted"]
            /\ UNCHANGED <<made, live>>
    /\ UNCHANGED <<local, kept, left>>

\* The provider refuses, or cannot be reached.
Refuse(t, k) ==
    /\ tab[t].pending[k].at = "sent"
    /\ tab' = [tab EXCEPT ![t].pending[k].at = "refused"]
    /\ UNCHANGED <<made, live, local, kept, left>>

\* Mutant: a token that could not be restored is left alone.
RestoreAnsweredQuietly(t) ==
    LET answer == tab[t].pending["restore"]
        settled == Settled(tab[t], "restore")
    IN  /\ \/ answer.at = "granted" /\ apply(t, settled, answer.of, answer.remember)
           \/ /\ answer.at = "refused"
              /\ tab' = [tab EXCEPT ![t] = settled]
              /\ UNCHANGED <<local, kept>>
        /\ UNCHANGED <<made, live, left>>

RestoreAnswered(t) ==
    LET answer == tab[t].pending["restore"]
        settled == Settled(tab[t], "restore")
    IN  /\ \/ answer.at = "granted" /\ apply(t, settled, answer.of, answer.remember)
           \/ answer.at = "refused" /\ clear(t, settled)
        /\ UNCHANGED <<made, live, left>>

\* The place to keep the new token is read when the answer is taken up.
RefreshAnswered(t) ==
    LET answer == tab[t].pending["refresh"]
        settled == Settled(tab[t], "refresh")
    IN  /\ \/ answer.at = "granted" /\ apply(t, settled, answer.of, tab[t].remembered)
           \/ answer.at = "refused" /\ clear(t, settled)
        /\ UNCHANGED <<made, live, left>>

\* login() and the callback's adoptTokens; a refusal is a message on a card.
LoginAnswered(t) ==
    LET answer == tab[t].pending["login"]
        settled == Settled(tab[t], "login")
    IN  /\ \/ /\ answer.at = "granted"
              /\ apply(t, settled, answer.of, answer.remember)
              /\ left' = left \ {t}
           \/ /\ answer.at = "refused"
              /\ tab' = [tab EXCEPT ![t] = settled]
              /\ UNCHANGED <<local, kept, left>>
        /\ UNCHANGED <<made, live>>

\* Mutant: the provider is told even when the tab holds nothing.
logoutOfNothing(t) ==
    /\ tab[t].status \in {"loading", "signed-in"}
    /\ clear(t, [tab[t] EXCEPT !.leaving = @ \union {tab[t].tokens}])
    /\ left' = left \union {t}
    /\ UNCHANGED <<made, live>>

\* The menu of the application offers Logout while a session is still being
\* restored, too.  The tab is cleared first; the provider is told with the
\* tokens it held, if it held any.
logout(t) ==
    /\ tab[t].status \in {"loading", "signed-in"}
    /\ clear(t, [tab[t] EXCEPT
                   !.leaving = @ \union ({tab[t].tokens} \ {NoSession})])
    /\ left' = left \union {t}
    /\ UNCHANGED <<made, live>>

\* A provider that cannot be reached keeps the session; nobody is told.
endSessionOf(t, s) ==
    /\ s \in tab[t].leaving
    /\ tab' = [tab EXCEPT ![t].leaving = @ \ {s}]
    /\ live' \in {live, live \ {s}}
    /\ UNCHANGED <<made, local, kept, left>>

-----------------------------------------------------------------------------
(* Time.                                                                   *)

\* The access token comes within REFRESH_MARGIN_MS of its end.
AccessTokenAges(t) ==
    /\ tab[t].fresh
    /\ tab' = [tab EXCEPT ![t].fresh = FALSE]
    /\ UNCHANGED <<made, live, local, kept, left>>

\* The provider ends a session that was idle or open for too long.
SessionExpires(s) ==
    /\ s \in live
    /\ live' = live \ {s}
    /\ UNCHANGED <<made, local, kept, tab, left>>

TabSteps(t) ==
    \/ Load(t) \/ ReturnFromRedirect(t) \/ Close(t)
    \/ getAccessToken(t)
    \/ \E remember \in BOOLEAN : login(t, remember)
    \/ \E k \in Kinds : Grant(t, k) \/ Refuse(t, k)
    \/ RestoreAnswered(t) \/ RefreshAnswered(t) \/ LoginAnswered(t)
    \/ logout(t)
    \/ \E s \in tab[t].leaving : endSessionOf(t, s)
    \/ AccessTokenAges(t)

SessionNext == (\E t \in Tabs : TabSteps(t)) \/ (\E s \in live : SessionExpires(s))

\* A fetch is answered or fails, and the tab then takes the answer up.
Fairness ==
    \A t \in Tabs :
        /\ WF_sessionVars(Grant(t, "restore") \/ Refuse(t, "restore"))
        /\ WF_sessionVars(RestoreAnswered(t))

SessionSpec == SessionInit /\ [][SessionNext]_sessionVars /\ Fairness

-----------------------------------------------------------------------------
(* Properties.                                                             *)

\* What a tab of its own browser says and what it keeps agree: a signed-in
\* tab has its refresh token in the store its login chose and in no other,
\* and once a tab is signed out with nothing under way no token is left.
StorageMatches ==
    \A t \in Tabs :
        LET b == tab[t]
        IN  /\ b.status = "signed-in" =>
                  /\ b.tokens # NoSession
                  /\ <<local, kept[t]>> = IF b.remembered THEN <<b.tokens, NoSession>>
                                          ELSE <<NoSession, b.tokens>>
            /\ b.status = "signed-out" =>
                  b.tokens = NoSession /\ stored(t) = NoSession

\* A page is not stuck on "loading": the token it found is restored or it is
\* signed out.
LoadingEnds ==
    \A t \in Tabs : tab[t].status = "loading" ~> tab[t].status # "loading"

\* Once somebody has pressed Logout, the tab is logged out until they log in.
LoggedOutStaysOut == \A t \in left : tab[t].status # "signed-in"

=============================================================================

----------------------------- MODULE Redirects -----------------------------
(***************************************************************************)
(* Trips to the identity provider: connecting a login, setting up an       *)
(* authenticator app, registering a passkey, or only logging in.  What     *)
(* survives a trip is in the tab's session storage: one PKCE verifier with *)
(* its state, which the next trip overwrites, and a marker for each kind   *)
(* of trip, which the callback takes.                                      *)
(***************************************************************************)
EXTENDS Screen

\* Only the marker that was found is kept apart from the one that was wanted.
Marked(kind, row) ==
    IF kind = "login" THEN trip.markers ELSE [trip.markers EXCEPT ![kind] = row]

\* The page is gone: nobody hears the answers it asked for.
Deserted ==
    /\ flight' = {[f EXCEPT !.waits = FALSE] : f \in {g \in flight : g.at = "sent"}}
    /\ disturbed' = disturbed \union (IF flight' = {} THEN {} ELSE {"lost"})

Goes(next) == trip' = next /\ UNCHANGED <<card, server, ui, flight, sent, disturbed>>

\* The provider's endpoints are known, and the browser leaves.
startRedirect(kind, row) ==
    /\ trip.made < MaxTrips
    /\ trip' = [trip EXCEPT !.place = "provider", !.want = kind, !.about = row,
                            !.markers = Marked(kind, row), !.kept = TRUE, !.made = @ + 1]
    /\ Deserted
    /\ UNCHANGED <<card, server, ui, sent>>

\* They cannot be had: the page reports it, and the marker is already written.
CannotStart(kind, row, next) ==
    /\ trip.made < MaxTrips
    /\ trip' = [trip EXCEPT !.markers = Marked(kind, row), !.made = @ + 1,
                            !.clean = trip.clean /\ kind = "login"]
    /\ ui' = next
    /\ UNCHANGED <<card, server, flight, sent, disturbed>>

beginAccountLink(alias) == startRedirect("link", alias)
beginSecondFactorSetup(kind) == startRedirect("factor", kind)
beginPasskeyRegistration == startRedirect("passkey", Sms)

-----------------------------------------------------------------------------
(* The way back.                                                           *)

\* The provider sends the browser back, with a code or without one.
ComesBack(coded) ==
    /\ trip.place = "provider"
    /\ Goes([trip EXCEPT !.place = IF coded THEN "callback" ELSE "home",
                         !.clean = @ /\ (coded \/ trip.want = "login")])

\* The callback without a code goes home and takes nothing from storage.
\* Reloading it finds the verifier spent.
takeRedirectVerifier(matches) == trip.kept /\ matches

\* Mutants of take: the key is dropped, or left.
takeOut(kind) == [k \in Kinds \ {kind} |-> trip.markers[k]]
takeNothing(kind) == trip.markers
take(kind) == [trip.markers EXCEPT ![kind] = None]
takeBoth(one, other) == [take(one) EXCEPT ![other] = None]
takeAll == [k \in Kinds |-> None]

\* There is an endpoint to link at when one is configured and the token names
\* a session.
accountLinkUrl(configured, session) == configured /\ session

Linking(linkable) == trip.markers["link"] # None /\ linkable

resumeAccountLink ==
    trip' = [trip EXCEPT !.place = "linking", !.about = trip.markers["link"],
                         !.markers = take("link"), !.kept = FALSE]

SecurityPage(kind, row, markers) ==
    trip' = [trip EXCEPT !.place = "security", !.about = row, !.claimed = kind,
                         !.markers = markers, !.kept = FALSE]

Configured ==
    /\ trip.markers["factor"] # None
    /\ SecurityPage("factor", trip.markers["factor"], takeBoth("link", "factor"))

\* How the ceremony ended is believed when it says that it did not.
passkeyReturnPath(cancelled) == IF cancelled THEN None ELSE trip.markers["passkey"]

Registered(cancelled) ==
    /\ trip.markers["factor"] = None /\ trip.markers["passkey"] # None
    /\ SecurityPage("passkey", passkeyReturnPath(cancelled), takeAll)

Dashboard ==
    /\ trip.markers["factor"] = None /\ trip.markers["passkey"] = None
    /\ trip' = [trip EXCEPT !.place = "dashboard", !.markers = takeAll, !.kept = FALSE]

\* The code is traded for tokens; only then are the markers looked at.
AuthCallback(matches, granted, linkable) ==
    /\ trip.place = "callback"
    /\ \/ takeRedirectVerifier(matches) /\ granted
          /\ \/ Linking(linkable) /\ resumeAccountLink
             \/ ~Linking(linkable) /\ Configured
             \/ ~Linking(linkable) /\ \E cancelled \in BOOLEAN : Registered(cancelled)
             \/ ~Linking(linkable) /\ Dashboard
       \/ ~(takeRedirectVerifier(matches) /\ granted)
          /\ trip' = [trip EXCEPT !.place = "failed", !.kept = FALSE,
                                  !.clean = @ /\ trip.want = "login"]
    /\ UNCHANGED <<card, server, ui, flight, sent, disturbed>>

\* The linking trip ends on the security page, finished or not.
linkReturnUri ==
    /\ trip.place = "linking"
    /\ Goes([trip EXCEPT !.place = "security", !.claimed = "link"])

-----------------------------------------------------------------------------
(* A page is drawn: after a trip, or because somebody went to it.          *)

CardOf == [link |-> "sso", factor |-> "factors", passkey |-> "passkeys", login |-> "entrance"]

Confirms(claim) == IF claim = None THEN {} ELSE {Asks(sent + 2, "confirm", claim, 0)}

Draws(c, claim) ==
    /\ sent + 2 <= MaxSent[card] /\ sent' = sent + 2
    /\ card' = c /\ ui' = Drawn(claim)
    /\ flight' = flight \union {Asks(sent + 1, "read", None, 0)} \union Confirms(claim)
    /\ trip' = [trip EXCEPT !.place = "page"]
    /\ UNCHANGED <<server, disturbed>>

\* The claim is taken off the URL before anything is asked.
DrawsClaimed == trip.place = "security" /\ Draws(CardOf[trip.claimed], trip.about)

\* Storage outlives the session.  Before the first trip it holds nothing, and
\* nothing is to be told from a fresh tab.
logout == trip.place = "page" /\ card # "entrance" /\ Free /\ trip.made > 0

GoesBackToLogin ==
    /\ trip.place \in {"home", "dashboard", "failed"} \/ logout
    /\ \A f \in flight : ~f.waits
    /\ card' = "entrance" /\ ui' = [Drawn(None) EXCEPT !.loading = FALSE]
    /\ trip' = [trip EXCEPT !.place = "page"]
    /\ UNCHANGED <<server, flight, sent, disturbed>>

\* Somebody presses Back at the provider: a new page over what storage holds.
TurnsBack ==
    /\ trip.place \in {"provider", "linking"} /\ trip.want # "login"
    /\ sent + 2 <= MaxSent[card] /\ sent' = sent + 2
    /\ ui' = Drawn(None)
    /\ flight' = flight \union {Asks(sent + 1, "read", None, 0)}
    /\ trip' = [trip EXCEPT !.place = "page", !.clean = FALSE]
    /\ UNCHANGED <<card, server, disturbed>>

RedirectsNext ==
    \/ \E b \in BOOLEAN : ComesBack(b)
    \/ \E m, g, c, s \in BOOLEAN : AuthCallback(m, g, accountLinkUrl(c, s))
    \/ linkReturnUri \/ DrawsClaimed \/ GoesBackToLogin \/ TurnsBack
=============================================================================

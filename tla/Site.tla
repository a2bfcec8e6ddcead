-------------------------------- MODULE Site --------------------------------
(***************************************************************************)
(* The pages of main-gui, one card at a time: the addresses, the connected *)
(* logins, the passkeys, the second factors with the recovery codes, the   *)
(* recent activity and the password of the security page; the wallet; the  *)
(* profile; the notifications; and the dialogs of the entrance.  The trips *)
(* to the identity provider lead from one page to the next.                *)
(***************************************************************************)
EXTENDS EmailCard, SsoCard, PasskeyCard, FactorCard, WalletCard, ActivityCard,
        PasswordCard, ProfileForm, Notifications, Entrance

-----------------------------------------------------------------------------
(* What an account may hold when the page is opened.                       *)

Lists == [emails |-> {"waiting", "verified", "primary", "unproved"},
          sso |-> {"off", "on", "closed"}, passkeys |-> {"absent", "on"},
          factors |-> {"off", "on", "closed"},
          wallet |-> {"absent"}, activity |-> {"absent", "new", "yes"}, password |-> {"absent"},
          profile |-> {"absent"}, notifications |-> {"absent", "unread"},
          entrance |-> {"absent"}]

\* A trip leads to a card of the site.
ASSUME CardsAssumption ==
    /\ Cards \subseteq DOMAIN Lists
    /\ {"sso", "passkeys", "factors", "entrance"} \subseteq Cards

\* An account has one login address; an authenticator app is for everybody; the
\* profile was filled in once.
Proper(c, rows) ==
    /\ c = "emails" => Cardinality({r \in Rows : Chosen(rows[r])}) = 1
    /\ c = "factors" => \A r \in Rows \ {Sms} : rows[r] # "closed"
AsideOf(c) == CASE c = "emails" -> {0} [] c = "sso" -> {0, 1} [] c = "profile" -> {1}
                [] OTHER -> {0}

Opening(c) ==
    CASE c = "entrance" -> {}
      [] c = "notifications" -> {Asks(1, "read", None, 0), Asks(2, "count", None, 0)}
      [] OTHER -> {Asks(1, "read", None, 0)}

Init ==
    \E c \in Cards : \E rows \in [Rows -> Lists[c]], aside \in AsideOf(c) :
        /\ Proper(c, rows)
        /\ card = c
        /\ server = [rows |-> rows, aside |-> aside, stamp |-> 0]
        /\ ui = [Drawn(None) EXCEPT !.loading = c # "entrance"]
        /\ trip = [place |-> "page", want |-> "login", claimed |-> "login", about |-> None,
                   markers |-> takeAll, kept |-> FALSE, made |-> 0, clean |-> TRUE]
        /\ flight = Opening(c)
        /\ sent = Cardinality(Opening(c))
        /\ disturbed = {}

Next ==
    \/ EmailNext \/ SsoNext \/ PasskeyNext \/ FactorNext \/ WalletCardNext
    \/ ActivityNext \/ PasswordNext \/ ProfileNext \/ NotificationsNext
    \/ EntranceNext \/ RedirectsNext

Spec == Init /\ [][Next]_screen

-----------------------------------------------------------------------------
(* Properties.                                                             *)

\* The page holds what the API would answer now.
Current ==
    trip.place = "page" /\ ~ui.loading /\ ui.held.rows = server.rows
        /\ (card \in {"sso", "emails"} => ui.held.aside = server.aside)

Offers ==
    CASE card = "emails" -> EmailList
      [] card = "sso" -> SsoList
      [] card = "passkeys" -> PasskeyList
      [] card = "factors" -> TwoFactorList
      [] card = "wallet" -> MethodList
      [] card = "activity" -> {"yes", "no"} \X ActivityList
      [] card = "notifications" -> UNION {{<<op, r>> : op \in NotificationRow(r)} : r \in Rows}
      [] OTHER -> {}

Allowed(op, r) ==
    IF op = "enable" /\ r = Sms THEN FactorAllowed("startSms", r, FALSE)
    ELSE IF op \in {"connect", "enable"} THEN server.rows[r] = "off"
    ELSE CASE card = "emails" -> EmailAllowed(op, r)
           [] card = "sso" -> SsoAllowed(op, r)
           [] card = "passkeys" -> PasskeyAllowed(op, r)
           [] card = "factors" -> FactorAllowed(op, r, TRUE)
           [] card = "wallet" -> WalletAllowed(op, r)
           [] card = "notifications" -> server.rows[r] # "absent"
           [] OTHER -> ReviewAllowed(r)

\* The rules for a row are written twice, in the page and in the API.  When
\* the page is up to date, whatever a row offers is something the API does not
\* refuse.
OfferedIsAllowed == Current => \A o \in Offers : Allowed(o[1], o[2])

\* What was pressed ends, whichever answer arrives: while a row or a button of
\* a page is held back, an answer is on its way that sets it free.
Clearing ==
    [adding |-> {"add"}, saving |-> {"private", "public", "save", "markAll"},
     making |-> {"generate"}, changing |-> {"change"}, pending |-> {"markRead"},
     login |-> {"login", "recover"}, signUp |-> {"signUp", "loginAfter"}, forgot |-> {"forgot"}]
RowOps == {"remove", "primary", "resend", "disconnect", "disable", "startSms", "confirmSms",
           "default", "yes", "no"}
Awaited(ops) == \E f \in flight : f.waits /\ f.op \in ops
NothingStuck ==
    trip.place = "page" =>
        /\ ui.busy # None => Awaited(RowOps)
        /\ \A m \in ui.marks \intersect DOMAIN Clearing : Awaited(Clearing[m])
        /\ ui.loading => Awaited({"read"})

\* Answers arrive in any order, and one that was computed earlier never
\* replaces a later one: on these cards nothing can be asked for that would
\* race with what is being waited for.  (A page that confirms what its URL
\* claims asks twice, and the two answers do race.)
Ordered == {"sso", "passkeys", "factors", "activity", "profile", "notifications"}
NeverGoesBack ==
    [][(card \in Ordered /\ card' = card /\ trip' = trip /\ ui.claim = None)
           => ui'.held.stamp >= ui.held.stamp]_screen

\* Recovery codes that are shown are the ones that work, unless a call was lost
\* or a newer set was made in another tab: this one never makes two at once.
CodesShownWork ==
    (ui.codes # 0 /\ "lost" \notin disturbed) =>
        \/ ui.codes = server.aside
        \/ "elsewhere" \in disturbed /\ ui.codes < server.aside

\* As long as no two transactions overlap, the wallet's functions do what the
\* wallet promises: a step of theirs is a step of Wallet, or none.
WalletAsPromised ==
    [][(card = "wallet" /\ "overlap" \notin disturbed') => Wal!WalletNext]_(server.rows)

\* The browser lands where the last trip was meant to lead, whatever earlier
\* trips left in storage, as long as none of them was given up.  A login that
\* cannot be linked ends on the dashboard.
LandsWhereAsked ==
    trip.clean =>
        /\ trip.place = "security" => trip.claimed = trip.want
        /\ trip.place = "dashboard" => trip.want \in {"login", "link"}

\* The profile form waits for the first answer and is filled from it, so it
\* never saves its blanks over a profile, as long as no answer has been lost.
ProfileKept ==
    card = "profile" /\ "lost" \notin disturbed =>
        \A f \in flight : f.op = "save" /\ f.at = "sent" => f.content # EMPTY
=============================================================================

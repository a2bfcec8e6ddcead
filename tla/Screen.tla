------------------------------- MODULE Screen -------------------------------
(***************************************************************************)
(* What the pages of main-gui have in common.  A card keeps a copy of one  *)
(* of the account's lists: a hook reads it once when the page is drawn and *)
(* every write answers with the list as it stands, which replaces the      *)
(* copy.  A call is a GraphQL request; answers arrive in any order, one    *)
(* may be lost, and a request whose caller has given up may still be       *)
(* carried out.  The row being saved is remembered in one variable, other  *)
(* writes in flags, and what a card offers depends on both and on the      *)
(* dialog that is open.                                                    *)
(*                                                                         *)
(* What is on a list is a status for each row; what a card shows beside    *)
(* the list (the privacy switch, the set of recovery codes, a password) is *)
(* a number.  Every change at the API has the next stamp.                  *)
(***************************************************************************)
EXTENDS FiniteSets, Naturals

CONSTANTS
    Rows,       \* addresses, providers, passkeys, factors, events, methods
    Sms,        \* the row of the two-factor card that is a texted code
    None,       \* no row
    Cards,      \* the cards of the site
    RefusalsBeforeCode, \* refused logins before the entrance asks for a code
    MaxSent,    \* bound: requests, for each card
    MaxStamp,   \* bound: changes at the API
    MaxTrips    \* bound: redirects to the identity provider

ASSUME ScreenAssumption ==
    /\ Sms \in Rows /\ None \notin Rows /\ RefusalsBeforeCode \in Nat
    /\ MaxStamp \in Nat \ {0} /\ MaxTrips \in Nat
    /\ \A c \in Cards : MaxSent[c] \in Nat

VARIABLES
    card,       \* the card that is used
    server,     \* what the API would answer now
    ui,         \* the card's copy and its marks
    trip,       \* where the browser is, and what its tab's storage holds
    flight,     \* requests that are not over
    sent,       \* bound: how many requests were made
    disturbed   \* history: the account was changed from elsewhere, a call was lost,
                \* two transactions overlapped

screen == <<card, server, ui, trip, flight, sent, disturbed>>

-----------------------------------------------------------------------------
RowOrNone == Rows \union {None}
Statuses == {"absent", "waiting", "verified", "primary", "unproved", "off", "on",
             "closed", "new", "yes", "no", "held", "default", "unread", "read"}

\* absent is a row that is not on the list.
Held == [rows : [Rows -> Statuses], aside : 0 .. MaxStamp, stamp : 0 .. MaxStamp]
Blank == [rows |-> [r \in Rows |-> "absent"], aside |-> 0, stamp |-> 0]

\* What is asked of the API.
Ops == {"read", "count", "add", "remove", "primary", "resend", "private", "public",
        "disconnect", "confirm", "disable", "startSms", "confirmSms", "generate", "default",
        "yes", "no", "change", "save", "markRead", "markAll",
        "login", "recover", "signUp", "loginAfter", "forgot"}

\* The dialogs, by what they are about.
Dialogs == {"none", "connect", "disconnect", "addKey", "remove", "enable", "disable",
            "number", "code", "event", "card", "bank", "login", "signUp", "forgot"}

\* A request has been handled once it is answered or refused.  Nobody waits
\* for one that was given up on.
Request == [id : Nat, op : Ops, row : RowOrNone,
            at : {"sent", "looked", "answered", "refused"}, waits : BOOLEAN,
            got : Held, content : 0 .. MaxStamp + 1]

Nowhere == [action |-> "none", row |-> None]
Silent == [good |-> FALSE, op |-> "none", row |-> None]

\* What was done well or badly.
Notice == [good : BOOLEAN, op : Ops \union Dialogs \union {"leave"}, row : RowOrNone]

UI == [held : Held,                 \* the copy of the list
       loading : BOOLEAN,           \* until the first answer arrives
       failed : BOOLEAN,            \* the list could not be read
       busy : RowOrNone,            \* the row with a save in flight
       marks : SUBSET {"adding", "saving", "making", "changing", "pending",
                          "login", "signUp", "forgot", "recovering", "counted"},
       dialog : [action : Dialogs, row : RowOrNone],
       codes : 0 .. MaxStamp,       \* the recovery codes on screen, 0 for none
       form : Nat,                  \* what a form holds, 0 for its blanks
       claim : RowOrNone,           \* what the URL said had just been done
       notice : Notice]

Kinds == {"link", "factor", "passkey", "login"}
Trip == [place : {"page", "provider", "linking", "callback", "home", "dashboard",
                  "security", "failed"},
         want : Kinds, claimed : Kinds, about : RowOrNone, markers : [Kinds -> RowOrNone],
         kept : BOOLEAN, made : 0 .. MaxTrips, clean : BOOLEAN]

\* The types of everything on screen, and of the requests.
ScreenTypeOK ==
    /\ card \in Cards /\ server \in Held /\ ui \in UI /\ trip \in Trip
    /\ flight \subseteq Request /\ sent \in Nat
    /\ disturbed \subseteq {"elsewhere", "lost", "overlap"}

\* A page is drawn with nothing on it, and its hook asks for the list.
Drawn(claim) ==
    [held |-> Blank, loading |-> TRUE, failed |-> FALSE, busy |-> None,
     marks |-> {}, dialog |-> Nowhere, codes |-> 0, form |-> 0, claim |-> claim,
     notice |-> Silent]
Asks(id, op, row, content) ==
    [id |-> id, op |-> op, row |-> row, at |-> "sent", waits |-> TRUE,
     got |-> Blank, content |-> content]

OnPage(c) == card = c /\ trip.place = "page"
\* A modal dialog is in front of everything else.
Free == ui.dialog = Nowhere /\ ui.codes = 0
Listed(r) == ui.held.rows[r] # "absent"

-----------------------------------------------------------------------------
(* What a handler does: it redraws, or it also sends a request.            *)

Shows(next) ==
    /\ ui' = next /\ ui' # ui
    /\ UNCHANGED <<card, server, trip, flight, sent, disturbed>>

SendsWith(op, row, content) ==
    /\ sent < MaxSent[card] /\ sent' = sent + 1
    /\ flight' = flight \union {Asks(sent + 1, op, row, content)}
Presses(op, row, next) ==
    /\ SendsWith(op, row, 0)
    /\ ui' = next
    /\ UNCHANGED <<card, server, trip, disturbed>>

Opens(action, row) == Free /\ Shows([ui EXCEPT !.dialog = [action |-> action, row |-> row]])
Closes(open) == ui.dialog.action \in open /\ Shows([ui EXCEPT !.dialog = Nowhere])

\* What is added is a row of its own, told from one that was there before.
NewRow(r) == ~Listed(r) /\ \A f \in flight : f.row # r

-----------------------------------------------------------------------------
(* A request at the API.                                                   *)

Becomes(f, g) == flight' = (flight \ {f}) \union (IF g.waits THEN {g} ELSE {})

\* A list that is the same afterwards needs no new stamp.
With(rows, aside) ==
    IF rows = server.rows /\ aside = server.aside THEN server
    ELSE [rows |-> rows, aside |-> aside, stamp |-> server.stamp + 1]
Put(r, status) == With([server.rows EXCEPT ![r] = status], server.aside)
Aside(n) == With(server.rows, n)

\* The API carries a request out, and answers with its list after that, or
\* refuses it.
Handles(f, allowed, after) ==
    /\ f.at \in {"sent", "looked"}
    /\ \/ allowed /\ after.stamp <= MaxStamp /\ server' = after
          /\ Becomes(f, [f EXCEPT !.at = "answered", !.got = after])
       \/ ~allowed /\ UNCHANGED server
          /\ Becomes(f, [f EXCEPT !.at = "refused"])
    /\ UNCHANGED <<card, ui, trip, sent, disturbed>>

Reads(f) == f.op = "read" /\ Handles(f, TRUE, server)

\* The caller hears an answer, or an error: no token, a refusal, a connection
\* that broke before or after the API had the request.
Answers(f) == f.at = "answered" /\ f.waits /\ flight' = flight \ {f}
Errors(f) ==
    /\ f.waits
    /\ \/ flight' = flight \ {f}
       \/ f.at = "sent" /\ flight' = (flight \ {f}) \union {[f EXCEPT !.waits = FALSE]}
Hears(f, good, next) ==
    /\ IF good THEN Answers(f) /\ UNCHANGED disturbed
               ELSE Errors(f) /\ disturbed' = IF f.at = "refused" THEN disturbed
                                                      ELSE disturbed \union {"lost"}
    /\ ui' = next
    /\ UNCHANGED <<card, server, trip, sent>>

\* The account is changed once from another tab, or at the provider.
Elsewhere(after) ==
    /\ "elsewhere" \notin disturbed /\ after.stamp \in server.stamp + 1 .. MaxStamp
    /\ server' = after /\ disturbed' = disturbed \union {"elsewhere"}
    /\ UNCHANGED <<card, ui, trip, flight, sent>>

-----------------------------------------------------------------------------
(* What an answer does to the page.                                        *)

Says(f, good) == [good |-> good, op |-> f.op, row |-> f.row]

\* The hook takes the whole list from a write's answer.
Replaced(f) == [ui EXCEPT !.held = f.got, !.failed = FALSE]
\* Single sign-on and the others leave an earlier reading's error in place.
ReplacedOnly(f) == [ui EXCEPT !.held = f.got]

ReadArrives(f, good) ==
    /\ f.op = "read"
    /\ Hears(f, good, IF good THEN [ui EXCEPT !.held = f.got, !.loading = FALSE]
                      ELSE [ui EXCEPT !.loading = FALSE, !.failed = TRUE])
=============================================================================

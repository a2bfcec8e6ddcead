------------------------------ MODULE SsoCard ------------------------------
(***************************************************************************)
(* The logins an account has at other providers.  The number beside the    *)
(* list is 1 when the account has a password to fall back on.  A provider  *)
(* that is not connected is closed while the realm has it switched off; of *)
(* one that is connected this is not told, and turns out when it goes.     *)
(***************************************************************************)
EXTENDS Redirects

Apart == {"off", "closed"}
Connected(held) == {r \in Rows : held.rows[r] = "on"}

\* What the API computes for each row: it is not the only way in.
CanDisconnect(held) == held.aside = 1 \/ Cardinality(Connected(held)) > 1

-----------------------------------------------------------------------------
SsoRow(held, r) ==
    (IF held.rows[r] = "on" /\ CanDisconnect(held) THEN {"disconnect"} ELSE {})
        \union (IF held.rows[r] = "off" THEN {"connect"} ELSE {})

SsoList ==
    IF ui.loading THEN {}
    ELSE UNION {{<<op, r>> : op \in SsoRow(ui.held, r)} :
                r \in {q \in Rows : Listed(q) /\ ui.busy # q}}

\* Mutant of ConnectionDialog: it can be closed while it is done.
ConnectionDialogAlways ==
    IF ui.dialog.action \notin {"connect", "disconnect"} THEN {} ELSE {ui.dialog.action, "close"}

\* It asks before it does, and cannot be closed while it is done.
ConnectionDialog ==
    IF ui.dialog.action \notin {"connect", "disconnect"} \/ ui.busy # None THEN {}
    ELSE {ui.dialog.action, "close"}

-----------------------------------------------------------------------------
setConnection(op, r) == <<op, r>> \in SsoList /\ Opens(op, r)

closeConnection == "close" \in ConnectionDialog /\ Closes({"connect", "disconnect"})

\* The page is left; the row stays marked only while it is being left.
connecting ==
    LET r == ui.dialog.row IN
    /\ "connect" \in ConnectionDialog
    /\ \/ beginAccountLink(r)
       \/ CannotStart("link", r, [ui EXCEPT !.dialog = Nowhere, !.busy = None,
                                 !.notice = [good |-> FALSE, op |-> "connect", row |-> r]])

disconnecting ==
    /\ "disconnect" \in ConnectionDialog
    /\ Presses("disconnect", ui.dialog.row, [ui EXCEPT !.busy = ui.dialog.row])

-----------------------------------------------------------------------------
SsoAllowed(op, r) ==
    \/ op = "confirm"
    \/ op = "disconnect" /\ server.rows[r] = "on" /\ CanDisconnect(server)

SsoAfter(op, r, left) == IF op = "disconnect" THEN Put(r, left) ELSE server

\* The provider links an account while the browser is there.
LinksAtProvider ==
    /\ trip.place = "linking" /\ server.rows[trip.about] = "off"
    /\ server.stamp < MaxStamp
    /\ server' = Put(trip.about, "on")
    /\ UNCHANGED <<card, ui, trip, flight, sent, disturbed>>

-----------------------------------------------------------------------------
\* A refused disconnection leaves its dialog open.
disconnected(f, good) ==
    /\ f.op = "disconnect"
    /\ Hears(f, good, IF good THEN [ReplacedOnly(f) EXCEPT !.busy = None, !.dialog = Nowhere,
                                                           !.notice = Says(f, TRUE)]
                      ELSE [ui EXCEPT !.busy = None, !.notice = Says(f, FALSE)])

\* What is said is what the API found, not what the URL claimed.
confirmedLink(f, good) ==
    /\ f.op = "confirm"
    /\ Hears(f, good, IF good THEN [ReplacedOnly(f) EXCEPT !.notice = Says(f, f.got.rows[f.row] = "on")]
                      ELSE [ui EXCEPT !.notice = Says(f, FALSE)])

useSignInMethods(f, good) ==
    ReadArrives(f, good) \/ disconnected(f, good) \/ confirmedLink(f, good)

SsoNext ==
    \/ LinksAtProvider
    \/ /\ OnPage("sso")
       /\ \/ \E op \in {"connect", "disconnect"}, r \in Rows : setConnection(op, r)
          \/ closeConnection \/ connecting \/ disconnecting
          \/ \E r \in Rows, left \in Apart : Elsewhere(Put(r, left))
          \/ \E f \in flight :
               \/ Reads(f)
               \/ /\ f.op # "read"
                  /\ \E left \in Apart :
                       Handles(f, SsoAllowed(f.op, f.row), SsoAfter(f.op, f.row, left))
               \/ \E good \in BOOLEAN : useSignInMethods(f, good)
=============================================================================

---------------------------- MODULE PasskeyCard ----------------------------
(***************************************************************************)
(* The passkeys of an account.  They are registered at the provider; the   *)
(* number beside the list is 1 when one was registered just now.           *)
(***************************************************************************)
EXTENDS Redirects

PasskeyRow(s) == IF s = "on" THEN {"remove"} ELSE {}

PasskeyList ==
    IF ui.loading THEN {}
    ELSE UNION {{<<op, r>> : op \in PasskeyRow(ui.held.rows[r])} :
                r \in {q \in Rows : Listed(q) /\ ui.busy # q}}

\* Not held back by the list being read.
AddPasskey == IF "adding" \in ui.marks THEN {} ELSE {"addKey"}

PasskeyDialog ==
    IF ui.dialog.action \notin {"addKey", "remove"} \/ ui.busy # None \/ "adding" \in ui.marks
    THEN {} ELSE {ui.dialog.action, "close"}

-----------------------------------------------------------------------------
setPasskeyRequest(op, r) ==
    \/ /\ <<op, r>> \in PasskeyList
       /\ Opens(op, r)
    \/ /\ op \in AddPasskey /\ r = Sms
       /\ Opens(op, None)

closePasskey == "close" \in PasskeyDialog /\ Closes({"addKey", "remove"})

addingAPasskey ==
    /\ "addKey" \in PasskeyDialog
    /\ \/ beginPasskeyRegistration
       \/ CannotStart("passkey", Sms, [ui EXCEPT !.dialog = Nowhere, !.marks = @ \ {"adding"},
                                      !.notice = [good |-> FALSE, op |-> "addKey", row |-> None]])

removingPasskey ==
    /\ "remove" \in PasskeyDialog
    /\ Presses("remove", ui.dialog.row, [ui EXCEPT !.busy = ui.dialog.row])

-----------------------------------------------------------------------------
PasskeyAllowed(op, r) == (op = "remove") => (server.rows[r] = "on")

PasskeyAfter(op, r) == IF op = "remove" THEN Put(r, "absent") ELSE server

\* The ceremony makes a key while the browser is at the provider.
RegistersAtProvider(r) ==
    /\ trip.place = "provider" /\ trip.want = "passkey" /\ server.aside = 0
    /\ server.rows[r] = "absent" /\ server.stamp < MaxStamp
    /\ server' = With([server.rows EXCEPT ![r] = "on"], 1)
    /\ UNCHANGED <<card, ui, trip, flight, sent, disturbed>>

RemovedElsewhere ==
    \E r \in Rows : server.rows[r] = "on" /\ Elsewhere(Put(r, "absent"))

-----------------------------------------------------------------------------
passkeyRemoved(f, good) ==
    /\ f.op = "remove"
    /\ Hears(f, good, IF good THEN [ReplacedOnly(f) EXCEPT !.busy = None, !.dialog = Nowhere,
                                                           !.notice = Says(f, TRUE)]
                      ELSE [ui EXCEPT !.busy = None, !.notice = Says(f, FALSE)])

\* What is said is whether the API found one that is new.
passkeyConfirmed(f, good) ==
    /\ f.op = "confirm"
    /\ Hears(f, good, IF good THEN [ReplacedOnly(f) EXCEPT !.notice = Says(f, f.got.aside = 1)]
                      ELSE [ui EXCEPT !.notice = Says(f, FALSE)])

usePasskeys(f, good) ==
    ReadArrives(f, good) \/ passkeyRemoved(f, good) \/ passkeyConfirmed(f, good)

PasskeyNext ==
    \/ \E r \in Rows : RegistersAtProvider(r)
    \/ /\ OnPage("passkeys")
       /\ \/ \E op \in {"addKey", "remove"}, r \in Rows : setPasskeyRequest(op, r)
          \/ closePasskey \/ addingAPasskey \/ removingPasskey
          \/ RemovedElsewhere
          \/ \E f \in flight :
               \/ Reads(f)
               \/ f.op # "read" /\ Handles(f, PasskeyAllowed(f.op, f.row), PasskeyAfter(f.op, f.row))
               \/ \E good \in BOOLEAN : usePasskeys(f, good)
=============================================================================

----------------------------- MODULE EmailCard -----------------------------
(***************************************************************************)
(* The addresses of an account on the security page, with the switch that  *)
(* hides the login address from the other members (the number beside the   *)
(* list: 0 is private).                                                    *)
(***************************************************************************)
EXTENDS Screen

Proved(s) == s \in {"verified", "primary"}
Chosen(s) == s \in {"primary", "unproved"}

-----------------------------------------------------------------------------
(* What the card offers.                                                   *)

\* Mutant of EmailRow: an unproved login address can be removed.
EmailRowByProof(s) ==
    (IF Proved(s) /\ ~Chosen(s) THEN {"primary"} ELSE {})
        \union (IF Proved(s) THEN {} ELSE {"resend"})
        \union (IF s = "primary" THEN {} ELSE {"remove"})

EmailRow(s) ==
    (IF Proved(s) /\ ~Chosen(s) THEN {"primary"} ELSE {})
        \union (IF Proved(s) THEN {} ELSE {"resend"})
        \union (IF Chosen(s) THEN {} ELSE {"remove"})

\* Only the row being saved is quiet.
EmailList ==
    IF ui.loading THEN {}
    ELSE UNION {{<<op, r>> : op \in EmailRow(ui.held.rows[r])} :
                r \in {q \in Rows : Listed(q) /\ ui.busy # q}}

AddRow == IF "adding" \in ui.marks THEN {} ELSE {"add"}

\* The switch turns to what it is not.
PrivacyCard ==
    IF ui.loading \/ "saving" \in ui.marks THEN {}
    ELSE {IF ui.held.aside = 0 THEN "public" ELSE "private"}

-----------------------------------------------------------------------------
(* What pressing it does.                                                  *)

\* One variable for all rows: the last one pressed.
act(op, r) == <<op, r>> \in EmailList /\ Presses(op, r, [ui EXCEPT !.busy = r])

\* An address is typed, and the hook checks its spelling before it is sent.
addsEmail(r) ==
    /\ NewRow(r) /\ "add" \in AddRow
    /\ Presses("add", r, [ui EXCEPT !.marks = @ \union {"adding"}])

setPrivacy(op) ==
    op \in PrivacyCard /\ Presses(op, None, [ui EXCEPT !.marks = @ \union {"saving"}])

-----------------------------------------------------------------------------
(* What the API does.                                                      *)

EmailAllowed(op, r) ==
    \/ op \in {"private", "public"}
    \/ LET s == server.rows[r] IN
       \/ op = "add" /\ s = "absent"
       \/ op = "remove" /\ s \notin {"absent"} /\ ~Chosen(s)
       \/ op = "primary" /\ Proved(s)
       \/ op = "resend" /\ s \in {"waiting", "unproved"}

Demoted(s) == CASE s = "primary" -> "verified" [] s = "unproved" -> "waiting" [] OTHER -> s

EmailAfter(op, r) ==
    CASE op = "add" -> Put(r, "waiting")
      [] op = "remove" -> Put(r, "absent")
      [] op = "primary" -> With([q \in Rows |-> IF q = r THEN "primary"
                                                ELSE Demoted(server.rows[q])], server.aside)
      [] op = "resend" -> server
      [] op = "private" -> Aside(0)
      [] op = "public" -> Aside(1)

\* The link in the message is opened, wherever that is.
VerifyEmail(r) ==
    server.rows[r] \in {"waiting", "unproved"}
        /\ Elsewhere(Put(r, IF server.rows[r] = "waiting" THEN "verified" ELSE "primary"))

-----------------------------------------------------------------------------
(* What an answer does.                                                    *)

\* The addresses are answered, and the switch stays as it was.
WithAddresses(f) ==
    [ui EXCEPT !.held.rows = f.got.rows, !.held.stamp = f.got.stamp, !.failed = FALSE]

\* Mutant of acted: the row is set free only by a yes.
actedWell(f, good) ==
    /\ f.op \in {"remove", "primary", "resend"}
    /\ Hears(f, good, [(IF good THEN [WithAddresses(f) EXCEPT !.busy = None] ELSE ui)
                       EXCEPT !.notice = Says(f, good)])

\* Whichever row the answer is about, no row is busy after it.
acted(f, good) ==
    /\ f.op \in {"remove", "primary", "resend"}
    /\ Hears(f, good, [(IF good THEN WithAddresses(f) ELSE ui)
                       EXCEPT !.busy = None, !.notice = Says(f, good)])

added(f, good) ==
    /\ f.op = "add"
    /\ Hears(f, good, [(IF good THEN WithAddresses(f) ELSE ui)
                       EXCEPT !.marks = @ \ {"adding"}, !.notice = Says(f, good)])

\* Saving the switch is answered with both.
privacySaved(f, good) ==
    /\ f.op \in {"private", "public"}
    /\ Hears(f, good, [(IF good THEN Replaced(f) ELSE ui)
                       EXCEPT !.marks = @ \ {"saving"}, !.notice = Says(f, good)])

useEmails(f, good) ==
    ReadArrives(f, good) \/ acted(f, good) \/ added(f, good) \/ privacySaved(f, good)

EmailNext ==
    /\ OnPage("emails")
    /\ \/ \E r \in Rows, op \in {"primary", "resend", "remove"} : act(op, r)
       \/ \E r \in Rows : addsEmail(r) \/ VerifyEmail(r)
       \/ \E op \in {"private", "public"} : setPrivacy(op)
       \/ \E f \in flight :
            \/ Reads(f)
            \/ f.op # "read" /\ Handles(f, EmailAllowed(f.op, f.row), EmailAfter(f.op, f.row))
            \/ \E good \in BOOLEAN : useEmails(f, good)
=============================================================================

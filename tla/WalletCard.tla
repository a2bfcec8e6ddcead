----------------------------- MODULE WalletCard -----------------------------
(***************************************************************************)
(* The wallet page, and the functions of the database behind it.  A        *)
(* function reads what is committed when it starts and commits later; two  *)
(* of them may overlap.                                                    *)
(***************************************************************************)
EXTENDS Screen

Wal == INSTANCE Wallet WITH Methods <- Rows, wallet <- server.rows

WalletRow(s) == {"remove"} \union (IF s = "default" THEN {} ELSE {"default"})

MethodList ==
    IF ui.loading THEN {}
    ELSE UNION {{<<op, r>> : op \in WalletRow(ui.held.rows[r])} :
                r \in {q \in Rows : Listed(q) /\ ui.busy # q}}

\* Always there, whatever is being read or saved.
AddButton == {"card", "bank"}

MethodDialog ==
    IF ui.dialog.action \notin AddButton \/ "adding" \in ui.marks THEN {}
    ELSE {"add", "close"}

-----------------------------------------------------------------------------
\* One variable for all rows: the last one pressed.
actOnMethod(op, r) == Free /\ <<op, r>> \in MethodList /\ Presses(op, r, [ui EXCEPT !.busy = r])

setAdding(kind) == kind \in AddButton /\ Opens(kind, None)

closeAdding == "close" \in MethodDialog /\ Closes(AddButton)

\* What is filled in passes the form's own rules before it is sent.
submitCard(r) ==
    /\ ui.dialog.action = "card" /\ "add" \in MethodDialog /\ NewRow(r)
    /\ Presses("add", r, [ui EXCEPT !.marks = @ \union {"adding"}])

submitAccount(r) ==
    /\ ui.dialog.action = "bank" /\ "add" \in MethodDialog /\ NewRow(r)
    /\ Presses("add", r, [ui EXCEPT !.marks = @ \union {"adding"}])

-----------------------------------------------------------------------------
\* A function starts: it has looked at the wallet.
Overlapping(f) == \E g \in flight \ {f} : g.at = "looked"

Looks(f) ==
    /\ f.at = "sent" /\ f.op # "read"
    /\ flight' = (flight \ {f}) \union {[f EXCEPT !.at = "looked", !.got = server]}
    /\ disturbed' = disturbed \union (IF Overlapping(f) THEN {"overlap"} ELSE {})
    /\ UNCHANGED <<card, server, ui, trip, sent>>

WalletAllowed(op, r) ==
    IF op = "add" THEN server.rows[r] = "absent" ELSE server.rows[r] # "absent"

AddCreditCard(f) ==
    Put(f.row, IF Wal!IsFirst(f.got.rows) THEN "default" ELSE "held")

\* Only the rows that were seen to be set are cleared.
SetDefaultPaymentMethod(f) ==
    With([q \in Rows |-> IF q = f.row THEN "default"
                         ELSE IF f.got.rows[q] = "default" THEN Wal!Cleared(server.rows, q)
                         ELSE server.rows[q]], server.aside)

\* Mutant of RemovePaymentMethod: nothing becomes the default after it.
RemoveRow(f, oldest) == Put(f.row, "absent")

\* Which one is the oldest is not told apart: the choice is the caller's.
RemovePaymentMethod(f, oldest) ==
    With([server.rows EXCEPT ![oldest] = IF server.rows[f.row] = "default" THEN "default" ELSE @,
                             ![f.row] = "absent"], server.aside)

Remaining(r) == {q \in Rows \ {r} : server.rows[q] # "absent"}

Commits(f) ==
    /\ f.at = "looked"
    /\ \/ f.op = "add" /\ Handles(f, WalletAllowed("add", f.row), AddCreditCard(f))
       \/ f.op = "default"
            /\ Handles(f, WalletAllowed("default", f.row), SetDefaultPaymentMethod(f))
       \/ f.op = "remove"
            /\ \E oldest \in IF Remaining(f.row) = {} THEN {f.row} ELSE Remaining(f.row) :
                 Handles(f, WalletAllowed("remove", f.row), RemovePaymentMethod(f, oldest))

-----------------------------------------------------------------------------
walletActed(f, good) ==
    /\ f.op \in {"default", "remove"}
    /\ Hears(f, good, [(IF good THEN Replaced(f) ELSE ui)
                       EXCEPT !.busy = None, !.notice = Says(f, good)])

\* A refusal is shown in the dialog, which stays open.
saved(f, good) ==
    /\ f.op = "add"
    /\ Hears(f, good, IF good THEN [Replaced(f) EXCEPT !.marks = @ \ {"adding"}, !.dialog = Nowhere,
                                                       !.notice = Says(f, TRUE)]
                      ELSE [ui EXCEPT !.marks = @ \ {"adding"}])

useWallet(f, good) == ReadArrives(f, good) \/ walletActed(f, good) \/ saved(f, good)

WalletCardNext ==
    /\ OnPage("wallet")
    /\ \/ \E op \in {"default", "remove"}, r \in Rows : actOnMethod(op, r)
       \/ \E kind \in AddButton : setAdding(kind)
       \/ closeAdding
       \/ submitAccount(Sms) \/ \E r \in Rows \ {Sms} : submitCard(r)
       \/ \E f \in flight :
            \/ Reads(f) \/ Looks(f) \/ Commits(f)
            \/ \E good \in BOOLEAN : useWallet(f, good)
=============================================================================

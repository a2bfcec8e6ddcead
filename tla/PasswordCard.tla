---------------------------- MODULE PasswordCard ----------------------------
(***************************************************************************)
(* Choosing a new password, on the security page and from a mailed link.   *)
(* The number beside the list is which password the account has, and the   *)
(* card shows when it was last changed.                                    *)
(***************************************************************************)
EXTENDS Screen

\* The form is filled in with an old and a new password (1), or empty (0).
Filled == ui.form = 1

PasswordForm == IF "changing" \in ui.marks THEN {} ELSE {"fill", "change"}

fillsPassword == "fill" \in PasswordForm /\ ~Filled /\ Shows([ui EXCEPT !.form = 1])

\* The form's own rules come first.
checkChangePassword == Filled

changing ==
    /\ "change" \in PasswordForm /\ checkChangePassword
    /\ Presses("change", None, [ui EXCEPT !.marks = @ \union {"changing"}])

\* Whether the old password is right is not known here.
PasswordAfter == Aside(server.stamp + 1)

\* The boxes are emptied only on a yes.
changed(f, good) ==
    /\ f.op = "change"
    /\ Hears(f, good, IF good THEN [ReplacedOnly(f) EXCEPT !.marks = @ \ {"changing"}, !.form = 0,
                                                           !.notice = Says(f, TRUE)]
                      ELSE [ui EXCEPT !.marks = @ \ {"changing"}, !.notice = Says(f, FALSE)])

\* The date is one line of the card; that it could not be read is not said.
passwordRead(f, good) ==
    /\ f.op = "read"
    /\ Hears(f, good, IF good THEN [ReplacedOnly(f) EXCEPT !.loading = FALSE]
                      ELSE [ui EXCEPT !.loading = FALSE])

usePassword(f, good) == passwordRead(f, good) \/ changed(f, good)

PasswordNext ==
    /\ OnPage("password")
    /\ \/ fillsPassword \/ changing
       \/ \E f \in flight :
            \/ Reads(f)
            \/ f.op # "read" /\ \E right \in BOOLEAN : Handles(f, right, PasswordAfter)
            \/ \E good \in BOOLEAN : usePassword(f, good)
=============================================================================

------------------------------ MODULE Entrance ------------------------------
(***************************************************************************)
(* The dialogs of somebody who is signed out: logging in, signing up,      *)
(* asking for a new password, and the page a mailed link opens.  One of    *)
(* the dialogs is open at a time, each keeps a flag of its own while it    *)
(* waits, and the links between them stay where they are.  A form counts   *)
(* refused logins, and asks for a code from the third on.                  *)
(***************************************************************************)
EXTENDS Redirects

Showing == ui.dialog.action
Waiting(dialog) == dialog \in ui.marks
Show(dialog) == [action |-> dialog, row |-> None]

\* The same card asks for a recovery code instead, once it asks for any.
asksForCode == ui.form >= RefusalsBeforeCode
Recovering == "recovering" \in ui.marks

LoginDialog ==
    (IF Waiting("login") THEN {} ELSE {"leave", "close", IF Recovering THEN "recover" ELSE "login"})
        \union (IF asksForCode THEN {"other"} ELSE {}) \union {"signUp", "forgot"}
SignUpDialog ==
    (IF Waiting("signUp") THEN {} ELSE {"register", "leave", "close"}) \union {"login"}
ForgotPasswordDialog ==
    (IF Waiting("forgot") THEN {} ELSE {"ask", "close"}) \union {"login"}

Offered == CASE Showing = "login" -> LoginDialog
             [] Showing = "signUp" -> SignUpDialog
             [] Showing = "forgot" -> ForgotPasswordDialog
             [] OTHER -> {}

-----------------------------------------------------------------------------
\* The header opens a dialog, a link goes to another.
opens(dialog) == dialog \in {"login", "signUp"} /\ Opens(dialog, None)

follows(dialog) ==
    /\ dialog # Showing /\ dialog \in Offered
    /\ Shows([ui EXCEPT !.dialog = Show(dialog)])

\* To the other kind of code and back, whatever is being waited for.
setRecovering ==
    /\ "other" \in Offered
    /\ Shows([ui EXCEPT !.marks = IF Recovering THEN @ \ {"recovering"}
                                  ELSE @ \union {"recovering"}])

closes == "close" \in Offered /\ Shows([ui EXCEPT !.dialog = Nowhere])

Waits(dialog) == [ui EXCEPT !.marks = @ \union {dialog}]

submitLogin ==
    /\ Showing = "login" /\ "login" \in Offered
    /\ Presses("login", None, Waits("login"))
recover == "recover" \in Offered /\ Presses("recover", None, Waits("login"))
submitSignUp == "register" \in Offered /\ Presses("signUp", None, Waits("signUp"))
submitForgot == "ask" \in Offered /\ Presses("forgot", None, Waits("forgot"))

Reports(op) == [good |-> FALSE, op |-> op, row |-> None]

\* A provider's button: the flag stays while the browser is leaving.
leaveFor ==
    /\ "leave" \in Offered
    /\ startRedirect("login", None) \/ CannotStart("login", None, [ui EXCEPT !.notice = Reports("leave")])

-----------------------------------------------------------------------------
\* A login that is answered closes whatever is open and goes on; its flag is
\* left as it is.
enters(f) ==
    /\ f.op \in {"login", "loginAfter"}
    /\ Answers(f)
    /\ ui' = [ui EXCEPT !.dialog = Nowhere]
    /\ trip' = [trip EXCEPT !.place = "dashboard", !.want = "login"]
    /\ UNCHANGED <<card, server, sent, disturbed>>

More(n) == IF n = RefusalsBeforeCode THEN n ELSE n + 1

refused(f) ==
    /\ f.op = "login"
    /\ Hears(f, FALSE, [ui EXCEPT !.marks = @ \ {"login"}, !.form = More(@),
                                  !.notice = Says(f, FALSE)])

\* A recovery code is no session: the form is the ordinary one again.
recovered(f, good) ==
    /\ f.op = "recover"
    /\ Hears(f, good, [ui EXCEPT !.marks = @ \ (IF good THEN {"login", "recovering"} ELSE {"login"}),
                                 !.form = IF good THEN 0 ELSE @, !.notice = Says(f, good)])

\* Registered, and then logged in with what was typed.
registered(f) ==
    /\ f.op = "signUp" /\ f.at = "answered" /\ f.waits
    /\ sent < MaxSent[card] /\ sent' = sent + 1
    /\ flight' = (flight \ {f}) \union {Asks(sent + 1, "loginAfter", None, 0)}
    /\ UNCHANGED <<card, server, ui, trip, disturbed>>

notRegistered(f) ==
    /\ f.op \in {"signUp", "loginAfter"}
    /\ Hears(f, FALSE, [ui EXCEPT !.marks = @ \ {"signUp"}, !.notice = Says(f, FALSE)])

\* What is said is the same for an account that is not there.
asked(f, good) ==
    /\ f.op = "forgot"
    /\ Hears(f, good, [ui EXCEPT !.marks = @ \ {"forgot"}, !.notice = Says(f, good)])

EntranceNext ==
    /\ card = "entrance" /\ trip.place \in {"page", "dashboard"}
    /\ \/ /\ trip.place = "page"
          /\ \/ \E d \in {"login", "signUp", "forgot"} : opens(d) \/ follows(d)
             \/ closes \/ setRecovering \/ submitLogin \/ recover \/ submitSignUp \/ submitForgot \/ leaveFor
       \/ \E f \in flight :
            \/ \E right \in BOOLEAN : Handles(f, right, server)
            \/ enters(f) \/ refused(f) \/ registered(f) \/ notRegistered(f)
            \/ \E good \in BOOLEAN : recovered(f, good) \/ asked(f, good)
=============================================================================

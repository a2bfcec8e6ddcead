---------------------------- MODULE ActivityCard ----------------------------
(***************************************************************************)
(* The recent events of an account, each of which can be answered: it was  *)
(* me, or it was not.  An answer may be changed.                           *)
(***************************************************************************)
EXTENDS Screen

ActivityRow(r) == IF Listed(r) /\ ui.busy # r THEN {"open"} ELSE {}

ActivityList == IF ui.loading THEN {} ELSE {r \in Rows : ActivityRow(r) # {}}

ActivityDialog ==
    IF ui.dialog.action # "event" \/ ui.busy # None THEN {} ELSE {"yes", "no", "close"}

-----------------------------------------------------------------------------
setViewing(r) == r \in ActivityList /\ Opens("event", r)

closeViewing == "close" \in ActivityDialog /\ Closes({"event"})

onAnswer(op) ==
    /\ op \in ActivityDialog
    /\ Presses(op, ui.dialog.row, [ui EXCEPT !.busy = ui.dialog.row])

-----------------------------------------------------------------------------
ReviewAllowed(r) == server.rows[r] # "absent"

\* A link that is sent is an event as well, the newest of the list.
ReviewSecurityEvent(op, r, new) ==
    With([server.rows EXCEPT ![r] = op,
                             ![new] = IF op = "no" /\ new # r THEN "new" ELSE @], server.aside)

-----------------------------------------------------------------------------
answered(f, good) ==
    /\ f.op \in {"yes", "no"}
    /\ Hears(f, good, IF good THEN [Replaced(f) EXCEPT !.busy = None, !.dialog = Nowhere,
                                                       !.notice = Says(f, TRUE)]
                      ELSE [ui EXCEPT !.busy = None, !.notice = Says(f, FALSE)])

useSecurityActivity(f, good) == ReadArrives(f, good) \/ answered(f, good)

ActivityNext ==
    /\ OnPage("activity")
    /\ \/ \E r \in Rows : setViewing(r)
       \/ closeViewing \/ \E op \in {"yes", "no"} : onAnswer(op)
       \/ \E r \in Rows : server.rows[r] = "absent" /\ Elsewhere(Put(r, "new"))
       \/ \E f \in flight :
            \/ Reads(f)
            \/ f.op # "read" /\ \E new \in {q \in Rows : server.rows[q] = "absent"} \union {f.row} :
                 Handles(f, ReviewAllowed(f.row), ReviewSecurityEvent(f.op, f.row, new))
            \/ \E good \in BOOLEAN : useSecurityActivity(f, good)
=============================================================================

---------------------------- MODULE Notifications ----------------------------
(***************************************************************************)
(* The bell and the notifications page, which share one cache: a list and  *)
(* the counts beside it, each read on its own.  A write does not answer    *)
(* with the list: it has both read again.  The number beside the list is   *)
(* 1 while something is unread.                                            *)
(***************************************************************************)
EXTENDS Screen

UnreadRows(rows) == {r \in Rows : rows[r] = "unread"}
Count(rows) == IF UnreadRows(rows) = {} THEN 0 ELSE 1

\* A list that is loading, or could not be read, has no data yet.
HasList == ~ui.loading /\ ~ui.failed

\* In the menu a row can be pressed whatever is being saved; on the page all
\* rows wait.
NotificationRow(r) == IF HasList /\ ui.held.rows[r] = "unread" THEN {"markRead"} ELSE {}
NotificationItem(r) == IF "pending" \in ui.marks THEN {} ELSE NotificationRow(r)

MarkAllButton == IF ui.held.aside = 0 \/ "saving" \in ui.marks THEN {} ELSE {"markAll"}

useMarkNotificationRead(r) ==
    /\ "markRead" \in NotificationRow(r) \union NotificationItem(r)
    /\ Presses("markRead", r, [ui EXCEPT !.marks = @ \union {"pending"}])

useMarkAllNotificationsRead ==
    /\ "markAll" \in MarkAllButton
    /\ Presses("markAll", None, [ui EXCEPT !.marks = @ \union {"saving"}])

-----------------------------------------------------------------------------
MarkNotificationRead(r) == Put(r, "read")

MarkAllNotificationsRead ==
    With([r \in Rows |-> IF server.rows[r] = "unread" THEN "read" ELSE server.rows[r]],
         server.aside)

\* The counts are computed when they are asked for.
Counted == [server EXCEPT !.aside = Count(server.rows)]

NotifyAllowed(f) == f.op = "markRead" => server.rows[f.row] # "absent"

AtTheApi(f) ==
    \/ f.op \in {"read", "count"} /\ Becomes(f, [f EXCEPT !.at = "answered", !.got = Counted])
       /\ f.at = "sent" /\ UNCHANGED <<card, server, ui, trip, sent, disturbed>>
    \/ f.op = "markRead" /\ Handles(f, NotifyAllowed(f), MarkNotificationRead(f.row))
    \/ f.op = "markAll" /\ Handles(f, TRUE, MarkAllNotificationsRead)

-----------------------------------------------------------------------------
\* Invalidating cancels the reading that is under way and reads again, except
\* the very first one, which is still waited for.
Reading(op) == {g \in flight : g.op = op /\ g.waits}
Refetch(op, has) == IF has \/ Reading(op) = {} THEN {op} ELSE {}
Refetched == Refetch("read", HasList) \union Refetch("count", "counted" \in ui.marks)

Ids(ops) == [op \in {"read", "count"} |-> IF op = "read" \/ "read" \notin ops THEN sent + 1 ELSE sent + 2]

invalidateQueries(f, next) ==
    /\ f.at = "answered" /\ f.waits
    /\ sent + Cardinality(Refetched) <= MaxSent[card]
    /\ sent' = sent + Cardinality(Refetched)
    /\ flight' = ({IF g.op \in Refetched THEN [g EXCEPT !.waits = FALSE] ELSE g :
                    g \in {h \in flight \ {f} : h.op \notin Refetched \/ h.at = "sent"}})
                 \union {Asks(Ids(Refetched)[op], op, None, 0) : op \in Refetched}
    /\ ui' = next
    /\ UNCHANGED <<card, server, trip, disturbed>>

\* A hook follows the last of its writes.
Latest(f) == \A g \in flight : g.op = f.op => g.id <= f.id
MarkOf(f) == IF f.op = "markAll" THEN {"saving"} ELSE {"pending"}

marked(f, good) ==
    /\ f.op \in {"markRead", "markAll"}
    /\ LET next == [ui EXCEPT !.marks = @ \ (IF Latest(f) THEN MarkOf(f) ELSE {})]
       IN IF good THEN invalidateQueries(f, next) ELSE Hears(f, FALSE, next)

listed(f, good) ==
    /\ f.op = "read"
    /\ Hears(f, good, IF good THEN [ui EXCEPT !.held.rows = f.got.rows, !.held.stamp = f.got.stamp,
                                              !.loading = FALSE, !.failed = FALSE]
                      ELSE [ui EXCEPT !.loading = FALSE, !.failed = ui.loading \/ ui.failed])

counted(f, good) ==
    /\ f.op = "count"
    /\ Hears(f, good, IF good THEN [ui EXCEPT !.held.aside = f.got.aside, !.marks = @ \union {"counted"}] ELSE ui)

useNotifications(f, good) == listed(f, good) \/ counted(f, good) \/ marked(f, good)

\* Something new is notified.
Notified(r) ==
    server.rows[r] = "absent" /\ Elsewhere(Put(r, "unread"))

NotificationsNext ==
    /\ OnPage("notifications")
    /\ \/ useMarkAllNotificationsRead
       \/ \E r \in Rows : useMarkNotificationRead(r) \/ Notified(r)
       \/ \E f \in flight : AtTheApi(f) \/ \E good \in BOOLEAN : useNotifications(f, good)
=============================================================================

---------------------------- MODULE ProfileForm ----------------------------
(***************************************************************************)
(* The profile: a form that is filled once, from the first profile that    *)
(* arrives, and is saved as a whole.  The number beside the list is which  *)
(* profile is stored, 0 being one of blanks only.                          *)
(***************************************************************************)
EXTENDS Screen

EMPTY == 0

\* What the form holds once it was filled from profile n, edited or not.
seed(n) == n + 1

Seeded == ui.form # EMPTY

\* Mutant: the button does not wait for the profile.
UpdateButtonAlways == IF "saving" \in ui.marks THEN {} ELSE {"save"}

UpdateButton == IF ui.loading \/ "saving" \in ui.marks THEN {} ELSE {"save"}

submitProfile ==
    /\ "save" \in UpdateButton
    /\ SendsWith("save", None, ui.form)
    /\ ui' = [ui EXCEPT !.marks = @ \union {"saving"}]
    /\ UNCHANGED <<card, server, trip, disturbed>>

\* Blanks are a profile like any other; edits make a new one.
SetUserProfile(f) == Aside(IF f.content = EMPTY THEN 0 ELSE server.stamp + 1)

Seeding(next) == IF Seeded THEN next ELSE [next EXCEPT !.form = seed(next.held.aside)]

profileRead(f, good) ==
    /\ f.op = "read"
    /\ Hears(f, good, IF good THEN Seeding([ReplacedOnly(f) EXCEPT !.loading = FALSE])
                      ELSE [ui EXCEPT !.loading = FALSE, !.failed = TRUE])

profileSaved(f, good) ==
    /\ f.op = "save"
    /\ Hears(f, good, IF good THEN Seeding([Replaced(f) EXCEPT !.marks = @ \ {"saving"},
                                                              !.notice = Says(f, TRUE)])
                      ELSE [ui EXCEPT !.marks = @ \ {"saving"}, !.notice = Says(f, FALSE)])

ProfileProvider(f, good) == profileRead(f, good) \/ profileSaved(f, good)

ProfileNext ==
    /\ OnPage("profile")
    /\ \/ submitProfile
       \/ Elsewhere(Aside(server.stamp + 1))
       \/ \E f \in flight :
            \/ Reads(f)
            \/ f.op # "read" /\ Handles(f, TRUE, SetUserProfile(f))
            \/ \E good \in BOOLEAN : ProfileProvider(f, good)
=============================================================================

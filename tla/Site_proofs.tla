----------------------------- MODULE Site_proofs -----------------------------
(***************************************************************************)
(* The pages of main-gui.  The wallet's functions keep what the abstract   *)
(* wallet promises; a card that no trip leads to is never left; what is on *)
(* screen, what is on its way and what the API holds are related for every *)
(* card, any rows and any number of requests.                              *)
(***************************************************************************)
EXTENDS Site, FiniteSetTheorems, TLAPS

-----------------------------------------------------------------------------
(* What the wallet promises is kept by its steps, for any set of cards and *)
(* accounts: it never holds something without a default, or two defaults.  *)

LEMMA WalletStepTyped == Wal!WalletTypeOK /\ [Wal!WalletNext]_(server.rows) => Wal!WalletTypeOK'
<1> SUFFICES ASSUME Wal!WalletTypeOK, [Wal!WalletNext]_(server.rows) PROVE Wal!WalletTypeOK'
    OBVIOUS
<1> USE DEF Wal!WalletTypeOK, Wal!WalletStatuses
<1>1. ASSUME NEW m \in Rows, Wal!AddMethod(m) PROVE Wal!WalletTypeOK'
    BY <1>1 DEF Wal!AddMethod
<1>2. ASSUME NEW m \in Rows, Wal!SetDefault(m) PROVE Wal!WalletTypeOK'
    BY <1>2 DEF Wal!SetDefault, Wal!Cleared
<1>3. ASSUME NEW m \in Rows, Wal!RemoveMethod(m) PROVE Wal!WalletTypeOK'
    BY <1>3 DEF Wal!RemoveMethod
<1>4. CASE UNCHANGED server.rows
    BY <1>4
<1> QED
    BY <1>1, <1>2, <1>3, <1>4 DEF Wal!WalletNext

\* A card or an account is absent, held or the default, whatever is done.
THEOREM WalletTypeCorrect == Wal!WalletSpec => []Wal!WalletTypeOK
<1>1. Wal!WalletInit => Wal!WalletTypeOK
    BY DEF Wal!WalletInit, Wal!WalletTypeOK, Wal!WalletStatuses
<1> QED
    BY <1>1, WalletStepTyped, PTL DEF Wal!WalletSpec

\* The first method of an empty wallet is the only default.
LEMMA AddKeepsOne ==
    ASSUME Wal!WalletTypeOK, Wal!OneDefault, NEW m \in Rows, Wal!AddMethod(m)
    PROVE  Wal!OneDefault'
<1> USE DEF Wal!AddMethod, Wal!OneDefault, Wal!IsDefault, Wal!IsFirst, Wal!WalletTypeOK
<1>1. CASE Wal!IsFirst(server.rows)
    <2>1. \A n \in Rows : server.rows'[n] = (IF n = m THEN "default" ELSE "absent")
        BY <1>1
    <2> QED
        BY <2>1
<1>2. CASE ~Wal!IsFirst(server.rows)
    <2>1. \A n \in Rows : server.rows'[n] = (IF n = m THEN "held" ELSE server.rows[n])
        BY <1>2
    <2>2. PICK d \in Rows : server.rows[d] = "default"
        BY <1>2
    <2>3. d # m /\ server.rows'[d] = "default"
        BY <2>1, <2>2
    <2> QED
        BY <2>1, <2>3
<1> QED
    BY <1>1, <1>2

\* Removing the default hands it on, if there is anything to hand it to.
LEMMA RemoveKeepsOne ==
    ASSUME Wal!WalletTypeOK, Wal!OneDefault, NEW m \in Rows, Wal!RemoveMethod(m)
    PROVE  Wal!OneDefault'
<1> DEFINE left == {n \in Rows \ {m} : server.rows[n] # "absent"}
<1> USE DEF Wal!OneDefault, Wal!IsDefault, Wal!WalletTypeOK
<1>1. CASE server.rows[m] = "default" /\ left # {}
    <2>1. PICK n \in left : server.rows' = [server.rows EXCEPT ![m] = "absent", ![n] = "default"]
        BY <1>1 DEF Wal!RemoveMethod
    <2>2. \A q \in Rows \ {m} : server.rows[q] # "default"
        BY <1>1
    <2> QED
        BY <2>1, <2>2
<1>2. CASE ~(server.rows[m] = "default" /\ left # {})
    <2>1. server.rows' = [server.rows EXCEPT ![m] = "absent"]
        BY <1>2 DEF Wal!RemoveMethod
    <2>2. CASE server.rows[m] = "default"
        <3>1. \A n \in Rows : server.rows'[n] = "absent"
            BY <1>2, <2>1, <2>2
        <3> QED
            BY <3>1
    <2>3. CASE server.rows[m] # "default"
        BY <2>1, <2>3
    <2> QED
        BY <2>2, <2>3
<1> QED
    BY <1>1, <1>2

LEMMA WalletStepKeepsOne ==
    Wal!WalletTypeOK /\ Wal!OneDefault /\ [Wal!WalletNext]_(server.rows) => Wal!OneDefault'
<1> SUFFICES ASSUME Wal!WalletTypeOK, Wal!OneDefault, [Wal!WalletNext]_(server.rows)
             PROVE  Wal!OneDefault'
    OBVIOUS
<1>1. ASSUME NEW m \in Rows, Wal!SetDefault(m) PROVE Wal!OneDefault'
    <2>1. \A n \in Rows : server.rows'[n] = "default" <=> n = m
        BY <1>1 DEF Wal!SetDefault, Wal!Cleared
    <2> QED
        BY <2>1, <1>1 DEF Wal!OneDefault, Wal!IsDefault
<1>2. CASE UNCHANGED server.rows
    BY <1>2 DEF Wal!OneDefault, Wal!IsDefault
<1> QED
    BY <1>1, <1>2, AddKeepsOne, RemoveKeepsOne DEF Wal!WalletNext

\* A wallet that holds something has exactly one default: adding the first
\* method makes it the default, choosing one clears the others, and removing
\* the default hands it on.
THEOREM ExactlyOneDefault == Wal!WalletSpec => []Wal!OneDefault
<1>1. Wal!WalletInit => Wal!OneDefault
    BY DEF Wal!WalletInit, Wal!OneDefault, Wal!IsDefault
<1> QED
    BY <1>1, WalletStepKeepsOne, WalletTypeCorrect, PTL DEF Wal!WalletSpec

-----------------------------------------------------------------------------
(* Types.  What is sent with a save is what the form holds.                *)

FormBounded == card = "profile" => ui.form \in 0 .. MaxStamp + 1

\* The cards that no trip starts from or leads to, and what they ask for.
HomeCards == {"emails", "wallet", "activity", "password", "profile", "notifications"}
OpsAt(c) ==
    CASE c = "emails" -> {"read", "add", "remove", "primary", "resend", "private", "public"}
      [] c = "wallet" -> {"read", "add", "default", "remove"}
      [] c = "activity" -> {"read", "yes", "no"}
      [] c = "password" -> {"read", "change"}
      [] c = "profile" -> {"read", "save"}
      [] c = "notifications" -> {"read", "count", "markRead", "markAll"}

\* They are never left.
AtHome ==
    card \in HomeCards =>
        trip.place = "page" /\ trip.made = 0 /\ \A f \in flight : f.op \in OpsAt(card)

ScreenTyped == ScreenTypeOK /\ FormBounded /\ AtHome

Marks == {"adding", "saving", "making", "changing", "pending",
          "login", "signUp", "forgot", "recovering", "counted"}

LEMMA UITyped ==
    ASSUME ScreenTyped
    PROVE  /\ ui \in UI /\ ui.held \in Held /\ ui.busy \in RowOrNone /\ ui.marks \subseteq Marks
           /\ ui.dialog \in [action : Dialogs, row : RowOrNone]
           /\ ui.dialog.action \in Dialogs /\ ui.dialog.row \in RowOrNone
           /\ ui.codes \in 0 .. MaxStamp /\ ui.form \in Nat
BY DEF ScreenTyped, ScreenTypeOK, UI, Marks

LEMMA RequestTyped ==
    ASSUME ScreenTyped, NEW f \in flight
    PROVE  /\ f \in Request /\ f.op \in Ops /\ f.row \in RowOrNone /\ f.got \in Held
           /\ f.waits \in BOOLEAN /\ f.content \in 0 .. MaxStamp + 1
BY DEF ScreenTyped, ScreenTypeOK, Request

LEMMA HeldTyped ==
    ASSUME NEW h \in Held
    PROVE  h.rows \in [Rows -> Statuses] /\ h.aside \in 0 .. MaxStamp /\ h.stamp \in 0 .. MaxStamp
BY DEF Held

LEMMA BlankTyped == Blank \in Held
BY ScreenAssumption DEF Blank, Held, Statuses

LEMMA AsksTyped ==
    ASSUME NEW id \in Nat, NEW op \in Ops, NEW row \in RowOrNone,
           NEW content \in 0 .. MaxStamp + 1
    PROVE  Asks(id, op, row, content) \in Request
BY BlankTyped DEF Asks, Request

\* A page that only redraws, and does not fill in a form.
LEMMA ShowsTyped ==
    ASSUME ScreenTyped, NEW next \in UI, Shows(next),
           card = "profile" => next.form = ui.form
    PROVE  ScreenTyped'
BY DEF ScreenTyped, ScreenTypeOK, FormBounded, AtHome, Shows

LEMMA PressesTyped ==
    ASSUME ScreenTyped, NEW op \in Ops, NEW row \in RowOrNone, NEW next \in UI,
           Presses(op, row, next), card = "profile" => next.form = ui.form,
           card \in HomeCards => op \in OpsAt(card)
    PROVE  ScreenTyped'
<1>1. Asks(sent + 1, op, row, 0) \in Request /\ sent' \in Nat
    <2>1. sent \in Nat /\ 0 \in 0 .. MaxStamp + 1 /\ sent' = sent + 1
        BY ScreenAssumption DEF ScreenTyped, ScreenTypeOK, Presses, SendsWith
    <2> QED
        BY <2>1, AsksTyped
<1>2. Asks(sent + 1, op, row, 0).op = op
    BY DEF Asks
<1>3. AtHome'
    BY <1>2 DEF ScreenTyped, AtHome, Presses, SendsWith
<1> QED
    BY <1>1, <1>3 DEF ScreenTyped, ScreenTypeOK, FormBounded, Presses, SendsWith

LEMMA HandlesTyped ==
    ASSUME ScreenTyped, NEW f \in flight, NEW allowed, NEW after, Handles(f, allowed, after),
           allowed /\ after.stamp <= MaxStamp => after \in Held
    PROVE  ScreenTyped'
<1>1. f \in Request
    BY DEF ScreenTyped, ScreenTypeOK
<1>2. [f EXCEPT !.at = "refused"] \in Request
    BY <1>1 DEF Request
<1>3. after \in Held => [f EXCEPT !.at = "answered", !.got = after] \in Request
    BY <1>1 DEF Request
<1>4. /\ [f EXCEPT !.at = "refused"].op = f.op
      /\ [f EXCEPT !.at = "answered", !.got = after].op = f.op
    BY <1>1 DEF Request
<1>5. AtHome'
    BY <1>4 DEF Handles, Becomes, ScreenTyped, AtHome
<1> QED
    BY <1>2, <1>3, <1>5 DEF Handles, Becomes, ScreenTyped, ScreenTypeOK, FormBounded

LEMMA HearsTyped ==
    ASSUME ScreenTyped, NEW f \in flight, NEW good, NEW next \in UI, Hears(f, good, next),
           card = "profile" => next.form \in 0 .. MaxStamp + 1
    PROVE  ScreenTyped'
<1>1. [f EXCEPT !.waits = FALSE] \in Request
    BY DEF ScreenTyped, ScreenTypeOK, Request
<1>2. flight' \subseteq Request
    BY <1>1 DEF Hears, Answers, Errors, ScreenTyped, ScreenTypeOK
<1>3. [f EXCEPT !.waits = FALSE].op = f.op
    BY DEF ScreenTyped, ScreenTypeOK, Request
<1>4. AtHome'
    BY <1>3 DEF Hears, Answers, Errors, ScreenTyped, AtHome
<1> QED
    BY <1>2, <1>4 DEF Hears, ScreenTyped, ScreenTypeOK, FormBounded

LEMMA ElsewhereTyped ==
    ASSUME ScreenTyped, NEW after, Elsewhere(after), after.stamp <= MaxStamp => after \in Held
    PROVE  ScreenTyped'
<1>1. after \in Held
    BY DEF Elsewhere, ScreenTyped, ScreenTypeOK, Held
<1> QED
    BY <1>1 DEF Elsewhere, ScreenTyped, ScreenTypeOK, FormBounded, AtHome

\* What the API holds after a change.
LEMMA WithTyped ==
    ASSUME ScreenTyped, NEW rows \in [Rows -> Statuses], NEW aside,
           aside \in 0 .. MaxStamp \/ aside = server.stamp + 1
    PROVE  With(rows, aside).stamp <= MaxStamp => With(rows, aside) \in Held
<1>1. server \in Held /\ server.stamp \in Nat
    BY DEF ScreenTyped, ScreenTypeOK, Held
<1>2. CASE With(rows, aside) = server
    BY <1>1, <1>2
<1>3. CASE With(rows, aside) = [rows |-> rows, aside |-> aside, stamp |-> server.stamp + 1]
    BY <1>1, <1>3, ScreenAssumption DEF Held
<1> QED
    BY <1>2, <1>3 DEF With

LEMMA PutTyped ==
    ASSUME ScreenTyped, NEW r, NEW status \in Statuses
    PROVE  Put(r, status).stamp <= MaxStamp => Put(r, status) \in Held
<1>1. [server.rows EXCEPT ![r] = status] \in [Rows -> Statuses] /\ server.aside \in 0 .. MaxStamp
    BY DEF ScreenTyped, ScreenTypeOK, Held
<1> QED
    BY <1>1, WithTyped DEF Put

LEMMA AsideTyped ==
    ASSUME ScreenTyped, NEW n, n \in 0 .. MaxStamp \/ n = server.stamp + 1
    PROVE  Aside(n).stamp <= MaxStamp => Aside(n) \in Held
<1>1. server.rows \in [Rows -> Statuses]
    BY DEF ScreenTyped, ScreenTypeOK, Held
<1> QED
    BY <1>1, WithTyped DEF Aside

LEMMA ReadsTyped ==
    ASSUME ScreenTyped, NEW f \in flight, Reads(f) PROVE ScreenTyped'
<1>1. server \in Held
    BY DEF ScreenTyped, ScreenTypeOK
<1> QED
    BY <1>1, HandlesTyped DEF Reads

LEMMA OpensTyped ==
    ASSUME ScreenTyped, NEW action \in Dialogs, NEW row \in RowOrNone, Opens(action, row)
    PROVE  ScreenTyped'
<1>1. [ui EXCEPT !.dialog = [action |-> action, row |-> row]] \in UI
    BY UITyped DEF UI
<1> QED
    BY <1>1, ShowsTyped, UITyped DEF Opens, UI

LEMMA ClosesTyped ==
    ASSUME ScreenTyped, NEW open, Closes(open) PROVE ScreenTyped'
<1>1. Nowhere \in [action : Dialogs, row : RowOrNone]
    BY DEF Nowhere, RowOrNone, Dialogs
<1>2. [ui EXCEPT !.dialog = Nowhere] \in UI
    BY <1>1, UITyped DEF UI
<1> QED
    BY <1>2, ShowsTyped, UITyped DEF Closes, UI

LEMMA SaysTyped ==
    ASSUME ScreenTyped, NEW f \in flight, NEW good \in BOOLEAN
    PROVE  Says(f, good) \in Notice
BY RequestTyped DEF Says, Notice

LEMMA ReplacedTyped ==
    ASSUME ScreenTyped, NEW f \in flight
    PROVE  /\ Replaced(f) \in UI /\ Replaced(f).form = ui.form /\ Replaced(f).held = f.got
           /\ ReplacedOnly(f) \in UI /\ ReplacedOnly(f).form = ui.form /\ ReplacedOnly(f).held = f.got
BY UITyped, RequestTyped DEF Replaced, ReplacedOnly, UI

LEMMA WithAddressesTyped ==
    ASSUME ScreenTyped, NEW f \in flight
    PROVE  WithAddresses(f) \in UI /\ WithAddresses(f).form = ui.form
<1>1. f.got.rows \in [Rows -> Statuses] /\ f.got.stamp \in 0 .. MaxStamp
    BY RequestTyped DEF Held
<1> QED
    BY <1>1, UITyped DEF WithAddresses, UI, Held

LEMMA ReadArrivesTyped ==
    ASSUME ScreenTyped, NEW f \in flight, NEW good \in BOOLEAN, ReadArrives(f, good)
    PROVE  ScreenTyped'
<1>1. /\ [ui EXCEPT !.held = f.got, !.loading = FALSE] \in UI
      /\ [ui EXCEPT !.loading = FALSE, !.failed = TRUE] \in UI
      /\ [ui EXCEPT !.held = f.got, !.loading = FALSE].form = ui.form
      /\ [ui EXCEPT !.loading = FALSE, !.failed = TRUE].form = ui.form
    BY UITyped, RequestTyped DEF UI
<1> QED
    BY <1>1, HearsTyped DEF ReadArrives, ScreenTyped, FormBounded


LEMMA EmailTyped == ASSUME ScreenTyped, EmailNext PROVE ScreenTyped'
<1>1. card = "emails" /\ server \in Held /\ server.rows \in [Rows -> Statuses]
    BY DEF EmailNext, OnPage, ScreenTyped, ScreenTypeOK, Held
<1>2. ASSUME NEW r \in Rows, NEW op \in {"primary", "resend", "remove"}, act(op, r)
      PROVE  ScreenTyped'
    <2>1. [ui EXCEPT !.busy = r] \in UI /\ r \in RowOrNone
        BY UITyped DEF UI, RowOrNone
    <2> QED
        BY <1>1, <1>2, <2>1, PressesTyped DEF act, Ops, OpsAt
<1>3. ASSUME NEW r \in Rows, addsEmail(r) PROVE ScreenTyped'
    <2>1. [ui EXCEPT !.marks = @ \union {"adding"}] \in UI /\ r \in RowOrNone
        BY UITyped DEF UI, RowOrNone
    <2> QED
        BY <1>1, <1>3, <2>1, PressesTyped DEF addsEmail, Ops, OpsAt
<1>4. ASSUME NEW r \in Rows, VerifyEmail(r) PROVE ScreenTyped'
    <2>1. PICK s \in {"verified", "primary"} : Elsewhere(Put(r, s))
        BY <1>4 DEF VerifyEmail
    <2>2. s \in Statuses
        BY DEF Statuses
    <2> QED
        BY <2>1, <2>2, PutTyped, ElsewhereTyped
<1>5. ASSUME NEW op \in {"private", "public"}, setPrivacy(op) PROVE ScreenTyped'
    <2>1. [ui EXCEPT !.marks = @ \union {"saving"}] \in UI /\ None \in RowOrNone
        BY UITyped DEF UI, RowOrNone
    <2> QED
        BY <1>1, <1>5, <2>1, PressesTyped DEF setPrivacy, Ops, OpsAt
<1>6. ASSUME NEW f \in flight, Handles(f, EmailAllowed(f.op, f.row), EmailAfter(f.op, f.row))
      PROVE  ScreenTyped'
    <2>1. ASSUME EmailAllowed(f.op, f.row), EmailAfter(f.op, f.row).stamp <= MaxStamp
          PROVE  EmailAfter(f.op, f.row) \in Held
        <3>1. CASE f.op \in {"add", "remove"}
            BY <2>1, <3>1, PutTyped DEF EmailAfter, Statuses
        <3>2. CASE f.op = "primary"
            <4>1. [q \in Rows |-> IF q = f.row THEN "primary" ELSE Demoted(server.rows[q])]
                    \in [Rows -> Statuses]
                BY <1>1 DEF Demoted, Statuses
            <4>2. server.aside \in 0 .. MaxStamp
                BY <1>1, HeldTyped
            <4> QED
                BY <2>1, <3>2, <4>1, <4>2, WithTyped DEF EmailAfter
        <3>3. CASE f.op = "resend"
            BY <1>1, <3>3 DEF EmailAfter
        <3>4. CASE f.op \in {"private", "public"}
            BY <2>1, <3>4, AsideTyped, ScreenAssumption DEF EmailAfter
        <3> QED
            BY <2>1, <3>1, <3>2, <3>3, <3>4 DEF EmailAllowed
    <2> QED
        BY <1>6, <2>1, HandlesTyped
<1>7. ASSUME NEW f \in flight, NEW good \in BOOLEAN, useEmails(f, good) PROVE ScreenTyped'
    <2>1. PICK u \in UI : u = IF good THEN Replaced(f) ELSE ui
        BY ReplacedTyped, UITyped
    <2>6. PICK v \in UI : v = IF good THEN WithAddresses(f) ELSE ui
        BY WithAddressesTyped, UITyped
    <2>2. Says(f, good) \in Notice /\ None \in RowOrNone
        BY SaysTyped DEF RowOrNone
    <2>3. /\ [v EXCEPT !.busy = None, !.notice = Says(f, good)] \in UI
          /\ [v EXCEPT !.marks = @ \ {"adding"}, !.notice = Says(f, good)] \in UI
          /\ [u EXCEPT !.marks = @ \ {"saving"}, !.notice = Says(f, good)] \in UI
        BY <2>2 DEF UI
    <2>4. CASE ReadArrives(f, good)
        BY <2>4, ReadArrivesTyped
    <2>5. CASE acted(f, good) \/ added(f, good) \/ privacySaved(f, good)
        BY <1>1, <2>1, <2>3, <2>5, <2>6, HearsTyped DEF acted, added, privacySaved
    <2> QED
        BY <1>7, <2>4, <2>5 DEF useEmails
<1> QED
    BY <1>2, <1>3, <1>4, <1>5, <1>6, <1>7, ReadsTyped DEF EmailNext

LEMMA WalletTyped == ASSUME ScreenTyped, WalletCardNext PROVE ScreenTyped'
<1>1. card = "wallet" /\ server \in Held /\ server.rows \in [Rows -> Statuses]
    BY DEF WalletCardNext, OnPage, ScreenTyped, ScreenTypeOK, Held
<1>2. ASSUME NEW r \in Rows, NEW op \in {"default", "remove"}, actOnMethod(op, r)
      PROVE  ScreenTyped'
    <2>1. [ui EXCEPT !.busy = r] \in UI /\ r \in RowOrNone
        BY UITyped DEF UI, RowOrNone
    <2> QED
        BY <1>1, <1>2, <2>1, PressesTyped DEF actOnMethod, Ops, OpsAt
<1>3. ASSUME NEW kind \in AddButton, setAdding(kind) PROVE ScreenTyped'
    <2>1. kind \in Dialogs /\ None \in RowOrNone
        BY DEF AddButton, RowOrNone, Dialogs
    <2> QED
        BY <1>3, <2>1, OpensTyped DEF setAdding
<1>4. ASSUME closeAdding PROVE ScreenTyped'
    BY <1>4, ClosesTyped DEF closeAdding
<1>5. ASSUME NEW r \in Rows, submitCard(r) \/ submitAccount(r) PROVE ScreenTyped'
    <2>1. [ui EXCEPT !.marks = @ \union {"adding"}] \in UI /\ r \in RowOrNone
        BY UITyped DEF UI, RowOrNone
    <2> QED
        BY <1>1, <1>5, <2>1, PressesTyped DEF submitCard, submitAccount, Ops, OpsAt
<1>6. ASSUME NEW f \in flight, Looks(f) PROVE ScreenTyped'
    <2>1. [f EXCEPT !.at = "looked", !.got = server] \in Request
        BY <1>1 DEF ScreenTyped, ScreenTypeOK, Request
    <2>2. [f EXCEPT !.at = "looked", !.got = server].op = f.op
        BY DEF ScreenTyped, ScreenTypeOK, Request
    <2> QED
        BY <1>6, <2>1, <2>2 DEF Looks, ScreenTyped, ScreenTypeOK, FormBounded, AtHome
<1>7. ASSUME NEW f \in flight, Commits(f) PROVE ScreenTyped'
    <2>1. server.aside \in 0 .. MaxStamp
        BY <1>1, HeldTyped
    <2>2. CASE Handles(f, WalletAllowed("add", f.row), AddCreditCard(f))
        <3>1. PICK s \in {"default", "held"} : AddCreditCard(f) = Put(f.row, s)
            BY DEF AddCreditCard
        <3>2. s \in Statuses
            BY DEF Statuses
        <3> QED
            BY <2>2, <3>1, <3>2, PutTyped, HandlesTyped
    <2>3. CASE Handles(f, WalletAllowed("default", f.row), SetDefaultPaymentMethod(f))
        <3>1. [q \in Rows |-> IF q = f.row THEN "default"
                              ELSE IF f.got.rows[q] = "default" THEN Wal!Cleared(server.rows, q)
                              ELSE server.rows[q]] \in [Rows -> Statuses]
            BY <1>1 DEF Wal!Cleared, Statuses
        <3> QED
            BY <2>1, <2>3, <3>1, WithTyped, HandlesTyped DEF SetDefaultPaymentMethod
    <2>4. ASSUME NEW oldest,
                 Handles(f, WalletAllowed("remove", f.row), RemovePaymentMethod(f, oldest))
          PROVE  ScreenTyped'
        <3>1. [server.rows EXCEPT ![oldest] = IF server.rows[f.row] = "default" THEN "default" ELSE @,
                                  ![f.row] = "absent"] \in [Rows -> Statuses]
            BY <1>1 DEF Statuses
        <3> QED
            BY <2>1, <2>4, <3>1, WithTyped, HandlesTyped DEF RemovePaymentMethod
    <2> QED
        BY <1>7, <2>2, <2>3, <2>4 DEF Commits
<1>8. ASSUME NEW f \in flight, NEW good \in BOOLEAN, useWallet(f, good) PROVE ScreenTyped'
    <2>1. PICK u \in UI : u = IF good THEN Replaced(f) ELSE ui
        BY ReplacedTyped, UITyped
    <2>2. /\ Says(f, good) \in Notice
          /\ Says(f, TRUE) \in Notice
          /\ None \in RowOrNone /\ Nowhere \in [action : Dialogs, row : RowOrNone]
        BY SaysTyped DEF RowOrNone, Nowhere, Dialogs
    <2>3. /\ [u EXCEPT !.busy = None, !.notice = Says(f, good)] \in UI
          /\ [Replaced(f) EXCEPT !.marks = @ \ {"adding"}, !.dialog = Nowhere,
                                 !.notice = Says(f, TRUE)] \in UI
          /\ [ui EXCEPT !.marks = @ \ {"adding"}] \in UI
        BY <2>2, ReplacedTyped, UITyped DEF UI
    <2>4. CASE ReadArrives(f, good)
        BY <2>4, ReadArrivesTyped
    <2>5. CASE walletActed(f, good)
        BY <1>1, <2>1, <2>3, <2>5, HearsTyped DEF walletActed
    <2>6. CASE saved(f, good)
        BY <1>1, <2>3, <2>6, HearsTyped DEF saved
    <2> QED
        BY <1>8, <2>4, <2>5, <2>6 DEF useWallet
<1> QED
    BY <1>2, <1>3, <1>4, <1>5, <1>6, <1>7, <1>8, ReadsTyped, ScreenAssumption DEF WalletCardNext

\* A change that was seen to have a stamp left.
LEMMA WithStamp ==
    ASSUME ScreenTyped, server.stamp < MaxStamp, NEW rows, NEW aside
    PROVE  With(rows, aside).stamp <= MaxStamp
<1>1. server.stamp \in 0 .. MaxStamp /\ MaxStamp \in Nat
    BY ScreenAssumption DEF ScreenTyped, ScreenTypeOK, Held
<1>2. With(rows, aside).stamp \in {server.stamp, server.stamp + 1}
    BY DEF With
<1> QED
    BY <1>1, <1>2

LEMMA TripTyped ==
    ASSUME ScreenTyped
    PROVE  /\ trip \in Trip /\ trip.markers \in [Kinds -> RowOrNone] /\ trip.about \in RowOrNone
           /\ trip.made \in 0 .. MaxTrips /\ trip.clean \in BOOLEAN
           /\ trip.want \in Kinds /\ trip.claimed \in Kinds /\ trip.kept \in BOOLEAN
BY DEF ScreenTyped, ScreenTypeOK, Trip

LEMMA MarkedTyped ==
    ASSUME ScreenTyped, NEW kind \in Kinds, NEW row \in RowOrNone
    PROVE  Marked(kind, row) \in [Kinds -> RowOrNone]
BY TripTyped DEF Marked

LEMMA StartRedirectTyped ==
    ASSUME ScreenTyped, NEW kind \in Kinds, NEW row \in RowOrNone, startRedirect(kind, row),
           card \notin HomeCards
    PROVE  ScreenTyped'
<1>1. trip' \in Trip
    <2>1. /\ trip.made + 1 \in 0 .. MaxTrips
          /\ trip' = [trip EXCEPT !.place = "provider", !.want = kind, !.about = row,
                                  !.markers = Marked(kind, row), !.kept = TRUE, !.made = @ + 1]
        BY TripTyped, ScreenAssumption DEF startRedirect
    <2> QED
        BY <2>1, TripTyped, MarkedTyped DEF Trip
<1>2. \A f \in flight : [f EXCEPT !.waits = FALSE] \in Request
    BY DEF ScreenTyped, ScreenTypeOK, Request
<1> QED
    BY <1>1, <1>2 DEF startRedirect, Deserted, ScreenTyped, ScreenTypeOK, FormBounded, AtHome, HomeCards

LEMMA CannotStartTyped ==
    ASSUME ScreenTyped, NEW kind \in Kinds, NEW row \in RowOrNone, NEW next \in UI,
           CannotStart(kind, row, next), card \notin HomeCards
    PROVE  ScreenTyped'
<1>1. trip' \in Trip
    <2>1. /\ trip.made + 1 \in 0 .. MaxTrips /\ (trip.clean /\ kind = "login") \in BOOLEAN
          /\ trip' = [trip EXCEPT !.markers = Marked(kind, row), !.made = @ + 1,
                                  !.clean = trip.clean /\ kind = "login"]
        BY TripTyped, ScreenAssumption DEF CannotStart
    <2> QED
        BY <2>1, TripTyped, MarkedTyped DEF Trip
<1> QED
    BY <1>1 DEF CannotStart, ScreenTyped, ScreenTypeOK, FormBounded, AtHome, HomeCards

\* What most answers do: a mark goes, a dialog closes, something is said.
LEMMA AnswersTyped ==
    ASSUME ScreenTyped, NEW f \in flight, NEW said \in Notice
    PROVE  /\ [ReplacedOnly(f) EXCEPT !.busy = None, !.dialog = Nowhere, !.notice = said] \in UI
           /\ [Replaced(f) EXCEPT !.busy = None, !.dialog = Nowhere, !.notice = said] \in UI
           /\ [ReplacedOnly(f) EXCEPT !.notice = said] \in UI
           /\ [ui EXCEPT !.busy = None, !.notice = said] \in UI
           /\ [ui EXCEPT !.notice = said] \in UI
<1>1. None \in RowOrNone /\ Nowhere \in [action : Dialogs, row : RowOrNone]
    BY DEF RowOrNone, Nowhere, Dialogs
<1> QED
    BY <1>1, UITyped, ReplacedTyped DEF UI

LEMMA SsoTyped == ASSUME ScreenTyped, SsoNext PROVE ScreenTyped'
<1>1. server \in Held /\ server.rows \in [Rows -> Statuses]
    BY DEF ScreenTyped, ScreenTypeOK, Held
<1>2. CASE LinksAtProvider
    <2>1. server' \in Held
        <3>1. "on" \in Statuses
            BY DEF Statuses
        <3>2. Put(trip.about, "on").stamp <= MaxStamp
            BY <1>2, WithStamp DEF LinksAtProvider, Put
        <3> QED
            BY <1>2, <3>1, <3>2, PutTyped DEF LinksAtProvider
    <2> QED
        BY <1>2, <2>1 DEF LinksAtProvider, ScreenTyped, ScreenTypeOK, FormBounded, AtHome
<1>3. CASE OnPage("sso")
    <2>1. card \notin HomeCards /\ card # "profile"
        BY <1>3 DEF OnPage, HomeCards
    <2>2. ASSUME NEW op \in {"connect", "disconnect"}, NEW r \in Rows, setConnection(op, r)
          PROVE  ScreenTyped'
        BY <2>2, OpensTyped DEF setConnection, RowOrNone, Dialogs
    <2>3. ASSUME closeConnection PROVE ScreenTyped'
        BY <2>3, ClosesTyped DEF closeConnection
    <2>4. ASSUME connecting PROVE ScreenTyped'
        <3>1. PICK r \in RowOrNone : r = ui.dialog.row
            BY UITyped
        <3>2. "link" \in Kinds /\ [good |-> FALSE, op |-> "connect", row |-> r] \in Notice
            BY DEF Kinds, Notice, Dialogs
        <3>3. [ui EXCEPT !.dialog = Nowhere, !.busy = None,
                         !.notice = [good |-> FALSE, op |-> "connect", row |-> r]] \in UI
            BY <3>2, UITyped DEF UI, Nowhere, RowOrNone, Dialogs
        <3> QED
            BY <2>1, <2>4, <3>1, <3>2, <3>3, StartRedirectTyped, CannotStartTyped
               DEF connecting, beginAccountLink
    <2>5. ASSUME disconnecting PROVE ScreenTyped'
        <3>1. [ui EXCEPT !.busy = ui.dialog.row] \in UI /\ ui.dialog.row \in RowOrNone
            BY UITyped DEF UI
        <3>2. "disconnect" \in Ops
            BY DEF Ops
        <3> QED
            BY <2>1, <2>5, <3>1, <3>2, PressesTyped DEF disconnecting
    <2>6. ASSUME NEW r \in Rows, NEW left \in Apart, Elsewhere(Put(r, left)) PROVE ScreenTyped'
        <3>1. left \in Statuses
            BY DEF Apart, Statuses
        <3> QED
            BY <2>6, <3>1, PutTyped, ElsewhereTyped
    <2>7. ASSUME NEW f \in flight, NEW left \in Apart,
                 Handles(f, SsoAllowed(f.op, f.row), SsoAfter(f.op, f.row, left))
          PROVE  ScreenTyped'
        <3>1. left \in Statuses
            BY DEF Apart, Statuses
        <3>2. SsoAfter(f.op, f.row, left).stamp <= MaxStamp => SsoAfter(f.op, f.row, left) \in Held
            BY <1>1, <3>1, PutTyped DEF SsoAfter
        <3> QED
            BY <2>7, <3>2, HandlesTyped
    <2>8. ASSUME NEW f \in flight, NEW good \in BOOLEAN, useSignInMethods(f, good)
          PROVE  ScreenTyped'
        <3>1. Says(f, TRUE) \in Notice /\ Says(f, FALSE) \in Notice
              /\ Says(f, f.got.rows[f.row] = "on") \in Notice
            BY SaysTyped
        <3>2. CASE ReadArrives(f, good)
            BY <3>2, ReadArrivesTyped
        <3>3. CASE disconnected(f, good)
            BY <2>1, <3>1, <3>3, AnswersTyped, HearsTyped DEF disconnected
        <3>4. CASE confirmedLink(f, good)
            BY <2>1, <3>1, <3>4, AnswersTyped, HearsTyped DEF confirmedLink
        <3> QED
            BY <2>8, <3>2, <3>3, <3>4 DEF useSignInMethods
    <2> QED
        BY <1>2, <2>2, <2>3, <2>4, <2>5, <2>6, <2>7, <2>8, ReadsTyped DEF SsoNext
<1> QED
    BY <1>2, <1>3 DEF SsoNext

LEMMA PasskeyTyped == ASSUME ScreenTyped, PasskeyNext PROVE ScreenTyped'
<1>1. /\ server \in Held /\ server.rows \in [Rows -> Statuses]
      /\ {"on", "absent"} \subseteq Statuses /\ 1 \in 0 .. MaxStamp
    BY ScreenAssumption DEF ScreenTyped, ScreenTypeOK, Held, Statuses
<1>2. ASSUME NEW r \in Rows, RegistersAtProvider(r) PROVE ScreenTyped'
    <2>1. PICK rows \in [Rows -> Statuses] : server' = With(rows, 1)
        <3>1. [server.rows EXCEPT ![r] = "on"] \in [Rows -> Statuses]
            BY <1>1
        <3> QED
            BY <1>2, <3>1 DEF RegistersAtProvider
    <2>2. server' \in Held
        BY <1>1, <1>2, <2>1, WithStamp, WithTyped DEF RegistersAtProvider
    <2> QED
        BY <1>2, <2>2 DEF RegistersAtProvider, ScreenTyped, ScreenTypeOK, FormBounded, AtHome
<1>3. CASE OnPage("passkeys")
    <2>1. card \notin HomeCards /\ card # "profile"
        BY <1>3 DEF OnPage, HomeCards
    <2>2. ASSUME NEW op \in {"addKey", "remove"}, NEW r \in Rows, setPasskeyRequest(op, r)
          PROVE  ScreenTyped'
        BY <2>2, OpensTyped DEF setPasskeyRequest, RowOrNone, Dialogs
    <2>3. ASSUME closePasskey PROVE ScreenTyped'
        BY <2>3, ClosesTyped DEF closePasskey
    <2>4. ASSUME addingAPasskey PROVE ScreenTyped'
        <3>1. /\ "passkey" \in Kinds /\ Sms \in RowOrNone
              /\ [good |-> FALSE, op |-> "addKey", row |-> None] \in Notice
            BY ScreenAssumption DEF Kinds, Notice, Dialogs, RowOrNone
        <3>2. [ui EXCEPT !.dialog = Nowhere, !.marks = @ \ {"adding"},
                         !.notice = [good |-> FALSE, op |-> "addKey", row |-> None]] \in UI
            BY <3>1, UITyped DEF UI, Nowhere, RowOrNone, Dialogs
        <3> QED
            BY <2>1, <2>4, <3>1, <3>2, StartRedirectTyped, CannotStartTyped
               DEF addingAPasskey, beginPasskeyRegistration
    <2>5. ASSUME removingPasskey PROVE ScreenTyped'
        <3>1. [ui EXCEPT !.busy = ui.dialog.row] \in UI /\ ui.dialog.row \in RowOrNone
            BY UITyped DEF UI
        <3>2. "remove" \in Ops
            BY DEF Ops
        <3> QED
            BY <2>1, <2>5, <3>1, <3>2, PressesTyped DEF removingPasskey
    <2>6. ASSUME RemovedElsewhere PROVE ScreenTyped'
        BY <1>1, <2>6, PutTyped, ElsewhereTyped DEF RemovedElsewhere
    <2>7. ASSUME NEW f \in flight, Handles(f, PasskeyAllowed(f.op, f.row), PasskeyAfter(f.op, f.row))
          PROVE  ScreenTyped'
        <3>1. PasskeyAfter(f.op, f.row).stamp <= MaxStamp => PasskeyAfter(f.op, f.row) \in Held
            BY <1>1, PutTyped DEF PasskeyAfter
        <3> QED
            BY <2>7, <3>1, HandlesTyped
    <2>8. ASSUME NEW f \in flight, NEW good \in BOOLEAN, usePasskeys(f, good)
          PROVE  ScreenTyped'
        <3>1. Says(f, TRUE) \in Notice /\ Says(f, FALSE) \in Notice
              /\ Says(f, f.got.aside = 1) \in Notice
            BY SaysTyped
        <3>2. CASE ReadArrives(f, good)
            BY <3>2, ReadArrivesTyped
        <3>3. CASE passkeyRemoved(f, good)
            BY <2>1, <3>1, <3>3, AnswersTyped, HearsTyped DEF passkeyRemoved
        <3>4. CASE passkeyConfirmed(f, good)
            BY <2>1, <3>1, <3>4, AnswersTyped, HearsTyped DEF passkeyConfirmed
        <3> QED
            BY <2>8, <3>2, <3>3, <3>4 DEF usePasskeys
    <2> QED
        BY <1>2, <2>2, <2>3, <2>4, <2>5, <2>6, <2>7, <2>8, ReadsTyped DEF PasskeyNext
<1> QED
    BY <1>2, <1>3 DEF PasskeyNext

\* A factor that is gone is off, or closed.
LEMMA LeavesTyped == ASSUME NEW r, NEW left \in Leaves(r) PROVE left \in {"off", "closed"} /\ left \in Statuses
BY DEF Leaves, Statuses

LEMMA FactorTyped == ASSUME ScreenTyped, FactorNext PROVE ScreenTyped'
<1>1. /\ server \in Held /\ server.rows \in [Rows -> Statuses] /\ server.aside \in 0 .. MaxStamp
      /\ {"on", "off"} \subseteq Statuses /\ Sms \in RowOrNone /\ None \in RowOrNone
    BY ScreenAssumption DEF ScreenTyped, ScreenTypeOK, Held, Statuses, RowOrNone
<1>2. CASE SetsUpAtProvider
    <2>1. Put(trip.about, "on").stamp <= MaxStamp
        BY <1>2, WithStamp DEF SetsUpAtProvider, Put
    <2>2. server' \in Held
        BY <1>1, <1>2, <2>1, PutTyped DEF SetsUpAtProvider
    <2> QED
        BY <1>2, <2>2 DEF SetsUpAtProvider, ScreenTyped, ScreenTypeOK, FormBounded, AtHome
<1>3. CASE OnPage("factors")
    <2>1. card \notin HomeCards /\ card # "profile"
        BY <1>3 DEF OnPage, HomeCards
    <2>2. ASSUME (\E op \in {"enable", "disable"}, r \in Rows : setFactorRequest(op, r))
                    \/ startAddingPhone
          PROVE  ScreenTyped'
        <3>1. {"enable", "disable", "number"} \subseteq Dialogs /\ Rows \subseteq RowOrNone
            BY DEF Dialogs, RowOrNone
        <3> QED
            BY <1>1, <2>2, <3>1, OpensTyped DEF setFactorRequest, startAddingPhone
    <2>3. ASSUME closeFactor PROVE ScreenTyped'
        BY <2>3, ClosesTyped DEF closeFactor
    <2>4. ASSUME backToNumber \/ closeCodes PROVE ScreenTyped'
        <3>1. /\ [ui EXCEPT !.dialog.action = "number"] \in UI
              /\ [ui EXCEPT !.codes = 0] \in UI
            BY UITyped, ScreenAssumption DEF UI, Dialogs
        <3> QED
            BY <2>1, <2>4, <3>1, ShowsTyped DEF backToNumber, closeCodes
    <2>5. ASSUME enabling PROVE ScreenTyped'
        <3>1. PICK r \in RowOrNone : r = ui.dialog.row
            BY UITyped
        <3>2. "factor" \in Kinds /\ [good |-> FALSE, op |-> "enable", row |-> r] \in Notice
            BY DEF Kinds, Notice, Dialogs
        <3>3. [ui EXCEPT !.dialog = Nowhere, !.busy = None,
                         !.notice = [good |-> FALSE, op |-> "enable", row |-> r]] \in UI
            BY <3>2, UITyped DEF UI, Nowhere, RowOrNone, Dialogs
        <3> QED
            BY <2>1, <2>5, <3>1, <3>2, <3>3, StartRedirectTyped, CannotStartTyped
               DEF enabling, beginSecondFactorSetup
    <2>6. ASSUME disabling \/ textingCode \/ confirmingCode \/ makingRecoveryCodes
          PROVE  ScreenTyped'
        <3>1. {"disable", "startSms", "confirmSms", "generate"} \subseteq Ops
            BY DEF Ops
        <3>2. /\ [ui EXCEPT !.busy = ui.dialog.row] \in UI /\ [ui EXCEPT !.busy = Sms] \in UI
              /\ [ui EXCEPT !.marks = @ \union {"making"}] \in UI /\ ui.dialog.row \in RowOrNone
            BY <1>1, UITyped DEF UI
        <3>3. CASE disabling
            BY <2>1, <3>1, <3>2, <3>3, PressesTyped DEF disabling
        <3>4. CASE textingCode \/ confirmingCode
            BY <1>1, <2>1, <3>1, <3>2, <3>4, PressesTyped DEF textingCode, confirmingCode
        <3>5. CASE makingRecoveryCodes
            BY <1>1, <2>1, <3>1, <3>2, <3>5, PressesTyped DEF makingRecoveryCodes
        <3> QED
            BY <2>6, <3>3, <3>4, <3>5
    <2>7. ASSUME RecoversElsewhere \/ MakesElsewhere PROVE ScreenTyped'
        <3>1. ASSUME NEW left \in Leaves(Sms)
              PROVE  [r \in Rows |-> IF r = Sms THEN left ELSE "off"] \in [Rows -> Statuses]
            BY <1>1, LeavesTyped
        <3>2. CASE RecoversElsewhere
            BY <1>1, <3>1, <3>2, WithTyped, ElsewhereTyped DEF RecoversElsewhere
        <3>3. CASE MakesElsewhere
            BY <3>3, AsideTyped, ElsewhereTyped DEF MakesElsewhere
        <3> QED
            BY <2>7, <3>2, <3>3
    <2>8. ASSUME NEW f \in flight, NEW right, NEW left \in Leaves(f.row),
                 Handles(f, FactorAllowed(f.op, f.row, right), FactorAfter(f.op, f.row, left))
          PROVE  ScreenTyped'
        <3>1. FactorAfter(f.op, f.row, left).stamp <= MaxStamp
                  => FactorAfter(f.op, f.row, left) \in Held
            <4>1. CASE f.op = "disable"
                BY <4>1, LeavesTyped, PutTyped DEF FactorAfter
            <4>2. CASE f.op = "confirmSms"
                BY <1>1, <4>2, PutTyped DEF FactorAfter
            <4>3. CASE f.op = "generate"
                BY <4>3, AsideTyped DEF FactorAfter
            <4> QED
                BY <1>1, <4>1, <4>2, <4>3 DEF FactorAfter
        <3> QED
            BY <2>8, <3>1, HandlesTyped
    <2>9. ASSUME NEW f \in flight, NEW good \in BOOLEAN, useTwoFactor(f, good)
          PROVE  ScreenTyped'
        <3>1. Says(f, TRUE) \in Notice /\ Says(f, FALSE) \in Notice
              /\ Says(f, f.got.rows[f.row] = "on") \in Notice
            BY SaysTyped
        <3>2. /\ f.got.rows \in [Rows -> Statuses] /\ f.got.stamp \in 0 .. MaxStamp
              /\ f.got.aside \in 0 .. MaxStamp
            BY RequestTyped, HeldTyped
        <3>3. RowsOf(f) \in UI
            BY <3>2, UITyped DEF RowsOf, UI, Held
        <3>4. Nowhere \in [action : Dialogs, row : RowOrNone] /\ "code" \in Dialogs
            BY DEF RowOrNone, Nowhere, Dialogs
        <3>5. CASE ReadArrives(f, good)
            BY <3>5, ReadArrivesTyped
        <3>6. CASE disabled(f, good) \/ smsConfirmed(f, good) \/ factorConfirmed(f, good)
            <4>1. /\ [RowsOf(f) EXCEPT !.busy = None, !.dialog = Nowhere,
                                       !.notice = Says(f, TRUE)] \in UI
                  /\ [RowsOf(f) EXCEPT !.notice = Says(f, f.got.rows[f.row] = "on")] \in UI
                  /\ [ui EXCEPT !.busy = None] \in UI
                BY <1>1, <3>1, <3>3, <3>4, UITyped DEF UI
            <4>2. CASE disabled(f, good)
                BY <2>1, <3>1, <4>1, <4>2, AnswersTyped, HearsTyped DEF disabled
            <4>3. CASE smsConfirmed(f, good)
                BY <2>1, <4>1, <4>3, HearsTyped DEF smsConfirmed
            <4>4. CASE factorConfirmed(f, good)
                BY <2>1, <3>1, <4>1, <4>4, AnswersTyped, HearsTyped DEF factorConfirmed
            <4> QED
                BY <3>6, <4>2, <4>3, <4>4
        <3>7. CASE texted(f, good)
            <4>1. /\ [ui EXCEPT !.busy = None, !.dialog.action = "code"] \in UI
                  /\ [ui EXCEPT !.busy = None] \in UI
                BY <1>1, <3>4, UITyped DEF UI
            <4> QED
                BY <2>1, <3>7, <4>1, HearsTyped DEF texted
        <3>8. CASE codesMade(f, good)
            <4>1. /\ [ui EXCEPT !.held.aside = f.got.aside, !.codes = f.got.aside,
                                !.marks = @ \ {"making"}] \in UI
                  /\ [ui EXCEPT !.marks = @ \ {"making"}, !.notice = Says(f, FALSE)] \in UI
                BY <3>1, <3>2, UITyped DEF UI, Held
            <4> QED
                BY <2>1, <3>8, <4>1, HearsTyped DEF codesMade
        <3> QED
            BY <2>9, <3>5, <3>6, <3>7, <3>8 DEF useTwoFactor
    <2> QED
        BY <1>2, <2>2, <2>3, <2>4, <2>5, <2>6, <2>7, <2>8, <2>9, ReadsTyped DEF FactorNext
<1> QED
    BY <1>2, <1>3 DEF FactorNext

LEMMA ActivityTyped == ASSUME ScreenTyped, ActivityNext PROVE ScreenTyped'
<1>1. /\ server \in Held /\ server.rows \in [Rows -> Statuses] /\ server.aside \in 0 .. MaxStamp
      /\ {"new", "yes", "no"} \subseteq Statuses /\ card = "activity"
    BY DEF ScreenTyped, ScreenTypeOK, Held, Statuses, ActivityNext, OnPage
<1>2. ASSUME NEW r \in Rows, setViewing(r) PROVE ScreenTyped'
    <2>1. "event" \in Dialogs /\ r \in RowOrNone
        BY DEF Dialogs, RowOrNone
    <2> QED
        BY <1>2, <2>1, OpensTyped DEF setViewing
<1>3. ASSUME closeViewing PROVE ScreenTyped'
    BY <1>3, ClosesTyped DEF closeViewing
<1>4. ASSUME NEW op \in {"yes", "no"}, onAnswer(op) PROVE ScreenTyped'
    <2>1. [ui EXCEPT !.busy = ui.dialog.row] \in UI /\ ui.dialog.row \in RowOrNone /\ op \in Ops
        BY UITyped DEF UI, Ops
    <2> QED
        BY <1>1, <1>4, <2>1, PressesTyped DEF onAnswer, OpsAt
<1>5. ASSUME NEW r \in Rows, Elsewhere(Put(r, "new")) PROVE ScreenTyped'
    BY <1>1, <1>5, PutTyped, ElsewhereTyped
<1>6. ASSUME NEW f \in flight, NEW new, f.op # "read",
             Handles(f, ReviewAllowed(f.row), ReviewSecurityEvent(f.op, f.row, new))
      PROVE  ScreenTyped'
    <2>1. CASE f.op \in {"yes", "no"}
        <3>1. [server.rows EXCEPT ![f.row] = f.op,
                  ![new] = IF f.op = "no" /\ new # f.row THEN "new" ELSE @] \in [Rows -> Statuses]
            BY <1>1, <2>1
        <3> QED
            BY <1>1, <1>6, <3>1, WithTyped, HandlesTyped DEF ReviewSecurityEvent
    <2>2. f.op \in {"read", "yes", "no"}
        BY <1>1 DEF ScreenTyped, AtHome, HomeCards, OpsAt
    <2> QED
        BY <1>6, <2>1, <2>2
<1>7. ASSUME NEW f \in flight, NEW good \in BOOLEAN, useSecurityActivity(f, good)
      PROVE  ScreenTyped'
    <2>1. Says(f, TRUE) \in Notice /\ Says(f, FALSE) \in Notice
        BY SaysTyped
    <2>2. CASE ReadArrives(f, good)
        BY <2>2, ReadArrivesTyped
    <2>3. CASE answered(f, good)
        BY <1>1, <2>1, <2>3, AnswersTyped, HearsTyped DEF answered
    <2> QED
        BY <1>7, <2>2, <2>3 DEF useSecurityActivity
<1> QED
    BY <1>2, <1>3, <1>4, <1>5, <1>6, <1>7, ReadsTyped DEF ActivityNext


LEMMA PasswordTyped == ASSUME ScreenTyped, PasswordNext PROVE ScreenTyped'
<1>1. card = "password" /\ None \in RowOrNone
    BY DEF PasswordNext, OnPage, RowOrNone
<1>2. CASE fillsPassword
    <2>1. [ui EXCEPT !.form = 1] \in UI
        BY UITyped DEF UI
    <2> QED
        BY <1>1, <1>2, <2>1, ShowsTyped DEF fillsPassword
<1>3. CASE changing
    <2>1. [ui EXCEPT !.marks = @ \union {"changing"}] \in UI /\ "change" \in Ops
        BY UITyped DEF UI, Ops
    <2> QED
        BY <1>1, <1>3, <2>1, PressesTyped DEF changing, OpsAt
<1>4. ASSUME NEW f \in flight, NEW right, Handles(f, right, PasswordAfter) PROVE ScreenTyped'
    BY <1>4, AsideTyped, HandlesTyped DEF PasswordAfter
<1>5. ASSUME NEW f \in flight, NEW good \in BOOLEAN, usePassword(f, good) PROVE ScreenTyped'
    <2>1. Says(f, TRUE) \in Notice /\ Says(f, FALSE) \in Notice
        BY SaysTyped
    <2>2. /\ [ReplacedOnly(f) EXCEPT !.loading = FALSE] \in UI
          /\ [ui EXCEPT !.loading = FALSE] \in UI
          /\ [ReplacedOnly(f) EXCEPT !.marks = @ \ {"changing"}, !.form = 0,
                                     !.notice = Says(f, TRUE)] \in UI
          /\ [ui EXCEPT !.marks = @ \ {"changing"}, !.notice = Says(f, FALSE)] \in UI
        BY <2>1, ReplacedTyped, UITyped DEF UI
    <2>3. CASE passwordRead(f, good)
        BY <1>1, <2>2, <2>3, HearsTyped DEF passwordRead
    <2>4. CASE changed(f, good)
        BY <1>1, <2>2, <2>4, HearsTyped DEF changed
    <2> QED
        BY <1>5, <2>3, <2>4 DEF usePassword
<1> QED
    BY <1>2, <1>3, <1>4, <1>5, ReadsTyped DEF PasswordNext

\* Filling in the form keeps what it may hold.
LEMMA SeedingTyped ==
    ASSUME ScreenTyped, NEW next \in UI, card = "profile", next.form = ui.form
    PROVE  Seeding(next) \in UI /\ Seeding(next).form \in 0 .. MaxStamp + 1
<1>1. next.held.aside \in 0 .. MaxStamp
    BY DEF UI, Held
<1>2. next.held.aside + 1 \in 0 .. MaxStamp + 1
    BY <1>1, ScreenAssumption
<1>3. ui.form \in 0 .. MaxStamp + 1
    BY DEF ScreenTyped, FormBounded
<1>4. [next EXCEPT !.form = seed(next.held.aside)] \in UI
    BY <1>2 DEF UI, seed
<1>5. [next EXCEPT !.form = seed(next.held.aside)].form = next.held.aside + 1
    BY DEF UI, seed
<1> QED
    BY <1>2, <1>3, <1>4, <1>5 DEF Seeding

LEMMA ProfileTyped == ASSUME ScreenTyped, ProfileNext PROVE ScreenTyped'
<1>1. card = "profile" /\ None \in RowOrNone /\ ui.form \in 0 .. MaxStamp + 1
    BY DEF ProfileNext, OnPage, RowOrNone, ScreenTyped, FormBounded
<1>2. CASE submitProfile
    <2>1. [ui EXCEPT !.marks = @ \union {"saving"}] \in UI /\ "save" \in Ops
          /\ [ui EXCEPT !.marks = @ \union {"saving"}].form = ui.form
        BY UITyped DEF UI, Ops
    <2>2. Asks(sent + 1, "save", None, ui.form) \in Request /\ sent' \in Nat
        <3>1. sent \in Nat /\ sent' = sent + 1
            BY <1>2 DEF ScreenTyped, ScreenTypeOK, submitProfile, SendsWith
        <3> QED
            BY <1>1, <2>1, <3>1, AsksTyped
    <2>3. Asks(sent + 1, "save", None, ui.form).op = "save"
        BY DEF Asks
    <2>4. AtHome'
        BY <1>1, <1>2, <2>3 DEF submitProfile, SendsWith, ScreenTyped, AtHome, OpsAt
    <2> QED
        BY <1>2, <2>1, <2>2, <2>4 DEF submitProfile, SendsWith, ScreenTyped, ScreenTypeOK, FormBounded
<1>3. CASE Elsewhere(Aside(server.stamp + 1))
    BY <1>3, AsideTyped, ElsewhereTyped
<1>4. ASSUME NEW f \in flight, Handles(f, TRUE, SetUserProfile(f)) PROVE ScreenTyped'
    <2>1. 0 \in 0 .. MaxStamp
        BY ScreenAssumption
    <2> QED
        BY <1>4, <2>1, AsideTyped, HandlesTyped DEF SetUserProfile
<1>5. ASSUME NEW f \in flight, NEW good \in BOOLEAN, ProfileProvider(f, good) PROVE ScreenTyped'
    <2>1. Says(f, TRUE) \in Notice /\ Says(f, FALSE) \in Notice
        BY SaysTyped
    <2>2. /\ [ReplacedOnly(f) EXCEPT !.loading = FALSE] \in UI
          /\ [ReplacedOnly(f) EXCEPT !.loading = FALSE].form = ui.form
          /\ [Replaced(f) EXCEPT !.marks = @ \ {"saving"}, !.notice = Says(f, TRUE)] \in UI
          /\ [Replaced(f) EXCEPT !.marks = @ \ {"saving"}, !.notice = Says(f, TRUE)].form = ui.form
        BY <2>1, ReplacedTyped, UITyped DEF UI
    <2>3. /\ [ui EXCEPT !.loading = FALSE, !.failed = TRUE] \in UI
          /\ [ui EXCEPT !.loading = FALSE, !.failed = TRUE].form = ui.form
          /\ [ui EXCEPT !.marks = @ \ {"saving"}, !.notice = Says(f, FALSE)] \in UI
          /\ [ui EXCEPT !.marks = @ \ {"saving"}, !.notice = Says(f, FALSE)].form = ui.form
        BY <2>1, UITyped DEF UI
    <2>4. CASE profileRead(f, good)
        BY <1>1, <2>2, <2>3, <2>4, SeedingTyped, HearsTyped DEF profileRead
    <2>5. CASE profileSaved(f, good)
        BY <1>1, <2>2, <2>3, <2>5, SeedingTyped, HearsTyped DEF profileSaved
    <2> QED
        BY <1>5, <2>4, <2>5 DEF ProfileProvider
<1> QED
    BY <1>2, <1>3, <1>4, <1>5, ReadsTyped DEF ProfileNext

\* Reading a list again asks for at most two things, each under a new number.
LEMMA RefetchedTyped ==
    ASSUME ScreenTyped
    PROVE  /\ Refetched \subseteq {"read", "count"} /\ Cardinality(Refetched) \in Nat
           /\ \A op \in Refetched : Ids(Refetched)[op] \in Nat
<1>1. Refetched \subseteq {"read", "count"}
    BY DEF Refetched, Refetch
<1>2. IsFiniteSet(Refetched)
    <2>1. IsFiniteSet({"read", "count"})
        <3>1. IsFiniteSet({"read"}) /\ IsFiniteSet({"count"})
            BY FS_Singleton
        <3>2. IsFiniteSet({"read"} \union {"count"})
            BY <3>1, FS_Union
        <3>3. {"read", "count"} = {"read"} \union {"count"}
            OBVIOUS
        <3> QED
            BY <3>2, <3>3
    <2> QED
        BY <1>1, <2>1, FS_Subset
<1>3. sent + 1 \in Nat /\ sent + 2 \in Nat
    BY DEF ScreenTyped, ScreenTypeOK
<1> QED
    BY <1>1, <1>2, <1>3, FS_CardinalityType DEF Ids

LEMMA InvalidateTyped ==
    ASSUME ScreenTyped, card = "notifications", NEW f \in flight, NEW next \in UI,
           invalidateQueries(f, next)
    PROVE  ScreenTyped'
<1>1. \A op \in Refetched : /\ Asks(Ids(Refetched)[op], op, None, 0) \in Request
                            /\ Asks(Ids(Refetched)[op], op, None, 0).op \in OpsAt("notifications")
    <2>1. ASSUME NEW op \in Refetched
          PROVE  op \in Ops /\ None \in RowOrNone /\ 0 \in 0 .. MaxStamp + 1
                 /\ op \in OpsAt("notifications")
        BY RefetchedTyped, ScreenAssumption DEF Ops, RowOrNone, OpsAt
    <2>2. ASSUME NEW op \in Refetched PROVE Asks(Ids(Refetched)[op], op, None, 0) \in Request
        BY <2>1, RefetchedTyped, AsksTyped
    <2> QED
        BY <2>1, <2>2 DEF Asks
<1>2. \A g \in flight : /\ g \in Request /\ [g EXCEPT !.waits = FALSE] \in Request
                        /\ g.op \in OpsAt("notifications")
                        /\ [g EXCEPT !.waits = FALSE].op = g.op
    BY DEF ScreenTyped, ScreenTypeOK, AtHome, HomeCards, Request
<1>3. flight' \subseteq Request /\ \A g \in flight' : g.op \in OpsAt("notifications")
    BY <1>1, <1>2 DEF invalidateQueries
<1>4. sent' \in Nat
    BY RefetchedTyped DEF invalidateQueries, ScreenTyped, ScreenTypeOK
<1> QED
    BY <1>3, <1>4 DEF invalidateQueries, ScreenTyped, ScreenTypeOK, FormBounded, AtHome

LEMMA NotificationsTyped == ASSUME ScreenTyped, NotificationsNext PROVE ScreenTyped'
<1>1. /\ card = "notifications" /\ None \in RowOrNone /\ Rows \subseteq RowOrNone
      /\ server \in Held /\ server.rows \in [Rows -> Statuses] /\ server.aside \in 0 .. MaxStamp
      /\ {"read", "unread"} \subseteq Statuses
    BY DEF NotificationsNext, OnPage, RowOrNone, ScreenTyped, ScreenTypeOK, Held, Statuses
<1>2. CASE useMarkAllNotificationsRead
    <2>1. [ui EXCEPT !.marks = @ \union {"saving"}] \in UI /\ "markAll" \in Ops
        BY UITyped DEF UI, Ops
    <2> QED
        BY <1>1, <1>2, <2>1, PressesTyped DEF useMarkAllNotificationsRead, OpsAt
<1>3. ASSUME NEW r \in Rows, useMarkNotificationRead(r) PROVE ScreenTyped'
    <2>1. [ui EXCEPT !.marks = @ \union {"pending"}] \in UI /\ "markRead" \in Ops
        BY UITyped DEF UI, Ops
    <2> QED
        BY <1>1, <1>3, <2>1, PressesTyped DEF useMarkNotificationRead, OpsAt
<1>4. ASSUME NEW r \in Rows, Notified(r) PROVE ScreenTyped'
    BY <1>1, <1>4, PutTyped, ElsewhereTyped DEF Notified
<1>5. ASSUME NEW f \in flight, AtTheApi(f) PROVE ScreenTyped'
    <2>1. Counted \in Held
        <3>1. Count(server.rows) \in 0 .. MaxStamp
            BY ScreenAssumption DEF Count
        <3> QED
            BY <1>1, <3>1 DEF Counted, Held
    <2>2. /\ [f EXCEPT !.at = "answered", !.got = Counted] \in Request
          /\ [f EXCEPT !.at = "answered", !.got = Counted].op = f.op
        BY <2>1, RequestTyped DEF Request
    <2>3. CASE Becomes(f, [f EXCEPT !.at = "answered", !.got = Counted])
                 /\ UNCHANGED <<card, server, ui, trip, sent, disturbed>>
        BY <2>2, <2>3 DEF Becomes, ScreenTyped, ScreenTypeOK, FormBounded, AtHome
    <2>4. CASE Handles(f, NotifyAllowed(f), MarkNotificationRead(f.row))
        BY <1>1, <2>4, PutTyped, HandlesTyped DEF MarkNotificationRead
    <2>5. CASE Handles(f, TRUE, MarkAllNotificationsRead)
        <3>1. [r \in Rows |-> IF server.rows[r] = "unread" THEN "read" ELSE server.rows[r]]
                \in [Rows -> Statuses]
            BY <1>1
        <3> QED
            BY <1>1, <2>5, <3>1, WithTyped, HandlesTyped DEF MarkAllNotificationsRead
    <2> QED
        BY <1>5, <2>3, <2>4, <2>5 DEF AtTheApi
<1>6. ASSUME NEW f \in flight, NEW good \in BOOLEAN, useNotifications(f, good) PROVE ScreenTyped'
    <2>1. /\ f.got.rows \in [Rows -> Statuses] /\ f.got.stamp \in 0 .. MaxStamp
          /\ f.got.aside \in 0 .. MaxStamp
        BY RequestTyped, HeldTyped
    <2>2. CASE listed(f, good)
        <3>1. /\ [ui EXCEPT !.held.rows = f.got.rows, !.held.stamp = f.got.stamp,
                            !.loading = FALSE, !.failed = FALSE] \in UI
              /\ [ui EXCEPT !.loading = FALSE, !.failed = ui.loading \/ ui.failed] \in UI
            BY <2>1, UITyped DEF UI, Held
        <3> QED
            BY <1>1, <2>2, <3>1, HearsTyped DEF listed
    <2>3. CASE counted(f, good)
        <3>1. [ui EXCEPT !.held.aside = f.got.aside, !.marks = @ \union {"counted"}] \in UI
            BY <2>1, UITyped DEF UI, Held
        <3> QED
            BY <1>1, <2>3, <3>1, UITyped, HearsTyped DEF counted
    <2>4. CASE marked(f, good)
        <3>1. [ui EXCEPT !.marks = @ \ (IF Latest(f) THEN MarkOf(f) ELSE {})] \in UI
            BY UITyped DEF UI
        <3> QED
            BY <1>1, <2>4, <3>1, HearsTyped, InvalidateTyped DEF marked
    <2> QED
        BY <1>6, <2>2, <2>3, <2>4 DEF useNotifications
<1> QED
    BY <1>2, <1>3, <1>4, <1>5, <1>6 DEF NotificationsNext

LEMMA EntranceTyped == ASSUME ScreenTyped, EntranceNext PROVE ScreenTyped'
<1>1. card = "entrance" /\ card \notin HomeCards /\ card # "profile" /\ None \in RowOrNone
    BY DEF EntranceNext, HomeCards, RowOrNone
<1>2. /\ server \in Held /\ Nowhere \in [action : Dialogs, row : RowOrNone]
      /\ {"login", "signUp", "forgot"} \subseteq Dialogs
      /\ {"login", "recover", "signUp", "forgot", "loginAfter"} \subseteq Ops
      /\ "login" \in Kinds
    BY <1>1 DEF ScreenTyped, ScreenTypeOK, Dialogs, Ops, Nowhere, Kinds
<1>3. ASSUME NEW d \in {"login", "signUp", "forgot"}, opens(d) \/ follows(d) PROVE ScreenTyped'
    <2>1. [ui EXCEPT !.dialog = Show(d)] \in UI
        BY <1>1, <1>2, UITyped DEF UI, Show
    <2> QED
        BY <1>1, <1>2, <1>3, <2>1, OpensTyped, ShowsTyped DEF opens, follows
<1>4. CASE closes \/ setRecovering
    <2>1. /\ [ui EXCEPT !.dialog = Nowhere] \in UI
          /\ [ui EXCEPT !.marks = IF Recovering THEN @ \ {"recovering"}
                                  ELSE @ \union {"recovering"}] \in UI
        BY <1>2, UITyped DEF UI
    <2> QED
        BY <1>1, <1>4, <2>1, ShowsTyped DEF closes, setRecovering
<1>5. CASE submitLogin \/ recover \/ submitSignUp \/ submitForgot
    <2>1. /\ Waits("login") \in UI /\ Waits("signUp") \in UI /\ Waits("forgot") \in UI
        BY UITyped DEF UI, Waits
    <2> QED
        BY <1>1, <1>2, <1>5, <2>1, PressesTyped DEF submitLogin, recover, submitSignUp, submitForgot
<1>6. CASE leaveFor
    <2>1. Reports("leave") \in Notice
        BY <1>1 DEF Reports, Notice
    <2>2. [ui EXCEPT !.notice = Reports("leave")] \in UI
        BY <2>1, UITyped DEF UI
    <2> QED
        BY <1>1, <1>2, <1>6, <2>2, StartRedirectTyped, CannotStartTyped DEF leaveFor
<1>7. ASSUME NEW f \in flight, NEW right, Handles(f, right, server) PROVE ScreenTyped'
    BY <1>2, <1>7, HandlesTyped
<1>8. ASSUME NEW f \in flight, enters(f) PROVE ScreenTyped'
    <2>1. [ui EXCEPT !.dialog = Nowhere] \in UI
        BY <1>2, UITyped DEF UI
    <2>2. [trip EXCEPT !.place = "dashboard", !.want = "login"] \in Trip
        BY <1>2, TripTyped DEF Trip
    <2> QED
        BY <1>1, <1>8, <2>1, <2>2 DEF enters, Answers, ScreenTyped, ScreenTypeOK, FormBounded, AtHome
<1>9. ASSUME NEW f \in flight, registered(f) PROVE ScreenTyped'
    <2>1. sent \in Nat /\ sent + 1 \in Nat /\ 0 \in 0 .. MaxStamp + 1
        BY ScreenAssumption DEF ScreenTyped, ScreenTypeOK
    <2>2. Asks(sent + 1, "loginAfter", None, 0) \in Request
        BY <1>1, <1>2, <2>1, AsksTyped
    <2> QED
        BY <1>1, <1>9, <2>1, <2>2 DEF registered, ScreenTyped, ScreenTypeOK, FormBounded, AtHome
<1>10. ASSUME NEW f \in flight, refused(f) PROVE ScreenTyped'
    <2>1. More(ui.form) \in Nat
        BY UITyped DEF More
    <2>3. Says(f, FALSE) \in Notice
        BY SaysTyped
    <2>2. [ui EXCEPT !.marks = @ \ {"login"}, !.form = More(@), !.notice = Says(f, FALSE)] \in UI
        BY <2>1, <2>3, UITyped DEF UI
    <2> QED
        BY <1>1, <1>10, <2>2, HearsTyped DEF refused
<1>11. ASSUME NEW f \in flight, NEW good \in BOOLEAN,
              notRegistered(f) \/ recovered(f, good) \/ asked(f, good)
       PROVE  ScreenTyped'
    <2>1. Says(f, good) \in Notice /\ Says(f, FALSE) \in Notice
        BY SaysTyped
    <2>2. /\ [ui EXCEPT !.marks = @ \ {"signUp"}, !.notice = Says(f, FALSE)] \in UI
          /\ [ui EXCEPT !.marks = @ \ {"forgot"}, !.notice = Says(f, good)] \in UI
          /\ [ui EXCEPT !.marks = @ \ (IF good THEN {"login", "recovering"} ELSE {"login"}),
                        !.form = IF good THEN 0 ELSE @, !.notice = Says(f, good)] \in UI
        BY <2>1, UITyped DEF UI
    <2> QED
        BY <1>1, <1>11, <2>2, HearsTyped DEF notRegistered, recovered, asked
<1> QED
    BY <1>3, <1>4, <1>5, <1>6, <1>7, <1>8, <1>9, <1>10, <1>11 DEF EntranceNext

\* A page as it is drawn.
LEMMA DrawnTyped ==
    ASSUME NEW claim \in RowOrNone
    PROVE  Drawn(claim) \in UI /\ [Drawn(claim) EXCEPT !.loading = FALSE] \in UI
           /\ Drawn(claim).form = 0 /\ [Drawn(claim) EXCEPT !.loading = FALSE].form = 0
           /\ Drawn(claim).codes = 0 /\ [Drawn(claim) EXCEPT !.loading = FALSE].codes = 0
<1>1. /\ None \in RowOrNone /\ Nowhere \in [action : Dialogs, row : RowOrNone]
      /\ Silent \in Notice /\ 0 \in 0 .. MaxStamp
    BY ScreenAssumption DEF RowOrNone, Nowhere, Dialogs, Silent, Notice
<1> QED
    BY <1>1, BlankTyped DEF Drawn, UI

LEMMA RedirectsTyped == ASSUME ScreenTyped, RedirectsNext PROVE ScreenTyped'
<1>1. /\ trip.markers \in [Kinds -> RowOrNone] /\ None \in RowOrNone
      /\ {"link", "factor", "passkey", "login"} \subseteq Kinds
      /\ 0 \in 0 .. MaxStamp + 1 /\ sent + 1 \in Nat /\ sent + 2 \in Nat
      /\ {"read", "confirm"} \subseteq Ops
    BY TripTyped, ScreenAssumption
       DEF RowOrNone, Kinds, ScreenTyped, ScreenTypeOK, Ops
<1>2. ASSUME trip' \in Trip, card \notin HomeCards, UNCHANGED <<card, server, ui, flight, sent, disturbed>>
      PROVE  ScreenTyped'
    BY <1>2 DEF ScreenTyped, ScreenTypeOK, FormBounded, AtHome
<1>3. trip.place # "page" => card \notin HomeCards
    BY DEF ScreenTyped, AtHome
<1>4. ASSUME NEW coded \in BOOLEAN, ComesBack(coded) PROVE ScreenTyped'
    <2>1. trip' \in Trip
        BY <1>4, TripTyped DEF ComesBack, Goes, Trip
    <2> QED
        BY <1>2, <1>3, <1>4, <2>1 DEF ComesBack, Goes
<1>5. ASSUME NEW m \in BOOLEAN, NEW g \in BOOLEAN, NEW l \in BOOLEAN, AuthCallback(m, g, l)
      PROVE  ScreenTyped'
    <2>1. /\ take("link") \in [Kinds -> RowOrNone] /\ takeBoth("link", "factor") \in [Kinds -> RowOrNone]
          /\ takeAll \in [Kinds -> RowOrNone]
        BY <1>1 DEF take, takeBoth, takeAll
    <2>2. trip' \in Trip
        <3>1. CASE resumeAccountLink
            BY <1>1, <2>1, <3>1, TripTyped DEF resumeAccountLink, Trip
        <3>2. CASE Configured
            BY <1>1, <2>1, <3>2, TripTyped DEF Configured, SecurityPage, Trip
        <3>3. ASSUME NEW cancelled \in BOOLEAN, Registered(cancelled) PROVE trip' \in Trip
            <4>1. passkeyReturnPath(cancelled) \in RowOrNone
                BY <1>1 DEF passkeyReturnPath
            <4> QED
                BY <1>1, <2>1, <3>3, <4>1, TripTyped DEF Registered, SecurityPage, Trip
        <3>4. CASE Dashboard
            BY <2>1, <3>4, TripTyped DEF Dashboard, Trip
        <3>5. CASE trip' = [trip EXCEPT !.place = "failed", !.kept = FALSE,
                                        !.clean = @ /\ trip.want = "login"]
            BY <3>5, TripTyped DEF Trip
        <3> QED
            BY <1>5, <3>1, <3>2, <3>3, <3>4, <3>5 DEF AuthCallback
    <2> QED
        BY <1>2, <1>3, <1>5, <2>2 DEF AuthCallback
<1>6. CASE linkReturnUri
    <2>1. trip' \in Trip
        BY <1>1, <1>6, TripTyped DEF linkReturnUri, Goes, Trip
    <2> QED
        BY <1>2, <1>3, <1>6, <2>1 DEF linkReturnUri, Goes
<1>7. Asks(sent + 1, "read", None, 0) \in Request
    BY <1>1, AsksTyped
<1>8. [trip EXCEPT !.place = "page"] \in Trip /\ [trip EXCEPT !.place = "page", !.clean = FALSE] \in Trip
    BY TripTyped DEF Trip
<1>9. CASE DrawsClaimed
    <2>1. CardOf[trip.claimed] \in {"sso", "factors", "passkeys", "entrance"}
        BY TripTyped DEF CardOf, Kinds
    <2>2. Confirms(trip.about) \subseteq Request
        BY <1>1, TripTyped, AsksTyped DEF Confirms
    <2>3. card' \in Cards /\ card' \notin HomeCards /\ card' # "profile"
        BY <1>9, <2>1, CardsAssumption DEF DrawsClaimed, Draws, HomeCards
    <2>4. ui' \in UI
        BY <1>9, TripTyped, DrawnTyped DEF DrawsClaimed, Draws
    <2> QED
        BY <1>1, <1>7, <1>8, <1>9, <2>2, <2>3, <2>4
           DEF DrawsClaimed, Draws, ScreenTyped, ScreenTypeOK, FormBounded, AtHome
<1>10. CASE GoesBackToLogin
    <2>1. card' \in Cards /\ card' \notin HomeCards /\ card' # "profile" /\ ui' \in UI
        BY <1>1, <1>10, CardsAssumption, DrawnTyped DEF GoesBackToLogin, HomeCards
    <2> QED
        BY <1>8, <1>10, <2>1 DEF GoesBackToLogin, ScreenTyped, ScreenTypeOK, FormBounded, AtHome
<1>11. CASE TurnsBack
    <2>1. card \notin HomeCards /\ card # "profile" /\ ui' \in UI
        BY <1>1, <1>3, <1>11, DrawnTyped DEF TurnsBack, HomeCards
    <2> QED
        BY <1>1, <1>7, <1>8, <1>11, <2>1 DEF TurnsBack, ScreenTyped, ScreenTypeOK, FormBounded, AtHome
<1> QED
    BY <1>4, <1>5, <1>6, <1>9, <1>10, <1>11 DEF RedirectsNext, accountLinkUrl

LEMMA OpeningTyped ==
    ASSUME NEW c \in Cards
    PROVE  /\ Opening(c) \subseteq Request /\ Cardinality(Opening(c)) \in Nat
           /\ c \in HomeCards => \A f \in Opening(c) : f.op \in OpsAt(c)
<1>1. /\ None \in RowOrNone /\ "read" \in Ops /\ "count" \in Ops /\ 0 \in 0 .. MaxStamp + 1
      /\ 1 \in Nat /\ 2 \in Nat
    BY ScreenAssumption DEF RowOrNone, Ops
<1>2. Asks(1, "read", None, 0) \in Request /\ Asks(2, "count", None, 0) \in Request
    BY <1>1, AsksTyped
<1>3. Asks(1, "read", None, 0).op = "read" /\ Asks(2, "count", None, 0).op = "count"
    BY DEF Asks
<1>4. IsFiniteSet({Asks(1, "read", None, 0), Asks(2, "count", None, 0)})
    <2>1. IsFiniteSet({Asks(1, "read", None, 0)}) /\ IsFiniteSet({Asks(2, "count", None, 0)})
        BY FS_Singleton
    <2>2. IsFiniteSet({Asks(1, "read", None, 0)} \union {Asks(2, "count", None, 0)})
        BY <2>1, FS_Union
    <2>3. {Asks(1, "read", None, 0), Asks(2, "count", None, 0)}
            = {Asks(1, "read", None, 0)} \union {Asks(2, "count", None, 0)}
        OBVIOUS
    <2> QED
        BY <2>2, <2>3
<1>5. Opening(c) \subseteq {Asks(1, "read", None, 0), Asks(2, "count", None, 0)}
    BY DEF Opening
<1>6. Cardinality(Opening(c)) \in Nat
    BY <1>4, <1>5, FS_Subset, FS_CardinalityType
<1>7. c \in HomeCards => \A f \in Opening(c) : f.op \in OpsAt(c)
    BY <1>3 DEF Opening, OpsAt, HomeCards
<1> QED
    BY <1>2, <1>5, <1>6, <1>7

LEMMA InitTyped == Init => ScreenTyped
<1> SUFFICES ASSUME Init PROVE ScreenTyped
    OBVIOUS
<1>1. PICK c \in Cards : \E rows \in [Rows -> Lists[c]], aside \in AsideOf(c) :
        /\ card = c
        /\ server = [rows |-> rows, aside |-> aside, stamp |-> 0]
        /\ ui = [Drawn(None) EXCEPT !.loading = c # "entrance"]
        /\ trip = [place |-> "page", want |-> "login", claimed |-> "login", about |-> None,
                   markers |-> takeAll, kept |-> FALSE, made |-> 0, clean |-> TRUE]
        /\ flight = Opening(c)
        /\ sent = Cardinality(Opening(c))
        /\ disturbed = {}
    BY DEF Init
<1>2. server \in Held
    <2>0. PICK rows \in [Rows -> Lists[c]], aside \in AsideOf(c) :
            server = [rows |-> rows, aside |-> aside, stamp |-> 0]
        BY <1>1
    <2>1. Lists[c] \subseteq Statuses
        BY CardsAssumption DEF Lists, Statuses
    <2>2. rows \in [Rows -> Statuses]
        BY <2>1
    <2>3. aside \in 0 .. MaxStamp
        BY ScreenAssumption DEF AsideOf
    <2> QED
        BY <2>0, <2>2, <2>3, ScreenAssumption DEF Held
<1>3. ui \in UI /\ ui.form = 0
    <2>1. Drawn(None) \in UI /\ Drawn(None).form = 0
        BY DrawnTyped DEF RowOrNone
    <2> QED
        BY <1>1, <2>1 DEF UI
<1>4. trip \in Trip
    <2>1. /\ takeAll \in [Kinds -> RowOrNone] /\ None \in RowOrNone /\ "login" \in Kinds
          /\ 0 \in 0 .. MaxTrips
        BY ScreenAssumption DEF takeAll, RowOrNone, Kinds
    <2> QED
        BY <1>1, <2>1 DEF Trip
<1>5. AtHome
    BY <1>1, OpeningTyped DEF AtHome
<1>6. FormBounded
    BY <1>3, ScreenAssumption DEF FormBounded
<1> QED
    BY <1>1, <1>2, <1>3, <1>4, <1>5, <1>6, OpeningTyped DEF ScreenTyped, ScreenTypeOK

LEMMA NextTyped == ScreenTyped /\ [Next]_screen => ScreenTyped'
<1>1. CASE UNCHANGED screen
    BY <1>1 DEF screen, ScreenTyped, ScreenTypeOK, FormBounded, AtHome
<1> QED
    BY <1>1, EmailTyped, SsoTyped, PasskeyTyped, FactorTyped, WalletTyped, ActivityTyped,
       PasswordTyped, ProfileTyped, NotificationsTyped, EntranceTyped, RedirectsTyped DEF Next

LEMMA AlwaysTyped == Spec => []ScreenTyped
BY InitTyped, NextTyped, PTL DEF Spec

\* The types of everything on screen, at the API and on its way, on every card
\* and through every trip.
THEOREM SiteTypeCorrect == Spec => []ScreenTypeOK
<1>1. ScreenTyped => ScreenTypeOK
    BY DEF ScreenTyped
<1> QED
    BY <1>1, AlwaysTyped, PTL

-----------------------------------------------------------------------------
(* What a page's handlers leave alone.                                     *)

Stays == card' = card /\ trip' = trip

LEMMA EmailStays == EmailNext => Stays
BY DEF EmailNext, Stays, act, addsEmail, VerifyEmail, setPrivacy, Presses, Elsewhere, Reads, Handles,
       useEmails, ReadArrives, acted, added, privacySaved, Hears

LEMMA WalletStays == WalletCardNext => Stays
BY DEF WalletCardNext, Stays, actOnMethod, setAdding, closeAdding, submitCard, submitAccount, Opens,
       Closes, Shows, Presses, Looks, Commits, Reads, Handles, useWallet, ReadArrives, walletActed,
       saved, Hears

LEMMA ActivityStays == ActivityNext => Stays
BY DEF ActivityNext, Stays, setViewing, closeViewing, onAnswer, Opens, Closes, Shows, Presses,
       Elsewhere, Reads, Handles, useSecurityActivity, ReadArrives, answered, Hears

LEMMA PasswordStays == PasswordNext => Stays
BY DEF PasswordNext, Stays, fillsPassword, changing, Shows, Presses, Reads, Handles, usePassword,
       passwordRead, changed, Hears

LEMMA ProfileStays == ProfileNext => Stays
BY DEF ProfileNext, Stays, submitProfile, Elsewhere, Reads, Handles, ProfileProvider, profileRead,
       profileSaved, Hears

LEMMA NotificationsStay == NotificationsNext => Stays
BY DEF NotificationsNext, Stays, useMarkAllNotificationsRead, useMarkNotificationRead, Notified,
       Presses, Elsewhere, AtTheApi, Handles, useNotifications, listed, counted, marked,
       invalidateQueries, Hears

\* The API answers a request, or refuses it, and leaves the others as they
\* are.
LEMMA HandledOne ==
    ASSUME ScreenTyped, NEW f \in flight, NEW allowed, NEW after, Handles(f, allowed, after)
    PROVE  \E k :
             /\ flight' = (flight \ {f}) \union (IF k.waits THEN {k} ELSE {})
             /\ k.id = f.id /\ k.op = f.op /\ k.row = f.row /\ k.waits = f.waits /\ k.content = f.content
             /\ \/ k.at = "answered" /\ k.got = after /\ server' = after /\ allowed
                \/ k.at = "refused" /\ server' = server /\ ~allowed
<1> DEFINE yes == [f EXCEPT !.at = "answered", !.got = after]
           no == [f EXCEPT !.at = "refused"]
<1>1. f \in Request
    BY RequestTyped
<1>2. /\ no.id = f.id /\ no.op = f.op /\ no.row = f.row /\ no.waits = f.waits
      /\ no.content = f.content /\ no.at = "refused"
    BY <1>1 DEF Request
<1>3. CASE ~allowed
    <2>1. flight' = (flight \ {f}) \union (IF no.waits THEN {no} ELSE {}) /\ server' = server
        BY <1>3 DEF Handles, Becomes
    <2> QED
        BY <1>2, <1>3, <2>1
<1>4. CASE allowed
    <2>1. /\ flight' = (flight \ {f}) \union (IF yes.waits THEN {yes} ELSE {}) /\ server' = after
        BY <1>4 DEF Handles, Becomes
    <2>2. /\ yes.id = f.id /\ yes.op = f.op /\ yes.row = f.row /\ yes.waits = f.waits
          /\ yes.content = f.content /\ yes.at = "answered" /\ yes.got = after
        BY <1>1, <2>1 DEF Request
    <2> QED
        BY <1>4, <2>1, <2>2
<1> QED
    BY <1>3, <1>4

\* Whoever waits hears an answer or an error, once; the other requests are as
\* they were.
LEMMA HeardOne ==
    ASSUME ScreenTyped, NEW f \in flight, NEW good, NEW next, Hears(f, good, next)
    PROVE  /\ f.waits /\ ui' = next /\ UNCHANGED <<card, server, trip, sent>>
           /\ flight \ {f} \subseteq flight'
           /\ \A g \in flight' : \/ g \in flight \ {f}
                                \/ /\ g.op = f.op /\ g.id = f.id /\ g.at = "sent" /\ ~g.waits
                                   /\ "lost" \in disturbed'
           /\ "lost" \notin disturbed' =>
                /\ flight' = flight \ {f}
                /\ f.at = IF good THEN "answered" ELSE "refused"
<1>1. f \in Request
    BY RequestTyped
<1>2. /\ [f EXCEPT !.waits = FALSE].op = f.op /\ [f EXCEPT !.waits = FALSE].id = f.id
      /\ [f EXCEPT !.waits = FALSE].at = f.at /\ ~[f EXCEPT !.waits = FALSE].waits
    BY <1>1 DEF Request
<1>3. CASE good
    BY <1>3 DEF Hears, Answers
<1>4. CASE ~good
    BY <1>2, <1>4 DEF Hears, Errors
<1> QED
    BY <1>3, <1>4

\* A home card changes by its own handlers only, and stays.
LEMMA HomeNext ==
    ASSUME ScreenTyped, Next, card \in HomeCards
    PROVE  /\ Stays
           /\ \/ card = "emails" /\ EmailNext
              \/ card = "wallet" /\ WalletCardNext
              \/ card = "activity" /\ ActivityNext
              \/ card = "password" /\ PasswordNext
              \/ card = "profile" /\ ProfileNext
              \/ card = "notifications" /\ NotificationsNext
<1>1. trip.place = "page" /\ ~(trip.made > 0)
    BY DEF ScreenTyped, AtHome
<1>2. ~SsoNext
    BY <1>1 DEF SsoNext, LinksAtProvider, OnPage, HomeCards
<1>3. ~PasskeyNext
    BY <1>1 DEF PasskeyNext, RegistersAtProvider, OnPage, HomeCards
<1>4. ~FactorNext
    BY <1>1 DEF FactorNext, SetsUpAtProvider, OnPage, HomeCards
<1>5. ~EntranceNext
    BY DEF EntranceNext, HomeCards
<1>6. ~RedirectsNext
    BY <1>1 DEF RedirectsNext, ComesBack, AuthCallback, linkReturnUri, DrawsClaimed, GoesBackToLogin,
                logout, TurnsBack
<1>7. /\ EmailNext => card = "emails"
      /\ WalletCardNext => card = "wallet"
      /\ ActivityNext => card = "activity"
      /\ PasswordNext => card = "password"
      /\ ProfileNext => card = "profile"
      /\ NotificationsNext => card = "notifications"
    BY DEF EmailNext, WalletCardNext, ActivityNext, PasswordNext, ProfileNext, NotificationsNext, OnPage
<1>8. EmailNext \/ WalletCardNext \/ ActivityNext \/ PasswordNext \/ ProfileNext \/ NotificationsNext
    BY <1>2, <1>3, <1>4, <1>5, <1>6 DEF Next
<1> QED
    BY <1>7, <1>8, EmailStays, WalletStays, ActivityStays, PasswordStays, ProfileStays,
       NotificationsStay

\* The cards that trips start from: what else is done there leaves the trip
\* alone.
LEMMA SsoStays == SsoNext => card' = card /\ (trip' = trip \/ (OnPage("sso") /\ connecting))
BY DEF SsoNext, LinksAtProvider, setConnection, closeConnection, connecting, disconnecting,
       beginAccountLink, startRedirect, CannotStart, Opens, Closes, Shows, Presses, Elsewhere,
       Reads, Handles, useSignInMethods, ReadArrives, disconnected, confirmedLink, Hears

LEMMA PasskeyStays ==
    PasskeyNext => card' = card /\ (trip' = trip \/ (OnPage("passkeys") /\ addingAPasskey))
BY DEF PasskeyNext, RegistersAtProvider, setPasskeyRequest, closePasskey, addingAPasskey,
       removingPasskey, RemovedElsewhere, beginPasskeyRegistration, startRedirect,
       CannotStart, Opens, Closes, Shows, Presses, Elsewhere, Reads, Handles, usePasskeys,
       ReadArrives, passkeyRemoved, passkeyConfirmed, Hears

LEMMA FactorStays ==
    ASSUME FactorNext PROVE card' = card /\ (trip' = trip \/ (OnPage("factors") /\ enabling))
<1>1. CASE SetsUpAtProvider
    BY <1>1 DEF SetsUpAtProvider
<1>2. ASSUME NEW op, NEW r, \/ setFactorRequest(op, r) \/ startAddingPhone \/ closeFactor
                            \/ backToNumber \/ disabling \/ textingCode \/ confirmingCode
                            \/ makingRecoveryCodes \/ closeCodes \/ RecoversElsewhere
                            \/ MakesElsewhere
      PROVE  Stays
    BY <1>2 DEF Stays, setFactorRequest, startAddingPhone, closeFactor, backToNumber, disabling,
                textingCode, confirmingCode, makingRecoveryCodes, closeCodes, RecoversElsewhere,
                MakesElsewhere, Opens, Closes, Shows, Presses, Elsewhere
<1>3. enabling => card' = card
    BY DEF enabling, beginSecondFactorSetup, startRedirect, CannotStart
<1>4. ASSUME NEW f, NEW allowed, NEW after, Reads(f) \/ Handles(f, allowed, after) PROVE Stays
    BY <1>4 DEF Stays, Reads, Handles
<1>5. ASSUME NEW f, NEW good, useTwoFactor(f, good) PROVE Stays
    BY <1>5 DEF Stays, useTwoFactor, ReadArrives, disabled, texted, smsConfirmed, factorConfirmed,
                codesMade, Hears
<1> QED
    BY <1>1, <1>2, <1>3, <1>4, <1>5 DEF FactorNext, Stays

LEMMA EntranceStays ==
    ASSUME EntranceNext
    PROVE  /\ card' = card
           /\ \/ trip' = trip
              \/ trip.place = "page" /\ leaveFor
              \/ \E f \in flight : enters(f)
<1>1. ASSUME NEW d, opens(d) \/ follows(d) PROVE Stays
    BY <1>1 DEF Stays, opens, follows, Opens, Shows
<1>5. ASSUME \/ closes \/ setRecovering \/ submitLogin \/ recover \/ submitSignUp \/ submitForgot
      PROVE  Stays
    BY <1>5 DEF Stays, closes, setRecovering, submitLogin, recover, submitSignUp,
                submitForgot, Opens, Shows, Presses
<1>2. leaveFor => card' = card
    BY DEF leaveFor, startRedirect, CannotStart
<1>3. ASSUME NEW f, NEW good, \/ Handles(f, good, server) \/ recovered(f, good) \/ asked(f, good)
                              \/ refused(f) \/ registered(f) \/ notRegistered(f)
      PROVE  Stays
    BY <1>3 DEF Stays, Handles, refused, registered, notRegistered, recovered, asked, Hears
<1>4. ASSUME NEW f, enters(f) PROVE card' = card
    BY <1>4 DEF enters
<1>6. Stays \/ (trip.place = "page" /\ leaveFor) \/ \E f \in flight : enters(f)
    <2>1. CASE \E f \in flight :
                  \/ \E right \in BOOLEAN : Handles(f, right, server)
                  \/ enters(f) \/ refused(f) \/ registered(f) \/ notRegistered(f)
                  \/ \E good \in BOOLEAN : recovered(f, good) \/ asked(f, good)
        BY <1>3, <2>1
    <2> QED
        BY <1>1, <1>5, <2>1 DEF EntranceNext
<1>7. CASE \E f \in flight : enters(f)
    BY <1>4, <1>7
<1> QED
    BY <1>2, <1>6, <1>7 DEF Stays

\* Nothing leads to a home card.
LEMMA HomeIsNotReached ==
    ASSUME ScreenTyped, [Next]_screen, card' \in HomeCards
    PROVE  card' = card
<1>1. CASE UNCHANGED screen
    BY <1>1 DEF screen
<1>2. CASE RedirectsNext
    <2>1. CASE DrawsClaimed
        <3>1. card' \in {"sso", "factors", "passkeys", "entrance"}
            BY <2>1, TripTyped DEF DrawsClaimed, Draws, CardOf, Kinds
        <3> QED
            BY <3>1 DEF HomeCards
    <2>2. CASE GoesBackToLogin
        BY <2>2 DEF GoesBackToLogin, HomeCards
    <2>3. CASE TurnsBack
        BY <2>3 DEF TurnsBack
    <2> QED
        BY <1>2, <2>1, <2>2, <2>3 DEF RedirectsNext, ComesBack, AuthCallback, linkReturnUri, Goes
<1> QED
    BY <1>1, <1>2, EmailStays, WalletStays, ActivityStays, PasswordStays, ProfileStays,
       NotificationsStay, SsoStays, PasskeyStays, FactorStays, EntranceStays DEF Next, Stays

\* What has happened has happened.
LEMMA DisturbedGrows ==
    ASSUME [Next]_screen PROVE disturbed \subseteq disturbed'
<1>1. CASE UNCHANGED screen
    BY <1>1 DEF screen
<1>2. CASE EmailNext
    BY <1>2 DEF EmailNext, act, addsEmail, VerifyEmail, setPrivacy, Presses, Elsewhere, Reads, Handles,
                useEmails, ReadArrives, acted, added, privacySaved, Hears
<1>3. CASE WalletCardNext
    BY <1>3 DEF WalletCardNext, actOnMethod, setAdding, closeAdding, submitCard, submitAccount, Opens,
                Closes, Shows, Presses, Looks, Commits, Reads, Handles, useWallet, ReadArrives,
                walletActed, saved, Hears
<1>4. CASE ActivityNext
    BY <1>4 DEF ActivityNext, setViewing, closeViewing, onAnswer, Opens, Closes, Shows, Presses,
                Elsewhere, Reads, Handles, useSecurityActivity, ReadArrives, answered, Hears
<1>5. CASE PasswordNext
    BY <1>5 DEF PasswordNext, fillsPassword, changing, Shows, Presses, Reads, Handles, usePassword,
                passwordRead, changed, Hears
<1>6. CASE ProfileNext
    BY <1>6 DEF ProfileNext, submitProfile, Elsewhere, Reads, Handles, ProfileProvider, profileRead,
                profileSaved, Hears
<1>7. CASE NotificationsNext
    BY <1>7 DEF NotificationsNext, useMarkAllNotificationsRead, useMarkNotificationRead, Notified,
                Presses, Elsewhere, AtTheApi, Handles, useNotifications, listed, counted, marked,
                invalidateQueries, Hears
<1>8. CASE SsoNext
    BY <1>8 DEF SsoNext, LinksAtProvider, setConnection, closeConnection, connecting, disconnecting,
                beginAccountLink, startRedirect, Deserted, CannotStart, Opens, Closes, Shows, Presses,
                Elsewhere, Reads, Handles, useSignInMethods, ReadArrives, disconnected, confirmedLink,
                Hears
<1>9. CASE PasskeyNext
    BY <1>9 DEF PasskeyNext, RegistersAtProvider, setPasskeyRequest, closePasskey, addingAPasskey,
                removingPasskey, RemovedElsewhere, beginPasskeyRegistration, startRedirect, Deserted,
                CannotStart, Opens, Closes, Shows, Presses, Elsewhere, Reads, Handles, usePasskeys,
                ReadArrives, passkeyRemoved, passkeyConfirmed, Hears
<1>10. CASE FactorNext
    <2>1. CASE SetsUpAtProvider \/ RecoversElsewhere \/ MakesElsewhere
        BY <2>1 DEF SetsUpAtProvider, RecoversElsewhere, MakesElsewhere, Elsewhere
    <2>2. ASSUME NEW op, NEW r, setFactorRequest(op, r) \/ startAddingPhone \/ closeFactor \/ backToNumber
                                 \/ disabling \/ textingCode \/ confirmingCode
                                 \/ makingRecoveryCodes \/ closeCodes
          PROVE  disturbed \subseteq disturbed'
        BY <2>2 DEF setFactorRequest, startAddingPhone, closeFactor, backToNumber, disabling, textingCode,
                    confirmingCode, makingRecoveryCodes, closeCodes, Opens, Closes, Shows, Presses
    <2>3. CASE enabling
        BY <2>3 DEF enabling, beginSecondFactorSetup, startRedirect, Deserted, CannotStart
    <2>4. ASSUME NEW f, NEW allowed, NEW after, Handles(f, allowed, after) \/ Reads(f)
          PROVE  disturbed \subseteq disturbed'
        BY <2>4 DEF Reads, Handles
    <2>5. ASSUME NEW f, NEW good, useTwoFactor(f, good) PROVE disturbed \subseteq disturbed'
        BY <2>5 DEF useTwoFactor, ReadArrives, disabled, texted, smsConfirmed, factorConfirmed,
                    codesMade, Hears
    <2> QED
        BY <1>10, <2>1, <2>2, <2>3, <2>4, <2>5 DEF FactorNext
<1>11. CASE EntranceNext
    BY <1>11 DEF EntranceNext, opens, follows, closes, setRecovering, submitLogin, recover,
                 submitSignUp, submitForgot, leaveFor, startRedirect, Deserted, CannotStart, Opens,
                 Shows, Presses, Handles, enters, refused, registered, notRegistered, recovered, asked,
                 Hears
<1>12. CASE RedirectsNext
    BY <1>12 DEF RedirectsNext, ComesBack, AuthCallback, linkReturnUri, Goes, DrawsClaimed, Draws,
                 GoesBackToLogin, TurnsBack
<1> QED
    BY <1>1, <1>2, <1>3, <1>4, <1>5, <1>6, <1>7, <1>8, <1>9, <1>10, <1>11, <1>12 DEF Next

-----------------------------------------------------------------------------
(* The wallet's functions and what the wallet promises.                    *)

\* A function has looked at the wallet as it still is, and is the only one
\* that has, as long as none has overlapped with another.
LookedInv ==
    card = "wallet" =>
        /\ \A f \in flight : f.op # "read" => f.row \in Rows
        /\ "overlap" \notin disturbed =>
             \A f \in flight : f.at = "looked" =>
                f.got.rows = server.rows /\ \A g \in flight : g.at = "looked" => g = f

\* The page's wallet has one default, as long as no two transactions overlap.
DefaultInv ==
    (card = "wallet" /\ "overlap" \notin disturbed) => (Wal!WalletTypeOK /\ Wal!OneDefault)

LEMMA WithRows ==
    ASSUME NEW rows, NEW aside PROVE With(rows, aside).rows = rows /\ With(rows, aside).aside = aside
BY DEF With

\* The abstract steps, one for each function.
LEMMA AddImplements ==
    ASSUME ScreenTyped, NEW f \in flight, f.row \in Rows, f.got.rows = server.rows,
           Handles(f, WalletAllowed("add", f.row), AddCreditCard(f))
    PROVE  [Wal!WalletNext]_(server.rows)
<1>1. CASE server' = AddCreditCard(f) /\ server.rows[f.row] = "absent"
    <2>1. server'.rows = [server.rows EXCEPT ![f.row] =
                            IF Wal!IsFirst(server.rows) THEN "default" ELSE "held"]
        BY <1>1, WithRows DEF AddCreditCard, Put
    <2> QED
        BY <1>1, <2>1 DEF Wal!WalletNext, Wal!AddMethod
<1> QED
    BY <1>1 DEF Handles, WalletAllowed

LEMMA SetDefaultImplements ==
    ASSUME ScreenTyped, NEW f \in flight, f.row \in Rows, f.got.rows = server.rows,
           Handles(f, WalletAllowed("default", f.row), SetDefaultPaymentMethod(f))
    PROVE  [Wal!WalletNext]_(server.rows)
<1>1. CASE server' = SetDefaultPaymentMethod(f) /\ server.rows[f.row] # "absent"
    <2>1. server'.rows = [q \in Rows |-> IF q = f.row THEN "default"
                            ELSE IF server.rows[q] = "default" THEN Wal!Cleared(server.rows, q)
                            ELSE server.rows[q]]
        BY <1>1, WithRows DEF SetDefaultPaymentMethod
    <2>2. server'.rows = [q \in Rows |-> IF q = f.row THEN "default" ELSE Wal!Cleared(server.rows, q)]
        BY <2>1 DEF Wal!Cleared
    <2> QED
        BY <1>1, <2>2 DEF Wal!WalletNext, Wal!SetDefault
<1> QED
    BY <1>1 DEF Handles, WalletAllowed

LEMMA RemoveImplements ==
    ASSUME ScreenTyped, NEW f \in flight, f.row \in Rows,
           NEW oldest \in IF Remaining(f.row) = {} THEN {f.row} ELSE Remaining(f.row),
           Handles(f, WalletAllowed("remove", f.row), RemovePaymentMethod(f, oldest))
    PROVE  [Wal!WalletNext]_(server.rows)
<1> DEFINE left == {n \in Rows \ {f.row} : server.rows[n] # "absent"}
<1>1. server.rows \in [Rows -> Statuses] /\ left = Remaining(f.row) /\ oldest \in Rows
    BY DEF ScreenTyped, ScreenTypeOK, Held, Remaining
<1>2. CASE server' = RemovePaymentMethod(f, oldest) /\ server.rows[f.row] # "absent"
    <2>1. server'.rows = [server.rows EXCEPT
                            ![oldest] = IF server.rows[f.row] = "default" THEN "default" ELSE @,
                            ![f.row] = "absent"]
        BY <1>2, WithRows DEF RemovePaymentMethod
    <2>2. CASE server.rows[f.row] = "default" /\ left # {}
        <3>1. server'.rows = [server.rows EXCEPT ![f.row] = "absent", ![oldest] = "default"]
            BY <1>1, <2>1, <2>2
        <3> QED
            BY <1>1, <1>2, <2>2, <3>1 DEF Wal!WalletNext, Wal!RemoveMethod, Wal!IsDefault
    <2>3. CASE ~(server.rows[f.row] = "default" /\ left # {})
        <3>1. server'.rows = [server.rows EXCEPT ![f.row] = "absent"]
            BY <1>1, <2>1, <2>3
        <3> QED
            BY <1>1, <1>2, <2>3, <3>1 DEF Wal!WalletNext, Wal!RemoveMethod, Wal!IsDefault
    <2> QED
        BY <2>2, <2>3
<1> QED
    BY <1>2 DEF Handles, WalletAllowed

\* A step of the page that is not the last of a function leaves the wallet
\* alone.
LEMMA WalletCardImplements ==
    ASSUME ScreenTyped, LookedInv, WalletCardNext, "overlap" \notin disturbed'
    PROVE  [Wal!WalletNext]_(server.rows)
<1>1. ASSUME NEW f \in flight, Commits(f) PROVE [Wal!WalletNext]_(server.rows)
    <2>1. f.at = "looked" /\ f.op \in {"add", "default", "remove"} /\ disturbed' = disturbed
        BY <1>1 DEF Commits, Handles
    <2>2. f.row \in Rows /\ f.got.rows = server.rows
        BY <2>1 DEF LookedInv, WalletCardNext, OnPage
    <2> QED
        BY <1>1, <2>1, <2>2, AddImplements, SetDefaultImplements, RemoveImplements DEF Commits
<1>2. ASSUME NEW f \in flight, NEW good, Reads(f) \/ Looks(f) \/ useWallet(f, good)
      PROVE  UNCHANGED server
    BY <1>2 DEF Reads, Handles, Looks, useWallet, ReadArrives, walletActed, saved, Hears
<1>3. ASSUME NEW op, NEW r, actOnMethod(op, r) \/ setAdding(op) \/ closeAdding \/ submitCard(r)
                              \/ submitAccount(r)
      PROVE  UNCHANGED server
    BY <1>3 DEF actOnMethod, setAdding, closeAdding, submitCard, submitAccount, Opens, Closes, Shows,
                Presses
<1> QED
    BY <1>1, <1>2, <1>3 DEF WalletCardNext

\* What is done with a request leaves the others as they are.
LEMMA LookedStep ==
    ASSUME ScreenTyped, LookedInv, WalletCardNext
    PROVE  LookedInv'
<1>1. card = "wallet"
    BY DEF WalletCardNext, OnPage
<1>2. ASSUME NEW op, NEW r \in Rows, NEW next, Presses(op, r, next) PROVE LookedInv'
    <2>1. /\ flight' = flight \union {Asks(sent + 1, op, r, 0)}
          /\ Asks(sent + 1, op, r, 0).at = "sent" /\ Asks(sent + 1, op, r, 0).row = r
          /\ UNCHANGED <<card, server, disturbed>>
        BY <1>2 DEF Presses, SendsWith, Asks
    <2> QED
        BY <2>1 DEF LookedInv
<1>3. ASSUME UNCHANGED <<card, server, flight, disturbed>> PROVE LookedInv'
    BY <1>3 DEF LookedInv
<1>4. ASSUME NEW f \in flight, NEW good, NEW next, Hears(f, good, next) PROVE LookedInv'
    <2>1. f \in Request
        BY RequestTyped
    <2>2. \A g \in flight' : \E h \in flight : /\ g.at = h.at /\ g.op = h.op /\ g.row = h.row
                                               /\ g.at = "looked" => g = h
        BY <1>4, <2>1 DEF Hears, Answers, Errors, Request
    <2>3. UNCHANGED <<card, server>> /\ ("overlap" \notin disturbed' => "overlap" \notin disturbed)
        BY <1>4 DEF Hears
    <2> QED
        BY <2>2, <2>3 DEF LookedInv
<1>5. ASSUME NEW f \in flight, Looks(f) PROVE LookedInv'
    <2> DEFINE k == [f EXCEPT !.at = "looked", !.got = server]
    <2>1. /\ k.at = "looked" /\ k.got = server /\ k.row = f.row /\ k.op = f.op /\ f.op # "read"
          /\ flight' = (flight \ {f}) \union {k}
          /\ UNCHANGED <<card, server>>
        BY <1>5, RequestTyped DEF Looks, Request
    <2>2. "overlap" \notin disturbed' => /\ "overlap" \notin disturbed
                                         /\ \A g \in flight \ {f} : g.at # "looked"
        BY <1>5 DEF Looks, Overlapping
    <2> QED
        BY <2>1, <2>2 DEF LookedInv
<1>6. ASSUME NEW f \in flight, NEW allowed, NEW after, Handles(f, allowed, after),
             f.at = "looked" \/ after = server
      PROVE  LookedInv'
    <2>1. \A g \in flight' : \E h \in flight : /\ g.op = h.op /\ g.row = h.row
                                               /\ g.at = "looked" => g = h /\ g # f
        BY <1>6, HandledOne
    <2>2. UNCHANGED <<card, disturbed>>
        BY <1>6 DEF Handles
    <2>3. "overlap" \notin disturbed /\ f.at = "looked" => \A g \in flight' : g.at # "looked"
        BY <1>1, <2>1 DEF LookedInv
    <2>4. f.at = "looked" \/ server' = server
        BY <1>6 DEF Handles
    <2> QED
        BY <2>1, <2>2, <2>3, <2>4 DEF LookedInv
<1>7. ASSUME NEW op, NEW r \in Rows, actOnMethod(op, r) \/ submitCard(r) \/ submitAccount(r)
      PROVE  LookedInv'
    BY <1>2, <1>7 DEF actOnMethod, submitCard, submitAccount
<1>8. ASSUME NEW kind, setAdding(kind) \/ closeAdding PROVE LookedInv'
    BY <1>3, <1>8 DEF setAdding, closeAdding, Opens, Closes, Shows
<1>9. ASSUME NEW f \in flight, Reads(f) \/ Commits(f) PROVE LookedInv'
    BY <1>6, <1>9 DEF Reads, Commits
<1>10. ASSUME NEW f \in flight, NEW good, useWallet(f, good) PROVE LookedInv'
    BY <1>4, <1>10 DEF useWallet, ReadArrives, walletActed, saved
<1> QED
    BY <1>5, <1>7, <1>8, <1>9, <1>10, ScreenAssumption DEF WalletCardNext

LEMMA LookedAlways == ScreenTyped /\ LookedInv /\ [Next]_screen => LookedInv'
<1> SUFFICES ASSUME ScreenTyped, LookedInv, [Next]_screen, card' = "wallet" PROVE LookedInv'
    BY DEF LookedInv
<1>1. card = "wallet"
    BY HomeIsNotReached DEF HomeCards
<1>2. CASE Next
    BY <1>1, <1>2, HomeNext, LookedStep DEF HomeCards
<1>3. CASE UNCHANGED screen
    BY <1>3 DEF screen, LookedInv
<1> QED
    BY <1>2, <1>3

LEMMA PageImplements ==
    ASSUME ScreenTyped, LookedInv, [Next]_screen, card = "wallet", "overlap" \notin disturbed'
    PROVE  [Wal!WalletNext]_(server.rows)
<1>1. CASE Next
    BY <1>1, HomeNext, WalletCardImplements DEF HomeCards
<1>2. CASE UNCHANGED screen
    BY <1>2 DEF screen
<1> QED
    BY <1>1, <1>2

\* An empty wallet, and nothing asked of it but its list.
LEMMA WalletBegins == Init => LookedInv /\ DefaultInv
<1> SUFFICES ASSUME Init, card = "wallet" PROVE LookedInv /\ DefaultInv
    BY DEF LookedInv, DefaultInv
<1>1. PICK rows \in [Rows -> {"absent"}] : server.rows = rows
    BY DEF Init, Lists
<1>2. flight = {Asks(1, "read", None, 0)}
    BY DEF Init, Opening
<1>3. \A f \in flight : f.op = "read" /\ f.at = "sent"
    BY <1>2 DEF Asks
<1> QED
    BY <1>1, <1>3 DEF LookedInv, DefaultInv, Wal!WalletTypeOK, Wal!WalletStatuses, Wal!OneDefault,
                      Wal!IsDefault

LEMMA LookedHolds == Spec => []LookedInv
BY WalletBegins, LookedAlways, AlwaysTyped, PTL DEF Spec

\* The functions of the database behind the wallet page implement the wallet's
\* promise, for any payment methods and any number of requests, whichever of
\* them are lost, as long as no two transactions overlap.
THEOREM WalletImplemented == Spec => WalletAsPromised
<1>1. ScreenTyped /\ LookedInv /\ [Next]_screen
        => [(card = "wallet" /\ "overlap" \notin disturbed') => Wal!WalletNext]_(server.rows)
    BY PageImplements
<1> QED
    BY <1>1, AlwaysTyped, LookedHolds, PTL DEF Spec, WalletAsPromised

\* Until two transactions overlap, the wallet that holds something has exactly
\* one default.
THEOREM PageKeepsOneDefault == Spec => []DefaultInv
<1>1. ScreenTyped /\ LookedInv /\ DefaultInv /\ [Next]_screen => DefaultInv'
    <2> SUFFICES ASSUME ScreenTyped, LookedInv, DefaultInv, [Next]_screen,
                        card' = "wallet", "overlap" \notin disturbed'
                 PROVE  Wal!WalletTypeOK' /\ Wal!OneDefault'
        BY DEF DefaultInv
    <2>1. card = "wallet"
        BY HomeIsNotReached DEF HomeCards
    <2>2. "overlap" \notin disturbed
        BY DisturbedGrows
    <2>3. [Wal!WalletNext]_(server.rows)
        BY <2>1, PageImplements
    <2> QED
        BY <2>1, <2>2, <2>3, WalletStepTyped, WalletStepKeepsOne DEF DefaultInv
<1> QED
    BY <1>1, WalletBegins, AlwaysTyped, LookedHolds, PTL DEF Spec

-----------------------------------------------------------------------------
(* The profile form.                                                       *)

\* As long as no answer has been lost, the form is filled in once the page no
\* longer waits for the profile, and only what was filled in is on its way.
SeededInv ==
    (card = "profile" /\ "lost" \notin disturbed) =>
        /\ ~ui.loading => ui.form # EMPTY
        /\ \A f \in flight : f.at # "refused" /\ (f.op = "save" => f.content # EMPTY)

LEMMA SeedingFills ==
    ASSUME NEW next \in UI, next.form = ui.form
    PROVE  /\ Seeding(next).form # EMPTY /\ Seeding(next).loading = next.loading
<1>1. next.held.aside \in Nat
    BY ScreenAssumption DEF UI, Held
<1>2. [next EXCEPT !.form = seed(next.held.aside)].form = next.held.aside + 1
      /\ [next EXCEPT !.form = seed(next.held.aside)].loading = next.loading
    BY DEF UI, seed
<1> QED
    BY <1>1, <1>2 DEF Seeding, Seeded, EMPTY

LEMMA SeededStep ==
    ASSUME ScreenTyped, SeededInv, ProfileNext PROVE SeededInv'
<1>1. card = "profile" /\ card' = "profile"
    BY ProfileStays DEF ProfileNext, OnPage, Stays
<1> SUFFICES ASSUME "lost" \notin disturbed'
             PROVE  /\ ~ui'.loading => ui'.form # EMPTY
                    /\ \A f \in flight' : f.at # "refused" /\ (f.op = "save" => f.content # EMPTY)
    BY DEF SeededInv
<1>2. "lost" \notin disturbed
    BY DisturbedGrows DEF Next
<1>3. /\ ~ui.loading => ui.form # EMPTY
      /\ \A f \in flight : f.at # "refused" /\ (f.op = "save" => f.content # EMPTY)
    BY <1>1, <1>2 DEF SeededInv
<1>4. CASE submitProfile
    <2>1. ~ui.loading /\ flight' = flight \union {Asks(sent + 1, "save", None, ui.form)}
          /\ ui' = [ui EXCEPT !.marks = @ \union {"saving"}]
        BY <1>4 DEF submitProfile, SendsWith, UpdateButton
    <2>2. ui'.loading = ui.loading /\ ui'.form = ui.form
        BY <2>1, UITyped DEF UI
    <2> QED
        BY <1>3, <2>1, <2>2 DEF Asks
<1>5. CASE Elsewhere(Aside(server.stamp + 1))
    BY <1>3, <1>5 DEF Elsewhere
<1>6. ASSUME NEW f \in flight, NEW after, Handles(f, TRUE, after)
      PROVE  /\ ~ui'.loading => ui'.form # EMPTY
             /\ \A g \in flight' : g.at # "refused" /\ (g.op = "save" => g.content # EMPTY)
    <2>1. ui' = ui
        BY <1>6 DEF Handles
    <2>2. PICK k : /\ flight' = (flight \ {f}) \union (IF k.waits THEN {k} ELSE {})
                   /\ k.op = f.op /\ k.content = f.content /\ k.at = "answered"
        BY <1>6, HandledOne
    <2> QED
        BY <1>3, <2>1, <2>2
<1>7. ASSUME NEW f \in flight, NEW good \in BOOLEAN, ProfileProvider(f, good)
      PROVE  /\ ~ui'.loading => ui'.form # EMPTY
             /\ \A g \in flight' : g.at # "refused" /\ (g.op = "save" => g.content # EMPTY)
    <2> DEFINE next == IF f.op = "read" THEN [ReplacedOnly(f) EXCEPT !.loading = FALSE]
                       ELSE [Replaced(f) EXCEPT !.marks = @ \ {"saving"}, !.notice = Says(f, TRUE)]
    <2>1. PICK u : Hears(f, good, u) /\ (good => u = Seeding(next))
        BY <1>7 DEF ProfileProvider, profileRead, profileSaved
    <2>2. f.at # "refused"
        BY <1>3
    <2>3. good /\ flight' = flight \ {f} /\ ui' = Seeding(next)
        BY <2>1, <2>2, HeardOne
    <2>4. next \in UI /\ next.form = ui.form
        <3>1. /\ ReplacedOnly(f) \in UI /\ ReplacedOnly(f).form = ui.form
              /\ Replaced(f) \in UI /\ Replaced(f).form = ui.form
            BY ReplacedTyped
        <3>2. CASE f.op = "read"
            BY <3>1, <3>2 DEF UI
        <3>3. CASE f.op # "read"
            BY <3>1, <3>3, SaysTyped DEF UI
        <3> QED
            BY <3>2, <3>3
    <2> QED
        BY <1>3, <2>3, <2>4, SeedingFills
<1> QED
    BY <1>4, <1>5, <1>6, <1>7 DEF ProfileNext, Reads

LEMMA SeededAlways == ScreenTyped /\ SeededInv /\ [Next]_screen => SeededInv'
<1> SUFFICES ASSUME ScreenTyped, SeededInv, [Next]_screen, card' = "profile" PROVE SeededInv'
    BY DEF SeededInv
<1>1. card = "profile"
    BY HomeIsNotReached DEF HomeCards
<1>2. CASE Next
    BY <1>1, <1>2, HomeNext, SeededStep DEF HomeCards
<1>3. CASE UNCHANGED screen
    BY <1>3 DEF screen, SeededInv
<1> QED
    BY <1>2, <1>3

\* The profile page never saves its blanks over a profile, whatever order the
\* answers come in, as long as none of them is lost.
THEOREM ProfileIsKept == Spec => []ProfileKept
<1>1. Init => SeededInv
    <2> SUFFICES ASSUME Init, card = "profile" PROVE SeededInv
        BY DEF SeededInv
    <2>1. flight = {Asks(1, "read", None, 0)} /\ ui = [Drawn(None) EXCEPT !.loading = TRUE]
        BY DEF Init, Opening
    <2> QED
        BY <2>1 DEF SeededInv, Asks, Drawn
<1>2. SeededInv => ProfileKept
    BY DEF SeededInv, ProfileKept
<1> QED
    BY <1>1, <1>2, SeededAlways, AlwaysTyped, PTL DEF Spec

-----------------------------------------------------------------------------
(* Trips to the provider.                                                  *)

\* The dialog that asks before a trip knows which factor it is about.
AskedInv == (card = "factors" /\ ui.dialog.action = "enable") => ui.dialog.row \in Rows

\* A marker is in storage only on the trip it was written for, as long as none
\* was given up; the two kinds that need theirs have it.
MarkersInv ==
    /\ trip.markers["login"] = None
    /\ trip.clean =>
        /\ \A k \in Kinds : trip.markers[k] # None =>
                trip.place \in {"provider", "callback"} /\ k = trip.want
        /\ (trip.place \in {"provider", "callback"} /\ trip.want \in {"factor", "passkey"}) =>
                trip.markers[trip.want] # None
        /\ trip.place = "linking" => trip.want = "link"
    /\ LandsWhereAsked

LEMMA AskedStep == ASSUME ScreenTyped, AskedInv, FactorNext PROVE AskedInv'
<1> SUFFICES ASSUME card = "factors"
             PROVE  ui'.dialog.action = "enable" => ui'.dialog.row \in Rows
    BY FactorStays DEF AskedInv
<1> DEFINE Fits(next) == next.dialog.action = "enable" => next.dialog.row \in Rows
<1>1. Fits(ui) /\ Nowhere.action = "none"
    BY DEF AskedInv, Nowhere
<1>2. CASE UNCHANGED ui
    BY <1>1, <1>2
<1>3. ASSUME NEW action, NEW row, Opens(action, row), action = "enable" => row \in Rows PROVE Fits(ui')
    BY <1>3, UITyped DEF Opens, Shows, UI
<1>4. ASSUME NEW open, Closes(open) PROVE Fits(ui')
    BY <1>1, <1>4, UITyped DEF Closes, Shows, UI
<1>5. CASE backToNumber \/ closeCodes
    <2>1. /\ [ui EXCEPT !.dialog.action = "number"].dialog.action = "number"
          /\ [ui EXCEPT !.codes = 0].dialog = ui.dialog
        BY UITyped DEF UI
    <2> QED
        BY <1>1, <1>5, <2>1 DEF backToNumber, closeCodes, Shows
<1>6. ASSUME NEW op \in {"enable", "disable"}, NEW r \in Rows,
             setFactorRequest(op, r) \/ startAddingPhone \/ closeFactor
      PROVE  Fits(ui')
    BY <1>3, <1>4, <1>6 DEF setFactorRequest, startAddingPhone, closeFactor
<1>7. CASE enabling
    <2>1. \A n : [ui EXCEPT !.dialog = Nowhere, !.busy = None, !.notice = n].dialog = Nowhere
        BY UITyped DEF UI
    <2> QED
        BY <1>1, <1>7, <2>1 DEF enabling, beginSecondFactorSetup, startRedirect, CannotStart
<1>8. CASE disabling \/ textingCode \/ confirmingCode \/ makingRecoveryCodes
    <2>1. /\ \A b : [ui EXCEPT !.busy = b].dialog = ui.dialog
          /\ [ui EXCEPT !.marks = @ \union {"making"}].dialog = ui.dialog
        BY UITyped DEF UI
    <2> QED
        BY <1>1, <1>8, <2>1 DEF disabling, textingCode, confirmingCode, makingRecoveryCodes, Presses
<1>9. ASSUME NEW f, NEW allowed, NEW after, Reads(f) \/ Handles(f, allowed, after) PROVE Fits(ui')
    BY <1>1, <1>9 DEF Reads, Handles
<1>10. ASSUME NEW f \in flight, NEW good \in BOOLEAN, useTwoFactor(f, good) PROVE Fits(ui')
    <2>1. RowsOf(f) \in UI /\ RowsOf(f).dialog = ui.dialog
        <3>1. f.got.rows \in [Rows -> Statuses] /\ f.got.stamp \in 0 .. MaxStamp
            BY RequestTyped, HeldTyped
        <3> QED
            BY <3>1, UITyped DEF RowsOf, UI, Held
    <2>2. \A n : /\ [RowsOf(f) EXCEPT !.busy = None, !.dialog = Nowhere, !.notice = n].dialog = Nowhere
                 /\ [RowsOf(f) EXCEPT !.notice = n].dialog = ui.dialog
                 /\ [ui EXCEPT !.busy = None, !.notice = n].dialog = ui.dialog
                 /\ [ui EXCEPT !.notice = n].dialog = ui.dialog
                 /\ [ui EXCEPT !.marks = @ \ {"making"}, !.notice = n].dialog = ui.dialog
        BY <2>1, UITyped DEF UI
    <2>3. \A h : /\ [ui EXCEPT !.held = h, !.loading = FALSE].dialog = ui.dialog
                 /\ [ui EXCEPT !.loading = FALSE, !.failed = TRUE].dialog = ui.dialog
                 /\ [ui EXCEPT !.busy = None].dialog = ui.dialog
                 /\ [ui EXCEPT !.busy = None, !.dialog.action = "code"].dialog.action = "code"
        BY UITyped DEF UI
    <2>4. [ui EXCEPT !.held.aside = f.got.aside, !.codes = f.got.aside,
                     !.marks = @ \ {"making"}].dialog = ui.dialog
        BY UITyped DEF UI
    <2>5. CASE ReadArrives(f, good)
        BY <1>1, <2>3, <2>5 DEF ReadArrives, Hears
    <2>6. CASE disabled(f, good)
        BY <1>1, <2>2, <2>6 DEF disabled, Hears
    <2>7. CASE texted(f, good)
        BY <1>1, <2>3, <2>7 DEF texted, Hears
    <2>8. CASE smsConfirmed(f, good)
        BY <1>1, <2>2, <2>3, <2>8 DEF smsConfirmed, Hears
    <2>9. CASE factorConfirmed(f, good)
        BY <1>1, <2>2, <2>9 DEF factorConfirmed, Hears
    <2>10. CASE codesMade(f, good)
        BY <1>1, <2>2, <2>4, <2>10 DEF codesMade, Hears
    <2> QED
        BY <1>10, <2>5, <2>6, <2>7, <2>8, <2>9, <2>10 DEF useTwoFactor
<1> QED
    BY <1>2, <1>5, <1>6, <1>7, <1>8, <1>9, <1>10, ScreenAssumption
       DEF FactorNext, SetsUpAtProvider, RecoversElsewhere, MakesElsewhere, Elsewhere

\* A page is drawn without a dialog, and the other cards have none of this kind.
LEMMA AskedAlways == ScreenTyped /\ AskedInv /\ [Next]_screen => AskedInv'
<1> SUFFICES ASSUME ScreenTyped, AskedInv, [Next]_screen, card' = "factors" PROVE AskedInv'
    BY DEF AskedInv
<1>1. CASE UNCHANGED <<card, ui>>
    BY <1>1 DEF AskedInv
<1>2. CASE Next /\ card \in HomeCards
    BY <1>2, HomeNext DEF Stays, HomeCards
<1>3. CASE FactorNext
    BY <1>3, AskedStep
<1>4. CASE SsoNext \/ PasskeyNext \/ EntranceNext
    <2>1. card = "factors"
        BY <1>4, SsoStays, PasskeyStays, EntranceStays
    <2>2. LinksAtProvider \/ \E r \in Rows : RegistersAtProvider(r)
        BY <1>4, <2>1 DEF SsoNext, PasskeyNext, EntranceNext, OnPage
    <2> QED
        BY <1>1, <2>2 DEF LinksAtProvider, RegistersAtProvider
<1>5. CASE RedirectsNext
    <2>1. \A claim : Drawn(claim).dialog.action = "none"
        BY DEF Drawn, Nowhere
    <2>2. CASE DrawsClaimed \/ TurnsBack
        BY <2>1, <2>2 DEF DrawsClaimed, Draws, TurnsBack, AskedInv
    <2>3. ~GoesBackToLogin
        BY DEF GoesBackToLogin
    <2> QED
        BY <1>1, <1>5, <2>2, <2>3 DEF RedirectsNext, ComesBack, AuthCallback, linkReturnUri, Goes
<1>6. CASE EmailNext \/ WalletCardNext \/ ActivityNext \/ PasswordNext \/ ProfileNext \/ NotificationsNext
    <2>1. card \in HomeCards
        BY <1>6 DEF EmailNext, WalletCardNext, ActivityNext, PasswordNext, ProfileNext,
                    NotificationsNext, OnPage, HomeCards
    <2> QED
        BY <1>2, <1>6, <2>1 DEF Next
<1> QED
    BY <1>1, <1>3, <1>4, <1>5, <1>6 DEF Next, screen

LEMMA StartKeepsMarkers ==
    ASSUME ScreenTyped, MarkersInv, trip.place = "page", NEW kind \in Kinds, NEW row \in RowOrNone,
           startRedirect(kind, row), kind \in {"factor", "passkey"} => row # None
    PROVE  MarkersInv'
<1>1. /\ trip'.place = "provider" /\ trip'.want = kind /\ trip'.markers = Marked(kind, row)
      /\ trip'.clean = trip.clean
    BY TripTyped DEF startRedirect, Trip
<1>2. trip.markers \in [Kinds -> RowOrNone]
    BY TripTyped
<1>3. \A k \in Kinds : trip'.markers[k] = IF k = kind /\ k # "login" THEN row ELSE trip.markers[k]
    BY <1>1, <1>2 DEF Marked
<1> QED
    BY <1>1, <1>3 DEF MarkersInv, LandsWhereAsked, Kinds

LEMMA CannotStartKeepsMarkers ==
    ASSUME ScreenTyped, MarkersInv, NEW kind \in Kinds, NEW row \in RowOrNone, NEW next,
           CannotStart(kind, row, next)
    PROVE  MarkersInv'
<1>1. /\ trip'.place = trip.place /\ trip'.want = trip.want /\ trip'.claimed = trip.claimed
      /\ trip'.markers = Marked(kind, row) /\ trip'.clean = (trip.clean /\ kind = "login")
    BY TripTyped DEF CannotStart, Trip
<1>2. trip.markers \in [Kinds -> RowOrNone] /\ "login" \in Kinds
    BY TripTyped DEF Kinds
<1>3. CASE kind = "login"
    BY <1>1, <1>3, TripTyped DEF Marked, MarkersInv, LandsWhereAsked
<1>4. CASE kind # "login"
    <2>1. trip'.markers["login"] = trip.markers["login"]
        BY <1>1, <1>2, <1>4 DEF Marked
    <2> QED
        BY <1>1, <1>4, <2>1 DEF MarkersInv, LandsWhereAsked
<1> QED
    BY <1>3, <1>4

LEMMA CallbackKeepsMarkers ==
    ASSUME ScreenTyped, MarkersInv, NEW m, NEW g, NEW l, AuthCallback(m, g, l)
    PROVE  MarkersInv'
<1>1. /\ trip \in Trip /\ trip.markers \in [Kinds -> RowOrNone] /\ trip.want \in Kinds
      /\ trip.place = "callback" /\ Kinds = {"link", "factor", "passkey", "login"}
    BY TripTyped DEF AuthCallback, Kinds
<1>2. /\ \A k \in Kinds : take("link")[k] = IF k = "link" THEN None ELSE trip.markers[k]
      /\ \A k \in Kinds : takeBoth("link", "factor")[k] =
                            IF k \in {"link", "factor"} THEN None ELSE trip.markers[k]
      /\ \A k \in Kinds : takeAll[k] = None
    BY <1>1 DEF take, takeBoth, takeAll
<1>3. CASE Linking(l) /\ resumeAccountLink
    <2>1. /\ trip'.place = "linking" /\ trip'.want = trip.want /\ trip'.clean = trip.clean
          /\ trip'.markers = take("link") /\ trip.markers["link"] # None
        BY <1>1, <1>3 DEF resumeAccountLink, Linking, Trip
    <2> QED
        BY <1>1, <1>2, <2>1 DEF MarkersInv, LandsWhereAsked
<1>4. CASE Configured
    <2>1. /\ trip'.place = "security" /\ trip'.want = trip.want /\ trip'.clean = trip.clean
          /\ trip'.claimed = "factor"
          /\ trip'.markers = takeBoth("link", "factor") /\ trip.markers["factor"] # None
        BY <1>1, <1>4 DEF Configured, SecurityPage, Trip
    <2> QED
        BY <1>1, <1>2, <2>1 DEF MarkersInv, LandsWhereAsked
<1>5. ASSUME NEW cancelled \in BOOLEAN, Registered(cancelled) PROVE MarkersInv'
    <2>1. /\ trip'.place = "security" /\ trip'.want = trip.want /\ trip'.clean = trip.clean
          /\ trip'.claimed = "passkey"
          /\ trip'.markers = takeAll /\ trip.markers["passkey"] # None
        BY <1>1, <1>5 DEF Registered, SecurityPage, Trip
    <2> QED
        BY <1>1, <1>2, <2>1 DEF MarkersInv, LandsWhereAsked
<1>6. CASE Dashboard
    <2>1. /\ trip'.place = "dashboard" /\ trip'.want = trip.want /\ trip'.clean = trip.clean
          /\ trip'.markers = takeAll
          /\ trip.markers["factor"] = None /\ trip.markers["passkey"] = None
        BY <1>1, <1>6 DEF Dashboard, Trip
    <2> QED
        BY <1>1, <1>2, <2>1 DEF MarkersInv, LandsWhereAsked
<1>7. CASE trip' = [trip EXCEPT !.place = "failed", !.kept = FALSE, !.clean = @ /\ trip.want = "login"]
    <2>1. /\ trip'.place = "failed" /\ trip'.want = trip.want /\ trip'.markers = trip.markers
          /\ trip'.clean = (trip.clean /\ trip.want = "login")
        BY <1>1, <1>7 DEF Trip
    <2> QED
        BY <1>1, <2>1 DEF MarkersInv, LandsWhereAsked
<1> QED
    BY <1>3, <1>4, <1>5, <1>6, <1>7 DEF AuthCallback

LEMMA RedirectsKeepMarkers == ASSUME ScreenTyped, MarkersInv, RedirectsNext PROVE MarkersInv'
<1>1. trip \in Trip
    BY TripTyped
<1>2. ASSUME NEW coded \in BOOLEAN, ComesBack(coded) PROVE MarkersInv'
    <2>1. /\ trip.place = "provider" /\ trip'.place = (IF coded THEN "callback" ELSE "home")
          /\ trip'.want = trip.want /\ trip'.markers = trip.markers
          /\ trip'.clean = (trip.clean /\ (coded \/ trip.want = "login"))
        BY <1>1, <1>2 DEF ComesBack, Goes, Trip
    <2> QED
        BY <2>1 DEF MarkersInv, LandsWhereAsked
<1>3. CASE linkReturnUri
    <2>1. /\ trip.place = "linking" /\ trip'.place = "security" /\ trip'.claimed = "link"
          /\ trip'.want = trip.want /\ trip'.markers = trip.markers /\ trip'.clean = trip.clean
        BY <1>1, <1>3 DEF linkReturnUri, Goes, Trip
    <2> QED
        BY <2>1 DEF MarkersInv, LandsWhereAsked
<1>4. CASE DrawsClaimed \/ GoesBackToLogin
    <2>1. /\ trip.place \notin {"provider", "callback"} /\ trip'.place = "page"
          /\ trip'.want = trip.want /\ trip'.markers = trip.markers /\ trip'.clean = trip.clean
        BY <1>1, <1>4 DEF DrawsClaimed, Draws, GoesBackToLogin, logout, Trip
    <2> QED
        BY <2>1 DEF MarkersInv, LandsWhereAsked
<1>5. CASE TurnsBack
    <2>1. trip'.place = "page" /\ trip'.markers = trip.markers /\ ~trip'.clean
        BY <1>1, <1>5 DEF TurnsBack, Trip
    <2> QED
        BY <2>1 DEF MarkersInv, LandsWhereAsked
<1> QED
    BY <1>2, <1>3, <1>4, <1>5, CallbackKeepsMarkers DEF RedirectsNext

LEMMA MarkersAlways == ScreenTyped /\ AskedInv /\ MarkersInv /\ [Next]_screen => MarkersInv'
<1> SUFFICES ASSUME ScreenTyped, AskedInv, MarkersInv, [Next]_screen PROVE MarkersInv'
    OBVIOUS
<1>1. CASE trip' = trip
    BY <1>1 DEF MarkersInv, LandsWhereAsked
<1>2. CASE SsoNext
    <2>1. CASE OnPage("sso") /\ connecting
        <3>1. ui.dialog.row \in RowOrNone /\ "link" \in Kinds
            BY UITyped DEF Kinds
        <3> QED
            BY <2>1, <3>1, StartKeepsMarkers, CannotStartKeepsMarkers
               DEF connecting, beginAccountLink, OnPage
    <2> QED
        BY <1>1, <1>2, <2>1, SsoStays
<1>3. CASE PasskeyNext
    <2>1. CASE OnPage("passkeys") /\ addingAPasskey
        <3>1. Sms \in RowOrNone /\ Sms # None /\ "passkey" \in Kinds
            BY ScreenAssumption DEF Kinds, RowOrNone
        <3> QED
            BY <2>1, <3>1, StartKeepsMarkers, CannotStartKeepsMarkers
               DEF addingAPasskey, beginPasskeyRegistration, OnPage
    <2> QED
        BY <1>1, <1>3, <2>1, PasskeyStays
<1>4. CASE FactorNext
    <2>1. CASE OnPage("factors") /\ enabling
        <3>1. ui.dialog.action = "enable"
            BY <2>1 DEF enabling, TwoFactorDialog
        <3>2. ui.dialog.row \in RowOrNone /\ ui.dialog.row # None /\ "factor" \in Kinds
            BY <2>1, <3>1, ScreenAssumption DEF AskedInv, OnPage, Kinds, RowOrNone
        <3> QED
            BY <2>1, <3>2, StartKeepsMarkers, CannotStartKeepsMarkers
               DEF enabling, beginSecondFactorSetup, OnPage
    <2> QED
        BY <1>1, <1>4, <2>1, FactorStays
<1>5. CASE EntranceNext
    <2>1. CASE trip.place = "page" /\ leaveFor
        <3>1. None \in RowOrNone /\ "login" \in Kinds
            BY DEF Kinds, RowOrNone
        <3> QED
            BY <2>1, <3>1, StartKeepsMarkers, CannotStartKeepsMarkers DEF leaveFor
    <2>2. ASSUME NEW f \in flight, enters(f) PROVE MarkersInv'
        <3>1. /\ trip'.place = "dashboard" /\ trip'.want = "login" /\ trip'.markers = trip.markers
              /\ trip'.clean = trip.clean /\ trip.place \in {"page", "dashboard"}
            BY <1>5, <2>2, TripTyped DEF enters, EntranceNext, Trip
        <3> QED
            BY <3>1 DEF MarkersInv, LandsWhereAsked
    <2> QED
        BY <1>1, <1>5, <2>1, <2>2, EntranceStays
<1>6. CASE UNCHANGED screen
    BY <1>1, <1>6 DEF screen
<1> QED
    BY <1>1, <1>2, <1>3, <1>4, <1>5, <1>6, RedirectsKeepMarkers, EmailStays, WalletStays, ActivityStays,
       PasswordStays, ProfileStays, NotificationsStay DEF Next, Stays

\* Whatever earlier trips left in storage, the browser lands where the last
\* one was meant to lead, for any number of trips, as long as none of them was
\* given up.
THEOREM TripsLand == Spec => []LandsWhereAsked
<1>1. Init => AskedInv /\ MarkersInv
    <2> SUFFICES ASSUME Init PROVE AskedInv /\ MarkersInv
        OBVIOUS
    <2>1. /\ ui.dialog.action = "none"
          /\ trip.place = "page" /\ trip.markers = takeAll
        BY DEF Init, Drawn, Nowhere
    <2>2. \A k \in Kinds : takeAll[k] = None
        BY DEF takeAll
    <2> QED
        BY <2>1, <2>2 DEF AskedInv, MarkersInv, LandsWhereAsked, Kinds
<1>2. MarkersInv => LandsWhereAsked
    BY DEF MarkersInv
<1> QED
    BY <1>1, <1>2, AskedAlways, MarkersAlways, AlwaysTyped, PTL DEF Spec

LEMMA StampsTyped ==
    ASSUME ScreenTyped
    PROVE  /\ server.stamp \in Nat /\ ui.held.stamp \in Nat /\ MaxStamp \in Nat
           /\ \A f \in flight : f.got.stamp \in Nat
<1>1. server \in Held /\ ui.held \in Held /\ \A f \in flight : f.got \in Held
    BY UITyped, RequestTyped DEF ScreenTyped, ScreenTypeOK
<1> QED
    BY <1>1, ScreenAssumption DEF Held

\* Stamps only grow at the API.
LEMMA WithGrows ==
    ASSUME ScreenTyped, NEW rows, NEW aside
    PROVE  With(rows, aside).stamp >= server.stamp
BY StampsTyped DEF With

LEMMA FactorAfterGrows ==
    ASSUME ScreenTyped, NEW op, NEW r, NEW left
    PROVE  FactorAfter(op, r, left).stamp \in Nat /\ FactorAfter(op, r, left).stamp >= server.stamp
<1>1. \A rows, aside : With(rows, aside).stamp \in Nat /\ With(rows, aside).stamp >= server.stamp
    BY StampsTyped, WithGrows DEF With
<1>2. server.stamp \in Nat /\ server.stamp >= server.stamp
    BY StampsTyped
<1> QED
    BY <1>1, <1>2 DEF FactorAfter, Put, Aside

-----------------------------------------------------------------------------
(* The recovery codes on screen.                                           *)

Generated == {f \in flight : f.op = "generate"}

\* A set works until a newer one is made in another tab.  A set has the number
\* of the change that made it, so the next one has a higher number.
Works(n) ==
    \/ n = server.aside /\ n <= server.stamp + 1
    \/ "elsewhere" \in disturbed /\ n < server.aside

\* Unless a call was lost, codes are on screen only on their page and work or
\* were replaced in another tab; at most one set is being made here, while none
\* is on screen.
MadeInv ==
    "lost" \notin disturbed =>
        /\ ui.codes # 0 => OnPage("factors") /\ Works(ui.codes)
        /\ \A f \in Generated :
              /\ OnPage("factors") /\ ui.codes = 0 /\ "making" \in ui.marks /\ f.waits
              /\ f.at = "answered" => Works(f.got.aside)
              /\ \A g \in Generated : g = f

\* Only the two-factor card shows codes, and asks for them.
NoCodes == ui'.codes \in {ui.codes, 0} /\ (Generated = {} => Generated' = {})

LEMMA NothingGenerated ==
    ASSUME ScreenTyped', card' \in HomeCards PROVE Generated' = {}
BY DEF Generated, ScreenTyped, AtHome, HomeCards, OpsAt

LEMMA EmailCodes == ASSUME ScreenTyped, EmailNext PROVE ui'.codes = ui.codes
<1>1. ASSUME NEW f \in flight, NEW good \in BOOLEAN, useEmails(f, good) PROVE ui'.codes = ui.codes
    BY <1>1, UITyped DEF UI, useEmails, ReadArrives, acted, added, privacySaved, Hears, Replaced,
                         WithAddresses
<1>2. ASSUME NEW op, NEW r, act(op, r) \/ addsEmail(r) \/ VerifyEmail(r) \/ setPrivacy(op)
      PROVE  ui'.codes = ui.codes
    BY <1>2, UITyped DEF UI, act, addsEmail, VerifyEmail, setPrivacy, Presses, Elsewhere
<1> QED
    BY <1>1, <1>2 DEF EmailNext, Reads, Handles

LEMMA WalletCodes == ASSUME ScreenTyped, WalletCardNext PROVE ui'.codes = ui.codes
<1>1. ASSUME NEW f \in flight, NEW good \in BOOLEAN, useWallet(f, good) PROVE ui'.codes = ui.codes
    BY <1>1, UITyped DEF UI, useWallet, ReadArrives, walletActed, saved, Hears, Replaced
<1>2. ASSUME NEW f \in flight, Reads(f) \/ Looks(f) \/ Commits(f) PROVE ui'.codes = ui.codes
    BY <1>2 DEF Reads, Looks, Commits, Handles
<1>3. ASSUME NEW op, NEW r, \/ actOnMethod(op, r) \/ setAdding(op) \/ closeAdding
                            \/ submitAccount(r) \/ submitCard(r)
      PROVE  ui'.codes = ui.codes
    BY <1>3, UITyped DEF UI, actOnMethod, setAdding, closeAdding, submitCard, submitAccount, Opens, Closes,
                         Shows, Presses
<1> QED
    BY <1>1, <1>2, <1>3 DEF WalletCardNext

LEMMA ActivityCodes == ASSUME ScreenTyped, ActivityNext PROVE ui'.codes = ui.codes
BY UITyped DEF UI, ActivityNext, setViewing, closeViewing, onAnswer, Opens, Closes, Shows, Presses,
       Elsewhere, Reads, Handles, useSecurityActivity, ReadArrives, answered, Hears, Replaced

LEMMA PasswordCodes == ASSUME ScreenTyped, PasswordNext PROVE ui'.codes = ui.codes
BY UITyped DEF UI, PasswordNext, fillsPassword, changing, Shows, Presses, Reads, Handles, usePassword,
       passwordRead, changed, Hears, ReplacedOnly

LEMMA ProfileCodes == ASSUME ScreenTyped, ProfileNext PROVE ui'.codes = ui.codes
BY UITyped DEF UI, ProfileNext, submitProfile, Elsewhere, Reads, Handles, ProfileProvider,
       profileRead, profileSaved, Hears, Replaced, ReplacedOnly, Seeding

LEMMA NotificationCodes == ASSUME ScreenTyped, NotificationsNext PROVE ui'.codes = ui.codes
BY UITyped DEF UI, NotificationsNext, useMarkAllNotificationsRead, useMarkNotificationRead, Notified,
       Presses, Elsewhere, AtTheApi, Handles, useNotifications, listed, counted, marked,
       invalidateQueries, Hears

LEMMA HomeCodes == ASSUME ScreenTyped, Next, card \in HomeCards PROVE NoCodes
<1>1. Generated' = {}
    BY NextTyped, NothingGenerated, HomeNext DEF Stays
<1> QED
    BY <1>1, HomeNext, EmailCodes, WalletCodes, ActivityCodes, PasswordCodes, ProfileCodes,
       NotificationCodes DEF NoCodes

\* What becomes of the requests of the other cards.
LEMMA PressedCodes ==
    ASSUME NEW op, NEW row, NEW next, Presses(op, row, next), op # "generate"
    PROVE  Generated' = Generated /\ ui' = next
BY DEF Presses, SendsWith, Asks, Generated

LEMMA HandledCodes ==
    ASSUME ScreenTyped, NEW f \in flight, NEW allowed, NEW after, Handles(f, allowed, after)
    PROVE  /\ ui' = ui /\ (Generated = {} => Generated' = {})
           /\ f.op # "generate" => Generated' = Generated
<1>1. ui' = ui
    BY DEF Handles
<1>2. PICK k : flight' = (flight \ {f}) \union (IF k.waits THEN {k} ELSE {}) /\ k.op = f.op
    BY HandledOne
<1> QED
    BY <1>1, <1>2 DEF Generated

LEMMA HeardCodes ==
    ASSUME ScreenTyped, NEW f \in flight, NEW good, NEW next, Hears(f, good, next)
    PROVE  /\ ui' = next /\ (Generated = {} => Generated' = {})
           /\ "lost" \notin disturbed' => Generated' = Generated \ {f}
BY HeardOne DEF Generated

LEMMA StartCodes ==
    ASSUME ScreenTyped, NEW kind, NEW row, startRedirect(kind, row)
    PROVE  /\ ui' = ui /\ (Generated = {} => Generated' = {})
           /\ "lost" \notin disturbed' => Generated' = {}
<1>1. \A g \in flight : [g EXCEPT !.waits = FALSE].op = g.op
    BY RequestTyped DEF Request
<1>2. /\ flight' = {[f EXCEPT !.waits = FALSE] : f \in {g \in flight : g.at = "sent"}}
      /\ "lost" \notin disturbed' => flight' = {}
      /\ ui' = ui
    BY DEF startRedirect, Deserted
<1>3. \A g \in flight' : \E f \in flight : g.op = f.op
    BY <1>1, <1>2
<1>4. Generated = {} => Generated' = {}
    BY <1>3 DEF Generated
<1> QED
    BY <1>2, <1>4 DEF Generated

LEMMA SsoCodes == ASSUME ScreenTyped, SsoNext PROVE NoCodes
<1>1. CASE LinksAtProvider
    BY <1>1 DEF LinksAtProvider, NoCodes, Generated
<1>2. ASSUME NEW op, NEW r, setConnection(op, r) \/ closeConnection \/ disconnecting PROVE NoCodes
    BY <1>2, UITyped, PressedCodes DEF UI, NoCodes, setConnection, closeConnection, disconnecting, Opens,
                                       Closes, Shows, Generated
<1>3. CASE connecting
    <2>1. ui'.codes = ui.codes
        BY <1>3, UITyped DEF UI, connecting, beginAccountLink, startRedirect, CannotStart
    <2>2. Generated = {} => Generated' = {}
        BY <1>3, StartCodes DEF connecting, beginAccountLink, CannotStart, Generated
    <2> QED
        BY <2>1, <2>2 DEF NoCodes
<1>4. ASSUME NEW after, Elsewhere(after) PROVE NoCodes
    BY <1>4 DEF Elsewhere, NoCodes, Generated
<1>5. ASSUME NEW f \in flight, NEW allowed, NEW after, Reads(f) \/ Handles(f, allowed, after)
      PROVE  NoCodes
    BY <1>5, HandledCodes DEF Reads, NoCodes
<1>6. ASSUME NEW f \in flight, NEW good \in BOOLEAN, useSignInMethods(f, good) PROVE NoCodes
    <2>1. PICK next : Hears(f, good, next)
        BY <1>6 DEF useSignInMethods, ReadArrives, disconnected, confirmedLink
    <2>2. ui'.codes = ui.codes
        BY <1>6, UITyped DEF UI, useSignInMethods, ReadArrives, disconnected, confirmedLink, Hears,
                             ReplacedOnly
    <2> QED
        BY <2>1, <2>2, HeardCodes DEF NoCodes
<1> QED
    BY <1>1, <1>2, <1>3, <1>4, <1>5, <1>6 DEF SsoNext

LEMMA PasskeyCodes == ASSUME ScreenTyped, PasskeyNext PROVE NoCodes
<1>1. ASSUME NEW r, RegistersAtProvider(r) PROVE NoCodes
    BY <1>1 DEF RegistersAtProvider, NoCodes, Generated
<1>2. ASSUME NEW op, NEW r, setPasskeyRequest(op, r) \/ closePasskey \/ removingPasskey PROVE NoCodes
    BY <1>2, UITyped, PressedCodes DEF UI, NoCodes, setPasskeyRequest, closePasskey, removingPasskey,
                                       Opens, Closes, Shows, Generated
<1>3. CASE addingAPasskey
    <2>1. ui'.codes = ui.codes
        BY <1>3, UITyped DEF UI, addingAPasskey, beginPasskeyRegistration, startRedirect, CannotStart
    <2>2. Generated = {} => Generated' = {}
        BY <1>3, StartCodes DEF addingAPasskey, beginPasskeyRegistration, CannotStart, Generated
    <2> QED
        BY <2>1, <2>2 DEF NoCodes
<1>4. CASE RemovedElsewhere
    BY <1>4 DEF RemovedElsewhere, Elsewhere, NoCodes, Generated
<1>5. ASSUME NEW f \in flight, NEW allowed, NEW after, Reads(f) \/ Handles(f, allowed, after)
      PROVE  NoCodes
    BY <1>5, HandledCodes DEF Reads, NoCodes
<1>6. ASSUME NEW f \in flight, NEW good \in BOOLEAN, usePasskeys(f, good) PROVE NoCodes
    <2>1. PICK next : Hears(f, good, next)
        BY <1>6 DEF usePasskeys, ReadArrives, passkeyRemoved, passkeyConfirmed
    <2>2. ui'.codes = ui.codes
        BY <1>6, UITyped DEF UI, usePasskeys, ReadArrives, passkeyRemoved, passkeyConfirmed, Hears,
                             ReplacedOnly
    <2> QED
        BY <2>1, <2>2, HeardCodes DEF NoCodes
<1> QED
    BY <1>1, <1>2, <1>3, <1>4, <1>5, <1>6 DEF PasskeyNext

LEMMA EntranceCodes == ASSUME ScreenTyped, EntranceNext PROVE NoCodes
<1>1. ASSUME NEW d, opens(d) \/ follows(d) PROVE NoCodes
    BY <1>1, UITyped DEF UI, NoCodes, Generated, opens, follows, Opens, Shows
<1>2. CASE closes \/ setRecovering
    BY <1>2, UITyped DEF UI, NoCodes, Generated, closes, setRecovering, Shows
<1>3. CASE submitLogin \/ recover \/ submitSignUp \/ submitForgot
    <2>1. \A d : Waits(d).codes = ui.codes
        BY UITyped DEF UI, Waits
    <2> QED
        BY <1>3, <2>1, PressedCodes DEF NoCodes, submitLogin, recover, submitSignUp, submitForgot
<1>4. CASE leaveFor
    <2>1. ui'.codes = ui.codes
        BY <1>4, UITyped DEF UI, leaveFor, startRedirect, CannotStart
    <2>2. Generated = {} => Generated' = {}
        BY <1>4, StartCodes DEF leaveFor, CannotStart, Generated
    <2> QED
        BY <2>1, <2>2 DEF NoCodes
<1>5. ASSUME NEW f \in flight, NEW allowed, Handles(f, allowed, server) PROVE NoCodes
    BY <1>5, HandledCodes DEF NoCodes
<1>6. ASSUME NEW f \in flight, enters(f) \/ registered(f) PROVE NoCodes
    BY <1>6, UITyped DEF UI, enters, registered, Answers, Asks, NoCodes, Generated
<1>7. ASSUME NEW f \in flight, NEW good \in BOOLEAN,
             refused(f) \/ notRegistered(f) \/ recovered(f, good) \/ asked(f, good)
      PROVE  NoCodes
    <2>1. \E next, b : Hears(f, b, next)
        BY <1>7 DEF refused, notRegistered, recovered, asked
    <2>2. ui'.codes = ui.codes
        BY <1>7, UITyped DEF UI, refused, notRegistered, recovered, asked, Hears
    <2> QED
        BY <2>1, <2>2, HeardCodes DEF NoCodes
<1> QED
    BY <1>1, <1>2, <1>3, <1>4, <1>5, <1>6, <1>7 DEF EntranceNext

\* The two-factor card itself.
LEMMA MadeStep ==
    ASSUME ScreenTyped, MadeInv, FactorNext PROVE MadeInv'
<1> SUFFICES ASSUME "lost" \notin disturbed' PROVE MadeInv'
    BY DEF MadeInv
<1>1. "lost" \notin disturbed /\ disturbed \subseteq disturbed'
    BY DisturbedGrows DEF Next
<1>4. /\ server.stamp \in Nat /\ server.aside \in Nat /\ server'.stamp \in Nat /\ server'.aside \in Nat
      /\ ui.codes \in Nat /\ \A f \in flight : f.got.aside \in Nat
    <2>1. ScreenTyped'
        BY NextTyped DEF Next
    <2>2. server \in Held /\ server' \in Held /\ \A f \in flight : f.got \in Held
        BY <2>1, RequestTyped DEF ScreenTyped, ScreenTypeOK
    <2> QED
        BY <2>2, UITyped, ScreenAssumption DEF Held
<1>2. CASE SetsUpAtProvider
    <2>1. ~OnPage("factors") /\ UNCHANGED <<ui, flight>>
        BY <1>2 DEF SetsUpAtProvider, OnPage
    <2> QED
        BY <1>1, <2>1 DEF MadeInv, Generated
<1>3. CASE OnPage("factors")
    \* Nothing that matters changes.
    <2>1. ASSUME UNCHANGED <<card, trip>>, server'.aside = server.aside, server'.stamp >= server.stamp,
                 Generated' = Generated, ui'.codes = ui.codes, ui.marks \subseteq ui'.marks
          PROVE  MadeInv'
        <3>1. /\ Works(ui.codes) => Works(ui.codes)'
              /\ \A f \in Generated : Works(f.got.aside) => (Works(f.got.aside))'
            BY <1>1, <1>4, <2>1 DEF Works, Generated
        <3> QED
            BY <1>1, <2>1, <3>1 DEF MadeInv, OnPage
    <2>2. ASSUME NEW op, NEW r, \/ setFactorRequest(op, r) \/ startAddingPhone \/ closeFactor
                                \/ backToNumber
          PROVE  MadeInv'
        <3>1. ui'.codes = ui.codes /\ ui'.marks = ui.marks
            BY <2>2, UITyped DEF UI, setFactorRequest, startAddingPhone, closeFactor, backToNumber,
                                 Opens, Closes, Shows
        <3>2. UNCHANGED <<card, trip, server, flight>>
            BY <2>2 DEF setFactorRequest, startAddingPhone, closeFactor, backToNumber, Opens, Closes, Shows
        <3> QED
            BY <1>4, <2>1, <3>1, <3>2 DEF Generated
    <2>3. CASE disabling \/ textingCode \/ confirmingCode
        <3>1. /\ \A b : /\ [ui EXCEPT !.busy = b].codes = ui.codes
                        /\ [ui EXCEPT !.busy = b].marks = ui.marks
            BY UITyped DEF UI
        <3>2. UNCHANGED <<card, trip, server>> /\ Generated' = Generated
            BY <2>3, PressedCodes DEF disabling, textingCode, confirmingCode, Presses
        <3>3. ui'.codes = ui.codes /\ ui'.marks = ui.marks
            BY <2>3, <3>1 DEF disabling, textingCode, confirmingCode, Presses
        <3> QED
            BY <1>4, <2>1, <3>2, <3>3
    <2>4. CASE makingRecoveryCodes
        <3> DEFINE new == Asks(sent + 1, "generate", None, 0)
        <3>1. /\ ui.codes = 0 /\ "making" \notin ui.marks /\ flight' = flight \union {new}
              /\ UNCHANGED <<card, trip, server>>
              /\ ui' = [ui EXCEPT !.marks = @ \union {"making"}]
            BY <2>4 DEF makingRecoveryCodes, Free, RecoveryCodesCard, Presses, SendsWith
        <3>2. Generated = {}
            BY <1>1, <3>1 DEF MadeInv
        <3>3. new.op = "generate" /\ new.at = "sent" /\ new.waits
            BY DEF Asks
        <3>4. Generated' = {new}
            BY <3>1, <3>2, <3>3 DEF Generated
        <3>5. ui'.codes = 0 /\ "making" \in ui'.marks
            BY <3>1, UITyped DEF UI
        <3> QED
            BY <1>3, <3>1, <3>3, <3>4, <3>5 DEF MadeInv, OnPage
    <2>5. CASE closeCodes
        <3>1. ui'.codes = 0 /\ ui'.marks = ui.marks
            BY <2>5, UITyped, ScreenAssumption DEF UI, closeCodes, Shows
        <3>2. UNCHANGED <<card, trip, server, flight, disturbed>>
            BY <2>5 DEF closeCodes, Shows
        <3> QED
            BY <1>1, <3>1, <3>2 DEF MadeInv, Works, OnPage, Generated
    <2>6. CASE enabling
        <3>1. ui.codes = 0
            BY <2>6 DEF enabling, InFront
        <3>2. CASE beginSecondFactorSetup(ui.dialog.row)
            <4>1. Generated' = {} /\ ui' = ui
                BY <3>2, StartCodes DEF beginSecondFactorSetup
            <4> QED
                BY <3>1, <4>1 DEF MadeInv
        <3>3. ASSUME NEW n, CannotStart("factor", ui.dialog.row,
                              [ui EXCEPT !.dialog = Nowhere, !.busy = None, !.notice = n])
              PROVE  MadeInv'
            <4>1. /\ ui'.codes = ui.codes /\ ui'.marks = ui.marks /\ trip'.place = trip.place
                  /\ UNCHANGED <<card, server, flight>>
                BY <3>3, UITyped, TripTyped DEF UI, Trip, CannotStart
            <4>2. UNCHANGED disturbed
                BY <3>3 DEF CannotStart
            <4> QED
                BY <1>1, <4>1, <4>2 DEF MadeInv, Works, OnPage, Generated
        <3> QED
            BY <2>6, <3>2, <3>3 DEF enabling
    <2>7. CASE RecoversElsewhere
        <3>1. /\ server'.aside = server.aside /\ UNCHANGED <<card, ui, trip, flight>>
              /\ server'.stamp >= server.stamp
            BY <1>4, <2>7, WithRows, WithGrows DEF RecoversElsewhere, Elsewhere
        <3> QED
            BY <2>1, <3>1 DEF Generated
    \* What was the newest set is replaced.
    <2>12. CASE MakesElsewhere
        <3>1. /\ "elsewhere" \notin disturbed /\ "elsewhere" \in disturbed'
              /\ server' = Aside(server.stamp + 1) /\ server'.stamp # server.stamp
              /\ UNCHANGED <<card, ui, trip, flight>>
            BY <1>4, <2>12 DEF MakesElsewhere, Elsewhere
        <3>2. server'.aside = server.stamp + 1 /\ server.aside # server.stamp + 1
            BY <3>1, WithRows DEF Aside, With
        <3>3. ASSUME NEW n \in Nat, Works(n) PROVE n < server'.aside
            BY <1>4, <3>1, <3>2, <3>3 DEF Works
        <3>4. /\ Works(ui.codes) => ui.codes < server'.aside
              /\ \A f \in Generated : Works(f.got.aside) => f.got.aside < server'.aside
            BY <1>4, <3>3 DEF Generated
        <3> QED
            BY <1>1, <3>1, <3>4 DEF MadeInv, Works, OnPage, Generated
    <2>8. ASSUME NEW f \in flight, NEW allowed, NEW after, Handles(f, allowed, after),
                 after.stamp >= server.stamp,
                 f.op # "generate" => after.aside = server.aside,
                 f.op = "generate" => after.aside = server.stamp + 1
          PROVE  MadeInv'
        <3>1. UNCHANGED <<card, ui, trip>>
            BY <2>8 DEF Handles
        <3>2. PICK k : /\ flight' = (flight \ {f}) \union (IF k.waits THEN {k} ELSE {})
                       /\ k.op = f.op /\ k.waits = f.waits
                       /\ \/ k.at = "answered" /\ k.got = after /\ server' = after
                          \/ k.at = "refused" /\ server' = server
            BY <2>8, HandledOne
        <3>3. CASE f.op # "generate"
            <4>1. Generated' = Generated /\ server'.aside = server.aside /\ server'.stamp >= server.stamp
                BY <1>4, <2>8, <3>2, <3>3, HandledCodes
            <4> QED
                BY <2>1, <3>1, <4>1
        <3>4. CASE f.op = "generate"
            <4>1. Generated = {f} /\ f.waits
                BY <1>1, <3>4 DEF MadeInv, Generated
            <4>2. Generated' = {k}
                BY <3>2, <3>4, <4>1 DEF Generated
            <4>3. ui.codes = 0 /\ "making" \in ui.marks
                BY <1>1, <4>1 DEF MadeInv
            <4>4. k.at = "answered" => Works(k.got.aside)'
                BY <1>4, <2>8, <3>2, <3>4 DEF Works
            <4> QED
                BY <1>3, <3>1, <3>2, <4>1, <4>2, <4>3, <4>4 DEF MadeInv, Works, OnPage
        <3> QED
            BY <3>3, <3>4
    <2>9. ASSUME NEW f \in flight, NEW good \in BOOLEAN, useTwoFactor(f, good) PROVE MadeInv'
        <3>1. PICK next : Hears(f, good, next)
            BY <2>9 DEF useTwoFactor, ReadArrives, disabled, texted, smsConfirmed, factorConfirmed,
                        codesMade
        <3>2. /\ Generated' = Generated \ {f} /\ UNCHANGED <<card, server, trip>>
              /\ f.at = IF good THEN "answered" ELSE "refused"
            BY <3>1, HeardCodes, HeardOne
        <3>3. CASE codesMade(f, good)
            <4>1. Generated' = {}
                BY <1>1, <3>2, <3>3 DEF MadeInv, codesMade, Generated
            <4>2. ui.codes = 0 /\ (good => Works(f.got.aside))
                BY <1>1, <3>2, <3>3 DEF MadeInv, codesMade, Generated
            <4>3. ui'.codes = IF good THEN f.got.aside ELSE ui.codes
                BY <3>3, UITyped, RequestTyped, HeldTyped DEF UI, codesMade, Hears
            <4> QED
                BY <1>1, <1>3, <3>2, <4>1, <4>2, <4>3 DEF MadeInv, Works, OnPage
        <3>4. CASE ReadArrives(f, good) \/ disabled(f, good) \/ texted(f, good)
                     \/ smsConfirmed(f, good) \/ factorConfirmed(f, good)
            <4>1. ui'.codes = ui.codes /\ ui'.marks = ui.marks
                BY <3>4, UITyped DEF UI, ReadArrives, disabled, texted, smsConfirmed, factorConfirmed,
                                     Hears, RowsOf
            <4>2. f.op # "generate"
                BY <3>4 DEF ReadArrives, disabled, texted, smsConfirmed, factorConfirmed
            <4>3. Generated' = Generated
                BY <3>2, <4>2 DEF Generated
            <4> QED
                BY <1>4, <2>1, <3>2, <4>1, <4>3
        <3> QED
            BY <2>9, <3>3, <3>4 DEF useTwoFactor
    <2>10. ASSUME NEW f \in flight, Reads(f) PROVE MadeInv'
        <3>1. Handles(f, TRUE, server) /\ f.op = "read"
            BY <2>10 DEF Reads
        <3>2. server.stamp >= server.stamp
            BY <1>4
        <3> QED
            BY <2>8, <3>1, <3>2
    <2>11. ASSUME NEW f \in flight, NEW right, NEW left,
                  Handles(f, FactorAllowed(f.op, f.row, right), FactorAfter(f.op, f.row, left))
           PROVE  MadeInv'
        <3>1. /\ f.op # "generate" => FactorAfter(f.op, f.row, left).aside = server.aside
              /\ f.op = "generate" => FactorAfter(f.op, f.row, left).aside = server.stamp + 1
            BY WithRows DEF FactorAfter, Put, Aside
        <3> QED
            BY <2>8, <2>11, <3>1, FactorAfterGrows
    <2> QED
        BY <1>2, <1>3, <2>2, <2>3, <2>4, <2>5, <2>6, <2>7, <2>9, <2>10, <2>11, <2>12 DEF FactorNext
<1> QED
    BY <1>2, <1>3 DEF FactorNext

LEMMA MadeAlways == ScreenTyped /\ MadeInv /\ [Next]_screen => MadeInv'
<1> SUFFICES ASSUME ScreenTyped, MadeInv, [Next]_screen, "lost" \notin disturbed' PROVE MadeInv'
    BY DEF MadeInv
<1>1. "lost" \notin disturbed
    BY DisturbedGrows
<1>2. CASE ~OnPage("factors") /\ NoCodes
    <2>1. Generated = {} /\ ui.codes = 0
        BY <1>1, <1>2 DEF MadeInv
    <2> QED
        BY <1>2, <2>1 DEF NoCodes, MadeInv
<1>3. CASE UNCHANGED screen
    BY <1>1, <1>3 DEF MadeInv, Works, OnPage, Generated, screen
<1>4. CASE FactorNext
    BY <1>4, MadeStep
<1>5. CASE SsoNext \/ PasskeyNext \/ EntranceNext
    <2>1. ~OnPage("factors")
        BY <1>5 DEF SsoNext, PasskeyNext, EntranceNext, LinksAtProvider, RegistersAtProvider, OnPage
    <2> QED
        BY <1>2, <1>5, <2>1, SsoCodes, PasskeyCodes, EntranceCodes
<1>6. CASE EmailNext \/ WalletCardNext \/ ActivityNext \/ PasswordNext \/ ProfileNext \/ NotificationsNext
    <2>1. card \in HomeCards /\ ~OnPage("factors")
        BY <1>6 DEF EmailNext, WalletCardNext, ActivityNext, PasswordNext, ProfileNext,
                    NotificationsNext, OnPage, HomeCards
    <2>2. Next
        BY <1>6 DEF Next
    <2> QED
        BY <1>2, <2>1, <2>2, HomeCodes
<1>7. CASE RedirectsNext
    <2>1. CASE GoesBackToLogin
        <3>1. \A f \in flight : ~f.waits
            BY <2>1 DEF GoesBackToLogin
        <3>2. Generated = {}
            BY <1>1, <3>1 DEF MadeInv, Generated
        <3>3. ui'.codes = 0 /\ Generated' = {}
            BY <2>1, <3>2, DrawnTyped DEF GoesBackToLogin, RowOrNone, Generated
        <3> QED
            BY <3>3 DEF MadeInv
    <2>2. CASE ~GoesBackToLogin
        <3>1. trip.place # "page"
            BY <1>7, <2>2 DEF RedirectsNext, ComesBack, AuthCallback, linkReturnUri, DrawsClaimed,
                              TurnsBack
        <3>2. Generated = {} /\ ui.codes = 0
            BY <1>1, <3>1 DEF MadeInv, OnPage
        <3>3. ui'.codes = 0
            BY <1>7, <2>2, <3>2, DrawnTyped, TripTyped
               DEF RedirectsNext, ComesBack, AuthCallback, linkReturnUri, Goes, DrawsClaimed, Draws,
                   TurnsBack, RowOrNone
        <3>4. \A g \in flight' : g \in flight \/ g.op \in {"read", "confirm"}
            <4>1. CASE DrawsClaimed
                BY <4>1 DEF DrawsClaimed, Draws, Confirms, Asks
            <4>2. CASE TurnsBack
                BY <4>2 DEF TurnsBack, Asks
            <4> QED
                BY <1>7, <2>2, <4>1, <4>2 DEF RedirectsNext, ComesBack, AuthCallback, linkReturnUri, Goes
        <3>5. Generated' = {}
            BY <3>2, <3>4 DEF Generated
        <3> QED
            BY <3>3, <3>5 DEF MadeInv
    <2> QED
        BY <2>1, <2>2
<1> QED
    BY <1>3, <1>4, <1>5, <1>6, <1>7 DEF Next

\* Recovery codes that are on screen are the ones that work, however often a
\* set is made and whatever else is done on the page, until a call is lost or a
\* newer set is made in another tab.
THEOREM ShownCodesWork == Spec => []CodesShownWork
<1>1. Init => MadeInv
    <2> SUFFICES ASSUME Init PROVE MadeInv
        OBVIOUS
    <2>1. ui.codes = 0
        BY DEF Init, Drawn
    <2>2. Generated = {}
        BY DEF Init, Opening, Asks, Generated
    <2> QED
        BY <2>1, <2>2 DEF MadeInv
<1>2. MadeInv => CodesShownWork
    BY DEF MadeInv, Works, CodesShownWork
<1> QED
    BY <1>1, <1>2, MadeAlways, AlwaysTyped, PTL DEF Spec

-----------------------------------------------------------------------------
(* What a row offers.                                                      *)

EmailStatuses == {"absent", "waiting", "verified", "primary", "unproved"}
SwitchStatuses == {"absent", "off", "on", "closed"}

\* What the lists hold for whose rows the page and the API have rules that
\* tell more than two statuses apart.
RulesInv ==
    /\ card = "emails" => server.rows \in [Rows -> EmailStatuses]
    /\ card \notin HomeCards => server.rows \in [Rows -> SwitchStatuses]

LEMMA EmailRules ==
    ASSUME ScreenTyped, EmailNext, server.rows \in [Rows -> EmailStatuses]
    PROVE  server'.rows \in [Rows -> EmailStatuses]
<1> USE DEF EmailStatuses
<1>1. ASSUME NEW r, NEW s \in EmailStatuses PROVE Put(r, s).rows \in [Rows -> EmailStatuses]
    BY WithRows DEF Put
<1>2. ASSUME NEW r \in Rows, VerifyEmail(r) PROVE server'.rows \in [Rows -> EmailStatuses]
    BY <1>1, <1>2 DEF VerifyEmail, Elsewhere
<1>3. ASSUME NEW f \in flight, Handles(f, EmailAllowed(f.op, f.row), EmailAfter(f.op, f.row)), f.op # "read"
      PROVE  server'.rows \in [Rows -> EmailStatuses]
    <2>1. server' = server \/ (server' = EmailAfter(f.op, f.row) /\ EmailAllowed(f.op, f.row))
        BY <1>3 DEF Handles
    <2>2. CASE f.op \in {"add", "remove"} /\ server' = EmailAfter(f.op, f.row)
        BY <1>1, <2>2 DEF EmailAfter
    <2>3. CASE f.op = "primary" /\ server' = EmailAfter(f.op, f.row)
        <3>1. server'.rows = [q \in Rows |-> IF q = f.row THEN "primary" ELSE Demoted(server.rows[q])]
            BY <2>3, WithRows DEF EmailAfter
        <3> QED
            BY <3>1 DEF Demoted
    <2>4. CASE f.op = "resend" /\ server' = EmailAfter(f.op, f.row)
        BY <2>4 DEF EmailAfter
    <2>5. CASE f.op \in {"private", "public"} /\ server' = EmailAfter(f.op, f.row)
        BY <2>5, WithRows DEF EmailAfter, Aside
    <2> QED
        BY <2>1, <2>2, <2>3, <2>4, <2>5 DEF EmailAllowed
<1>4. ASSUME NEW f \in flight, NEW good, useEmails(f, good) PROVE UNCHANGED server
    BY <1>4 DEF useEmails, ReadArrives, acted, added, privacySaved, Hears
<1>5. ASSUME NEW op, NEW r, act(op, r) \/ addsEmail(r) \/ setPrivacy(op) PROVE UNCHANGED server
    BY <1>5 DEF act, addsEmail, setPrivacy, Presses
<1>6. ASSUME NEW f \in flight, Reads(f) PROVE UNCHANGED server
    BY <1>6 DEF Reads, Handles
<1> QED
    BY <1>2, <1>3, <1>4, <1>5, <1>6 DEF EmailNext

LEMMA SsoRules ==
    ASSUME ScreenTyped, SsoNext, server.rows \in [Rows -> SwitchStatuses]
    PROVE  server'.rows \in [Rows -> SwitchStatuses]
<1> USE DEF SwitchStatuses
<1>1. ASSUME NEW r, NEW s \in SwitchStatuses PROVE Put(r, s).rows \in [Rows -> SwitchStatuses]
    BY WithRows DEF Put
<1>2. CASE LinksAtProvider
    BY <1>1, <1>2 DEF LinksAtProvider
<1>3. ASSUME NEW r, NEW left \in Apart, Elsewhere(Put(r, left))
      PROVE  server'.rows \in [Rows -> SwitchStatuses]
    BY <1>1, <1>3 DEF Elsewhere, Apart
<1>4. ASSUME NEW f, NEW left \in Apart, Handles(f, SsoAllowed(f.op, f.row), SsoAfter(f.op, f.row, left))
      PROVE  server'.rows \in [Rows -> SwitchStatuses]
    BY <1>1, <1>4 DEF Handles, SsoAfter, Apart
<1>5. ASSUME NEW f, NEW good, Reads(f) \/ useSignInMethods(f, good) PROVE UNCHANGED server
    BY <1>5 DEF Reads, Handles, useSignInMethods, ReadArrives, disconnected, confirmedLink, Hears
<1>6. ASSUME NEW op, NEW r, setConnection(op, r) \/ closeConnection \/ connecting \/ disconnecting
      PROVE  UNCHANGED server
    BY <1>6 DEF setConnection, closeConnection, connecting, disconnecting, beginAccountLink, startRedirect,
                CannotStart, Opens, Closes, Shows, Presses
<1> QED
    BY <1>2, <1>3, <1>4, <1>5, <1>6 DEF SsoNext

LEMMA PasskeyRules ==
    ASSUME ScreenTyped, PasskeyNext, server.rows \in [Rows -> SwitchStatuses]
    PROVE  server'.rows \in [Rows -> SwitchStatuses]
<1> USE DEF SwitchStatuses
<1>1. ASSUME NEW r, NEW s \in SwitchStatuses PROVE Put(r, s).rows \in [Rows -> SwitchStatuses]
    BY WithRows DEF Put
<1>2. ASSUME NEW r, RegistersAtProvider(r) PROVE server'.rows \in [Rows -> SwitchStatuses]
    BY <1>2, WithRows DEF RegistersAtProvider
<1>3. CASE RemovedElsewhere
    BY <1>1, <1>3 DEF RemovedElsewhere, Elsewhere
<1>4. ASSUME NEW f, Handles(f, PasskeyAllowed(f.op, f.row), PasskeyAfter(f.op, f.row))
      PROVE  server'.rows \in [Rows -> SwitchStatuses]
    BY <1>1, <1>4 DEF Handles, PasskeyAfter
<1>5. ASSUME NEW f, NEW good, Reads(f) \/ usePasskeys(f, good) PROVE UNCHANGED server
    BY <1>5 DEF Reads, Handles, usePasskeys, ReadArrives, passkeyRemoved, passkeyConfirmed, Hears
<1>6. ASSUME NEW op, NEW r, setPasskeyRequest(op, r) \/ closePasskey \/ addingAPasskey \/ removingPasskey
      PROVE  UNCHANGED server
    BY <1>6 DEF setPasskeyRequest, closePasskey, addingAPasskey, removingPasskey,
                beginPasskeyRegistration, startRedirect, CannotStart, Opens, Closes, Shows, Presses
<1> QED
    BY <1>2, <1>3, <1>4, <1>5, <1>6 DEF PasskeyNext

LEMMA FactorRules ==
    ASSUME ScreenTyped, FactorNext, server.rows \in [Rows -> SwitchStatuses]
    PROVE  server'.rows \in [Rows -> SwitchStatuses]
<1> USE DEF SwitchStatuses
<1>1. ASSUME NEW r, NEW s \in SwitchStatuses PROVE Put(r, s).rows \in [Rows -> SwitchStatuses]
    BY WithRows DEF Put
<1>2. CASE SetsUpAtProvider
    BY <1>1, <1>2 DEF SetsUpAtProvider
<1>3. CASE RecoversElsewhere \/ MakesElsewhere
    <2>1. ASSUME NEW left \in Leaves(Sms)
          PROVE  [r \in Rows |-> IF r = Sms THEN left ELSE "off"] \in [Rows -> SwitchStatuses]
        BY <2>1, LeavesTyped
    <2>2. RecoversElsewhere => server'.rows \in [Rows -> SwitchStatuses]
        BY <2>1, WithRows DEF RecoversElsewhere, Elsewhere
    <2>3. MakesElsewhere => server'.rows = server.rows
        BY WithRows DEF MakesElsewhere, Elsewhere, Aside
    <2> QED
        BY <1>3, <2>2, <2>3
<1>4. ASSUME NEW f, NEW right, NEW left \in Leaves(f.row),
             Handles(f, FactorAllowed(f.op, f.row, right), FactorAfter(f.op, f.row, left))
      PROVE  server'.rows \in [Rows -> SwitchStatuses]
    <2>1. FactorAfter(f.op, f.row, left).rows \in [Rows -> SwitchStatuses]
        BY <1>1, LeavesTyped, WithRows DEF FactorAfter, Aside
    <2> QED
        BY <1>4, <2>1 DEF Handles
<1>5. ASSUME NEW f, NEW good, Reads(f) \/ useTwoFactor(f, good) PROVE UNCHANGED server
    BY <1>5 DEF Reads, Handles, useTwoFactor, ReadArrives, disabled, texted, smsConfirmed,
                factorConfirmed, codesMade, Hears
<1>6. ASSUME NEW op, NEW r, \/ setFactorRequest(op, r) \/ startAddingPhone \/ closeFactor \/ backToNumber
                            \/ enabling \/ disabling \/ textingCode \/ confirmingCode
                            \/ makingRecoveryCodes \/ closeCodes
      PROVE  UNCHANGED server
    BY <1>6 DEF setFactorRequest, startAddingPhone, closeFactor, backToNumber, enabling, disabling,
                textingCode, confirmingCode, makingRecoveryCodes, closeCodes, beginSecondFactorSetup,
                startRedirect, CannotStart, Opens, Closes, Shows, Presses
<1> QED
    BY <1>2, <1>3, <1>4, <1>5, <1>6 DEF FactorNext

LEMMA EntranceRules == ASSUME EntranceNext PROVE UNCHANGED server
<1>1. ASSUME NEW d, opens(d) \/ follows(d) PROVE UNCHANGED server
    BY <1>1 DEF opens, follows, Opens, Shows
<1>2. CASE closes \/ setRecovering \/ submitLogin \/ recover \/ submitSignUp \/ submitForgot \/ leaveFor
    BY <1>2 DEF closes, setRecovering, submitLogin, recover, submitSignUp, submitForgot, leaveFor,
                startRedirect, CannotStart, Shows, Presses
<1>3. ASSUME NEW f, NEW right, Handles(f, right, server) PROVE UNCHANGED server
    BY <1>3 DEF Handles
<1>4. ASSUME NEW f, enters(f) \/ refused(f) \/ registered(f) \/ notRegistered(f) PROVE UNCHANGED server
    BY <1>4 DEF enters, refused, registered, notRegistered, Hears
<1>5. ASSUME NEW f, NEW good, recovered(f, good) \/ asked(f, good) PROVE UNCHANGED server
    BY <1>5 DEF recovered, asked, Hears
<1> QED
    BY <1>1, <1>2, <1>3, <1>4, <1>5 DEF EntranceNext

LEMMA RulesAlways == ScreenTyped /\ RulesInv /\ [Next]_screen => RulesInv'
<1> SUFFICES ASSUME ScreenTyped, RulesInv, [Next]_screen PROVE RulesInv'
    OBVIOUS
<1>1. CASE UNCHANGED screen
    BY <1>1 DEF screen, RulesInv
<1>2. CASE Next /\ card \in HomeCards
    <2>1. card' = card /\ (card = "emails" => EmailNext)
        BY <1>2, HomeNext DEF Stays
    <2> QED
        BY <1>2, <2>1, EmailRules DEF RulesInv
<1>3. CASE Next /\ card \notin HomeCards
    <2>1. card' \notin HomeCards
        BY <1>3, HomeIsNotReached
    <2>2. server.rows \in [Rows -> SwitchStatuses]
        BY <1>3 DEF RulesInv
    <2>3. SsoNext \/ PasskeyNext \/ FactorNext \/ EntranceNext \/ RedirectsNext
        BY <1>3 DEF Next, EmailNext, WalletCardNext, ActivityNext, PasswordNext, ProfileNext,
                    NotificationsNext, OnPage, HomeCards
    <2>4. RedirectsNext => UNCHANGED server
        BY DEF RedirectsNext, ComesBack, AuthCallback, linkReturnUri, Goes, DrawsClaimed, Draws,
               GoesBackToLogin, TurnsBack
    <2>5. server'.rows \in [Rows -> SwitchStatuses]
        BY <2>2, <2>3, <2>4, SsoRules, PasskeyRules, FactorRules, EntranceRules
    <2> QED
        BY <2>1, <2>5 DEF RulesInv, HomeCards
<1> QED
    BY <1>1, <1>2, <1>3

\* The two sets of rules agree.
LEMMA RulesAgree == ScreenTyped /\ RulesInv => OfferedIsAllowed
<1> SUFFICES ASSUME ScreenTyped, RulesInv, Current, NEW o \in Offers PROVE Allowed(o[1], o[2])
    BY DEF OfferedIsAllowed
<1>1. ui.held.rows = server.rows /\ card \in DOMAIN Lists
    BY CardsAssumption DEF Current, ScreenTyped, ScreenTypeOK
<1>2. CASE card = "emails"
    <2>1. PICK r \in Rows : o[1] \in EmailRow(ui.held.rows[r]) /\ o[2] = r /\ Listed(r)
        BY <1>2 DEF Offers, EmailList
    <2>2. server.rows[r] \in EmailStatuses /\ server.rows[r] # "absent"
        BY <1>1, <1>2, <2>1 DEF RulesInv, Listed
    <2>3. EmailAllowed(o[1], r) /\ o[1] \in {"primary", "resend", "remove"}
        BY <1>1, <2>1, <2>2 DEF EmailRow, EmailAllowed, EmailStatuses, Proved, Chosen
    <2> QED
        BY <1>2, <2>1, <2>3 DEF Allowed
<1>3. CASE card = "sso"
    <2>1. PICK r \in Rows : o[1] \in SsoRow(ui.held, r) /\ o[2] = r /\ Listed(r)
        BY <1>3 DEF Offers, SsoList
    <2>2. server.rows[r] \in {"off", "on", "closed"} /\ ui.held.aside = server.aside
        BY <1>1, <1>3, <2>1 DEF RulesInv, Listed, HomeCards, SwitchStatuses, Current
    <2>3. CanDisconnect(ui.held) = CanDisconnect(server)
        BY <1>1, <2>2 DEF CanDisconnect, Connected
    <2>4. CASE o[1] = "connect"
        BY <1>1, <2>1, <2>2, <2>4 DEF Allowed, SsoRow
    <2>5. CASE o[1] = "disconnect"
        <3>1. SsoAllowed(o[1], r)
            BY <1>1, <2>1, <2>2, <2>3, <2>5 DEF SsoAllowed, SsoRow
        <3> QED
            BY <1>3, <2>1, <2>5, <3>1 DEF Allowed
    <2> QED
        BY <2>1, <2>4, <2>5 DEF SsoRow
<1>4. CASE card = "passkeys"
    <2>1. PICK r \in Rows : o[1] \in PasskeyRow(ui.held.rows[r]) /\ o[2] = r
        BY <1>4 DEF Offers, PasskeyList
    <2> QED
        BY <1>1, <1>4, <2>1 DEF Allowed, PasskeyAllowed, PasskeyRow
<1>5. CASE card = "factors"
    <2>1. PICK r \in Rows : o[1] \in FactorRow(ui.held.rows[r], r) /\ o[2] = r /\ Listed(r)
        BY <1>5 DEF Offers, TwoFactorList
    <2>2. server.rows[r] \in {"off", "on", "closed"}
        BY <1>1, <1>5, <2>1 DEF RulesInv, Listed, HomeCards, SwitchStatuses
    <2>3. CASE o[1] = "enable"
        <3>1. server.rows[r] = "off"
            BY <1>1, <2>1, <2>3 DEF FactorRow
        <3>2. r = Sms => FactorAllowed("startSms", r, FALSE)
            BY <3>1 DEF FactorAllowed
        <3> QED
            BY <2>1, <2>3, <3>1, <3>2 DEF Allowed
    <2>4. CASE o[1] = "disable"
        <3>1. FactorAllowed(o[1], r, TRUE)
            BY <1>1, <2>1, <2>2, <2>4 DEF FactorAllowed, FactorRow
        <3> QED
            BY <1>5, <2>1, <2>4, <3>1 DEF Allowed
    <2> QED
        BY <2>1, <2>3, <2>4 DEF FactorRow
<1>6. CASE card = "wallet"
    <2>1. PICK r \in Rows : o[1] \in WalletRow(ui.held.rows[r]) /\ o[2] = r /\ Listed(r)
        BY <1>6 DEF Offers, MethodList
    <2> QED
        BY <1>1, <1>6, <2>1 DEF Allowed, WalletAllowed, WalletRow, Listed
<1>7. CASE card = "activity"
    <2>1. PICK r \in Rows : o[1] \in {"yes", "no"} /\ o[2] = r /\ Listed(r)
        BY <1>7 DEF Offers, ActivityList, ActivityRow
    <2> QED
        BY <1>1, <1>7, <2>1 DEF Allowed, ReviewAllowed, Listed
<1>8. CASE card = "notifications"
    <2>1. PICK r \in Rows : o[1] \in NotificationRow(r) /\ o[2] = r
        BY <1>8 DEF Offers
    <2> QED
        BY <1>1, <1>8, <2>1 DEF Allowed, NotificationRow
<1>9. CASE card \in {"password", "profile", "entrance"}
    BY <1>9 DEF Offers
<1> QED
    BY <1>1, <1>2, <1>3, <1>4, <1>5, <1>6, <1>7, <1>8, <1>9 DEF Lists

\* When a page is up to date, whatever a row of it offers is something the API
\* does not refuse: the rules that are written twice agree, on every list that
\* can come about.
THEOREM OffersAreAllowed == Spec => []OfferedIsAllowed
<1>1. Init => RulesInv
    <2> SUFFICES ASSUME Init PROVE RulesInv
        OBVIOUS
    <2>1. PICK c \in Cards : card = c /\ \E rows \in [Rows -> Lists[c]] : server.rows = rows
        BY DEF Init
    <2>2. PICK rows \in [Rows -> Lists[c]] : server.rows = rows
        BY <2>1
    <2>3. c = "emails" => Lists[c] \subseteq EmailStatuses
        BY DEF Lists, EmailStatuses
    <2>4. c \notin HomeCards => Lists[c] \subseteq SwitchStatuses
        BY CardsAssumption DEF Lists, SwitchStatuses, HomeCards
    <2> QED
        BY <2>1, <2>2, <2>3, <2>4 DEF RulesInv
<1> QED
    BY <1>1, RulesAlways, RulesAgree, AlwaysTyped, PTL DEF Spec

-----------------------------------------------------------------------------
(* Nothing is held back without an answer on its way.                      *)

\* What is shown holds nothing back that was not held back before.
NoMore ==
    /\ ui'.busy \in {ui.busy, None}
    /\ ui'.marks \intersect DOMAIN Clearing \subseteq ui.marks
    /\ ui'.loading => ui.loading

LEMMA SeenStuck ==
    ASSUME NothingStuck, trip.place = "page" \/ trip'.place # "page", NoMore,
           \A q : Awaited(q) => Awaited(q)'
    PROVE  NothingStuck'
BY DEF NothingStuck, NoMore

LEMMA ShownStuck ==
    ASSUME NothingStuck, trip' = trip, flight' = flight, NoMore
    PROVE  NothingStuck'
<1>1. \A q : Awaited(q) => Awaited(q)'
    BY DEF Awaited
<1>2. CASE trip.place = "page"
    BY <1>1, <1>2, SeenStuck
<1>3. CASE trip.place # "page"
    BY <1>3 DEF NothingStuck
<1> QED
    BY <1>2, <1>3

\* The API sets nothing free.
LEMMA HandledStuck ==
    ASSUME ScreenTyped, NothingStuck, NEW f \in flight, NEW allowed, NEW after,
           Handles(f, allowed, after)
    PROVE  NothingStuck'
<1>1. PICK k : /\ flight' = (flight \ {f}) \union (IF k.waits THEN {k} ELSE {})
               /\ k.op = f.op /\ k.waits = f.waits
    BY HandledOne
<1>2. \A q : Awaited(q) => Awaited(q)'
    BY <1>1 DEF Awaited
<1>3. UNCHANGED <<ui, trip>> /\ NoMore
    BY DEF Handles, NoMore
<1>4. CASE trip.place = "page"
    BY <1>2, <1>3, <1>4, SeenStuck
<1>5. CASE trip.place # "page"
    BY <1>3, <1>5 DEF NothingStuck
<1> QED
    BY <1>4, <1>5

\* What is pressed is held back until its own answer.
LEMMA PressedStuck ==
    ASSUME NothingStuck, trip.place = "page", NEW op, NEW row, NEW content,
           SendsWith(op, row, content), trip' = trip,
           ui'.busy = ui.busy \/ op \in RowOps,
           \A m \in ui'.marks \intersect DOMAIN Clearing : m \in ui.marks \/ op \in Clearing[m],
           ui'.loading = ui.loading
    PROVE  NothingStuck'
<1> DEFINE new == Asks(sent + 1, op, row, content)
<1>1. new \in flight' /\ new.op = op /\ new.waits /\ flight \subseteq flight'
    BY DEF SendsWith, Asks
<1> HIDE DEF new
<1>2. \A q : Awaited(q) \/ op \in q => Awaited(q)'
    BY <1>1 DEF Awaited
<1> QED
    BY <1>2 DEF NothingStuck

\* An answer, or an error, sets free what waited for it.
LEMMA HeardStuck ==
    ASSUME ScreenTyped, NothingStuck, NEW f \in flight, NEW good, NEW next, Hears(f, good, next),
           trip.place = "page",
           next.busy \in {ui.busy, None}, f.op \in RowOps => next.busy = None,
           next.marks \intersect DOMAIN Clearing \subseteq ui.marks,
           \A m \in DOMAIN Clearing : f.op \in Clearing[m] => m \notin next.marks,
           next.loading => ui.loading, f.op = "read" => ~next.loading
    PROVE  NothingStuck'
<1>1. ui' = next /\ trip' = trip /\ flight \ {f} \subseteq flight'
    BY HeardOne
<1>2. ASSUME NEW q, Awaited(q), f.op \notin q PROVE Awaited(q)'
    BY <1>1, <1>2 DEF Awaited
<1>3. ui'.busy # None => Awaited(RowOps)'
    BY <1>1, <1>2 DEF NothingStuck
<1>4. ASSUME NEW m \in ui'.marks \intersect DOMAIN Clearing PROVE Awaited(Clearing[m])'
    BY <1>1, <1>2, <1>4 DEF NothingStuck
<1>5. ui'.loading => Awaited({"read"})'
    BY <1>1, <1>2 DEF NothingStuck
<1> QED
    BY <1>3, <1>4, <1>5 DEF NothingStuck

LEMMA ClearingIs ==
    /\ DOMAIN Clearing = {"adding", "saving", "making", "changing", "pending", "login", "signUp", "forgot"}
    /\ Clearing["adding"] = {"add"} /\ Clearing["saving"] = {"private", "public", "save", "markAll"}
    /\ Clearing["making"] = {"generate"} /\ Clearing["changing"] = {"change"}
    /\ Clearing["pending"] = {"markRead"} /\ Clearing["login"] = {"login", "recover"}
    /\ Clearing["signUp"] = {"signUp", "loginAfter"} /\ Clearing["forgot"] = {"forgot"}
BY DEF Clearing

\* The reading of a list clears nothing else.
LEMMA ReadStuck ==
    ASSUME ScreenTyped, NothingStuck, NEW f \in flight, NEW good, ReadArrives(f, good), trip.place = "page"
    PROVE  NothingStuck'
<1> DEFINE next == IF good THEN [ui EXCEPT !.held = f.got, !.loading = FALSE]
                   ELSE [ui EXCEPT !.loading = FALSE, !.failed = TRUE]
<1>1. f.op = "read" /\ Hears(f, good, next)
    BY DEF ReadArrives
<1>2. next.busy = ui.busy /\ next.marks = ui.marks /\ ~next.loading
    BY UITyped DEF UI
<1>3. "read" \notin RowOps /\ \A m \in DOMAIN Clearing : "read" \notin Clearing[m]
    BY ClearingIs DEF RowOps
<1> HIDE DEF next
<1> QED
    BY <1>1, <1>2, <1>3, HeardStuck

\* A button: one flag of its own, or the row.
LEMMA MarkedStuck ==
    ASSUME ScreenTyped, NothingStuck, trip.place = "page", NEW op, NEW row, NEW content, NEW m,
           SendsWith(op, row, content), trip' = trip, m \in DOMAIN Clearing, op \in Clearing[m],
           ui' = [ui EXCEPT !.marks = @ \union {m}]
    PROVE  NothingStuck'
<1>1. ui'.busy = ui.busy /\ ui'.marks = ui.marks \union {m} /\ ui'.loading = ui.loading
    BY UITyped DEF UI
<1> QED
    BY <1>1, PressedStuck

LEMMA BusyStuck ==
    ASSUME ScreenTyped, NothingStuck, trip.place = "page", NEW op \in RowOps, NEW row,
           NEW r, Presses(op, row, [ui EXCEPT !.busy = r])
    PROVE  NothingStuck'
<1>1. ui'.marks = ui.marks /\ ui'.loading = ui.loading /\ SendsWith(op, row, 0) /\ trip' = trip
    BY UITyped DEF Presses, UI
<1> QED
    BY <1>1, PressedStuck

\* A dialog is opened or closed, a form is filled.
LEMMA DialogStuck ==
    ASSUME ScreenTyped, NothingStuck, NEW next, Shows(next), next.busy = ui.busy,
           next.marks \intersect DOMAIN Clearing \subseteq ui.marks, next.loading = ui.loading
    PROVE  NothingStuck'
BY ShownStuck DEF Shows, NoMore

LEMMA OpensStuck ==
    ASSUME ScreenTyped, NothingStuck, NEW action, NEW row, NEW open,
           Opens(action, row) \/ Closes(open)
    PROVE  NothingStuck'
<1> DEFINE one == [ui EXCEPT !.dialog = [action |-> action, row |-> row]]
           two == [ui EXCEPT !.dialog = Nowhere]
<1>1. one.busy = ui.busy /\ one.marks = ui.marks /\ one.loading = ui.loading
    BY UITyped DEF UI
<1>2. two.busy = ui.busy /\ two.marks = ui.marks /\ two.loading = ui.loading
    BY UITyped DEF UI
<1>3. Shows(one) \/ Shows(two)
    BY DEF Opens, Closes
<1> HIDE DEF one, two
<1> QED
    BY <1>1, <1>2, <1>3, DialogStuck

LEMMA ElsewhereStuck ==
    ASSUME NothingStuck, UNCHANGED <<ui, trip, flight>>
    PROVE  NothingStuck'
BY DEF NothingStuck, Awaited

LEMMA EmailUnstuck == ASSUME ScreenTyped, NothingStuck, EmailNext PROVE NothingStuck'
<1>1. trip.place = "page"
    BY DEF EmailNext, OnPage
<1> USE ClearingIs
<1>2. ASSUME NEW r \in Rows, NEW op \in {"primary", "resend", "remove"}, act(op, r) PROVE NothingStuck'
    BY <1>1, <1>2, BusyStuck DEF act, RowOps
<1>3. ASSUME NEW r \in Rows, addsEmail(r) PROVE NothingStuck'
    BY <1>1, <1>3, MarkedStuck DEF addsEmail, Presses
<1>4. ASSUME NEW r \in Rows, VerifyEmail(r) PROVE NothingStuck'
    BY <1>4, ElsewhereStuck DEF VerifyEmail, Elsewhere
<1>5. ASSUME NEW op \in {"private", "public"}, setPrivacy(op) PROVE NothingStuck'
    BY <1>1, <1>5, MarkedStuck DEF setPrivacy, Presses
<1>6. ASSUME NEW f \in flight,
             Reads(f) \/ Handles(f, EmailAllowed(f.op, f.row), EmailAfter(f.op, f.row))
      PROVE  NothingStuck'
    BY <1>6, HandledStuck DEF Reads
<1>7. ASSUME NEW f \in flight, NEW good \in BOOLEAN, useEmails(f, good) PROVE NothingStuck'
    <2> DEFINE base == IF good THEN WithAddresses(f) ELSE ui
               both == IF good THEN Replaced(f) ELSE ui
    <2>1. CASE ReadArrives(f, good)
        BY <1>1, <2>1, ReadStuck
    <2>2. CASE acted(f, good)
        <3> DEFINE next == [base EXCEPT !.busy = None, !.notice = Says(f, good)]
        <3>1. next.busy = None /\ next.marks = ui.marks /\ next.loading = ui.loading
            BY UITyped DEF UI, WithAddresses
        <3>2. Hears(f, good, next) /\ f.op \in {"remove", "primary", "resend"}
            BY <2>2 DEF acted
        <3> HIDE DEF next
        <3> QED
            BY <1>1, <3>1, <3>2, HeardStuck DEF RowOps
    <2>3. CASE added(f, good)
        <3> DEFINE next == [base EXCEPT !.marks = @ \ {"adding"}, !.notice = Says(f, good)]
        <3>1. next.busy = ui.busy /\ next.marks = ui.marks \ {"adding"} /\ next.loading = ui.loading
            BY UITyped DEF UI, WithAddresses
        <3>2. Hears(f, good, next) /\ f.op = "add"
            BY <2>3 DEF added
        <3> HIDE DEF next
        <3> QED
            BY <1>1, <3>1, <3>2, HeardStuck DEF RowOps
    <2>4. CASE privacySaved(f, good)
        <3> DEFINE next == [both EXCEPT !.marks = @ \ {"saving"}, !.notice = Says(f, good)]
        <3>1. next.busy = ui.busy /\ next.marks = ui.marks \ {"saving"} /\ next.loading = ui.loading
            BY UITyped DEF UI, Replaced
        <3>2. Hears(f, good, next) /\ f.op \in {"private", "public"}
            BY <2>4 DEF privacySaved
        <3> HIDE DEF next
        <3> QED
            BY <1>1, <3>1, <3>2, HeardStuck DEF RowOps
    <2> QED
        BY <1>7, <2>1, <2>2, <2>3, <2>4 DEF useEmails
<1> QED
    BY <1>2, <1>3, <1>4, <1>5, <1>6, <1>7 DEF EmailNext

LEMMA WalletUnstuck == ASSUME ScreenTyped, NothingStuck, WalletCardNext PROVE NothingStuck'
<1>1. trip.place = "page"
    BY DEF WalletCardNext, OnPage
<1> USE ClearingIs
<1>2. ASSUME NEW r \in Rows, NEW op \in {"default", "remove"}, actOnMethod(op, r) PROVE NothingStuck'
    BY <1>1, <1>2, BusyStuck DEF actOnMethod, RowOps
<1>3. ASSUME NEW kind, setAdding(kind) \/ closeAdding PROVE NothingStuck'
    BY <1>3, OpensStuck DEF setAdding, closeAdding
<1>4. ASSUME NEW r \in Rows, submitCard(r) \/ submitAccount(r) PROVE NothingStuck'
    BY <1>1, <1>4, MarkedStuck DEF submitCard, submitAccount, Presses
<1>5. ASSUME NEW f \in flight, Reads(f) \/ Commits(f) PROVE NothingStuck'
    BY <1>5, HandledStuck DEF Reads, Commits
<1>6. ASSUME NEW f \in flight, Looks(f) PROVE NothingStuck'
    <2> DEFINE g == [f EXCEPT !.at = "looked", !.got = server]
    <2>1. g.op = f.op /\ g.waits = f.waits
        BY RequestTyped DEF Request
    <2>2. flight' = (flight \ {f}) \union {g}
        BY <1>6 DEF Looks
    <2> HIDE DEF g
    <2>3. \A q : Awaited(q) => Awaited(q)'
        BY <2>1, <2>2 DEF Awaited
    <2>4. UNCHANGED <<ui, trip>>
        BY <1>6 DEF Looks
    <2> QED
        BY <1>1, <2>3, <2>4, SeenStuck DEF NoMore
<1>7. ASSUME NEW f \in flight, NEW good \in BOOLEAN, useWallet(f, good) PROVE NothingStuck'
    <2> DEFINE base == IF good THEN Replaced(f) ELSE ui
    <2>1. CASE ReadArrives(f, good)
        BY <1>1, <2>1, ReadStuck
    <2>2. CASE walletActed(f, good)
        <3> DEFINE next == [base EXCEPT !.busy = None, !.notice = Says(f, good)]
        <3>1. next.busy = None /\ next.marks = ui.marks /\ next.loading = ui.loading
            BY UITyped DEF UI, Replaced
        <3>2. Hears(f, good, next) /\ f.op \in {"default", "remove"}
            BY <2>2 DEF walletActed
        <3> HIDE DEF next
        <3> QED
            BY <1>1, <3>1, <3>2, HeardStuck DEF RowOps
    <2>3. CASE saved(f, good)
        <3> DEFINE next == IF good THEN [Replaced(f) EXCEPT !.marks = @ \ {"adding"}, !.dialog = Nowhere,
                                                            !.notice = Says(f, TRUE)]
                           ELSE [ui EXCEPT !.marks = @ \ {"adding"}]
        <3>1. next.busy = ui.busy /\ next.marks = ui.marks \ {"adding"} /\ next.loading = ui.loading
            BY UITyped DEF UI, Replaced
        <3>2. Hears(f, good, next) /\ f.op = "add"
            BY <2>3 DEF saved
        <3> HIDE DEF next
        <3> QED
            BY <1>1, <3>1, <3>2, HeardStuck DEF RowOps
    <2> QED
        BY <1>7, <2>1, <2>2, <2>3 DEF useWallet
<1>8. Sms \in Rows
    BY ScreenAssumption
<1> QED
    BY <1>2, <1>3, <1>4, <1>5, <1>6, <1>7, <1>8 DEF WalletCardNext

LEMMA ActivityUnstuck == ASSUME ScreenTyped, NothingStuck, ActivityNext PROVE NothingStuck'
<1>1. trip.place = "page"
    BY DEF ActivityNext, OnPage
<1> USE ClearingIs
<1>2. ASSUME NEW r, setViewing(r) \/ closeViewing PROVE NothingStuck'
    BY <1>2, OpensStuck DEF setViewing, closeViewing
<1>3. ASSUME NEW op \in {"yes", "no"}, onAnswer(op) PROVE NothingStuck'
    BY <1>1, <1>3, BusyStuck DEF onAnswer, RowOps
<1>4. ASSUME NEW after, Elsewhere(after) PROVE NothingStuck'
    BY <1>4, ElsewhereStuck DEF Elsewhere
<1>5. ASSUME NEW f \in flight, NEW new,
             Reads(f) \/ Handles(f, ReviewAllowed(f.row), ReviewSecurityEvent(f.op, f.row, new))
      PROVE  NothingStuck'
    BY <1>5, HandledStuck DEF Reads
<1>6. ASSUME NEW f \in flight, NEW good \in BOOLEAN, useSecurityActivity(f, good) PROVE NothingStuck'
    <2>1. CASE ReadArrives(f, good)
        BY <1>1, <2>1, ReadStuck
    <2>2. CASE answered(f, good)
        <3> DEFINE next == IF good THEN [Replaced(f) EXCEPT !.busy = None, !.dialog = Nowhere,
                                                            !.notice = Says(f, TRUE)]
                           ELSE [ui EXCEPT !.busy = None, !.notice = Says(f, FALSE)]
        <3>1. next.busy = None /\ next.marks = ui.marks /\ next.loading = ui.loading
            BY UITyped DEF UI, Replaced
        <3>2. Hears(f, good, next) /\ f.op \in {"yes", "no"}
            BY <2>2 DEF answered
        <3> HIDE DEF next
        <3> QED
            BY <1>1, <3>1, <3>2, HeardStuck DEF RowOps
    <2> QED
        BY <1>6, <2>1, <2>2 DEF useSecurityActivity
<1> QED
    BY <1>2, <1>3, <1>4, <1>5, <1>6 DEF ActivityNext

LEMMA PasswordUnstuck == ASSUME ScreenTyped, NothingStuck, PasswordNext PROVE NothingStuck'
<1>1. trip.place = "page"
    BY DEF PasswordNext, OnPage
<1> USE ClearingIs
<1>2. CASE fillsPassword
    <2> DEFINE next == [ui EXCEPT !.form = 1]
    <2>1. next.busy = ui.busy /\ next.marks = ui.marks /\ next.loading = ui.loading
        BY UITyped DEF UI
    <2>2. Shows(next)
        BY <1>2 DEF fillsPassword
    <2> HIDE DEF next
    <2> QED
        BY <2>1, <2>2, DialogStuck
<1>3. CASE changing
    BY <1>1, <1>3, MarkedStuck DEF changing, Presses
<1>4. ASSUME NEW f \in flight, NEW right, Reads(f) \/ Handles(f, right, PasswordAfter) PROVE NothingStuck'
    BY <1>4, HandledStuck DEF Reads
<1>5. ASSUME NEW f \in flight, NEW good \in BOOLEAN, usePassword(f, good) PROVE NothingStuck'
    <2>1. CASE passwordRead(f, good)
        <3> DEFINE next == IF good THEN [ReplacedOnly(f) EXCEPT !.loading = FALSE]
                           ELSE [ui EXCEPT !.loading = FALSE]
        <3>1. next.busy = ui.busy /\ next.marks = ui.marks /\ ~next.loading
            BY UITyped DEF UI, ReplacedOnly
        <3>2. Hears(f, good, next) /\ f.op = "read"
            BY <2>1 DEF passwordRead
        <3> HIDE DEF next
        <3> QED
            BY <1>1, <3>1, <3>2, HeardStuck DEF RowOps
    <2>2. CASE changed(f, good)
        <3> DEFINE next == IF good THEN [ReplacedOnly(f) EXCEPT !.marks = @ \ {"changing"}, !.form = 0,
                                                                !.notice = Says(f, TRUE)]
                           ELSE [ui EXCEPT !.marks = @ \ {"changing"}, !.notice = Says(f, FALSE)]
        <3>1. next.busy = ui.busy /\ next.marks = ui.marks \ {"changing"} /\ next.loading = ui.loading
            BY UITyped DEF UI, ReplacedOnly
        <3>2. Hears(f, good, next) /\ f.op = "change"
            BY <2>2 DEF changed
        <3> HIDE DEF next
        <3> QED
            BY <1>1, <3>1, <3>2, HeardStuck DEF RowOps
    <2> QED
        BY <1>5, <2>1, <2>2 DEF usePassword
<1> QED
    BY <1>2, <1>3, <1>4, <1>5 DEF PasswordNext

LEMMA SeedingKeeps ==
    ASSUME NEW next \in UI
    PROVE  LET filled == Seeding(next) IN
           filled.busy = next.busy /\ filled.marks = next.marks /\ filled.loading = next.loading
BY DEF Seeding, UI

LEMMA ProfileUnstuck == ASSUME ScreenTyped, NothingStuck, ProfileNext PROVE NothingStuck'
<1>1. trip.place = "page"
    BY DEF ProfileNext, OnPage
<1>2. CASE submitProfile
    BY <1>1, <1>2, MarkedStuck, ClearingIs DEF submitProfile
<1>3. CASE Elsewhere(Aside(server.stamp + 1))
    BY <1>3, ElsewhereStuck DEF Elsewhere
<1>4. ASSUME NEW f \in flight, Reads(f) PROVE NothingStuck'
    BY <1>4, HandledStuck DEF Reads
<1>6. ASSUME NEW f \in flight, Handles(f, TRUE, SetUserProfile(f)) PROVE NothingStuck'
    BY <1>6, HandledStuck
<1>5. ASSUME NEW f \in flight, NEW good \in BOOLEAN, ProfileProvider(f, good) PROVE NothingStuck'
    <2>1. CASE profileRead(f, good)
        <3> DEFINE base == [ReplacedOnly(f) EXCEPT !.loading = FALSE]
                   next == IF good THEN Seeding(base) ELSE [ui EXCEPT !.loading = FALSE, !.failed = TRUE]
        <3>1. base.busy = ui.busy /\ base.marks = ui.marks /\ ~base.loading /\ base \in UI
            BY UITyped, RequestTyped DEF UI, ReplacedOnly, Request
        <3>2. next.busy = ui.busy /\ next.marks = ui.marks /\ ~next.loading
            BY <3>1, UITyped, SeedingKeeps DEF UI
        <3>3. Hears(f, good, next) /\ f.op = "read"
            BY <2>1 DEF profileRead
        <3> HIDE DEF next
        <3> QED
            BY <1>1, <3>2, <3>3, HeardStuck, ClearingIs DEF RowOps
    <2>2. CASE profileSaved(f, good)
        <3> DEFINE base == [Replaced(f) EXCEPT !.marks = @ \ {"saving"}, !.notice = Says(f, TRUE)]
                   next == IF good THEN Seeding(base)
                           ELSE [ui EXCEPT !.marks = @ \ {"saving"}, !.notice = Says(f, FALSE)]
        <3>1. /\ base.busy = ui.busy /\ base.marks = ui.marks \ {"saving"} /\ base.loading = ui.loading
              /\ base \in UI
            BY UITyped, RequestTyped, SaysTyped DEF UI, Replaced, Request
        <3>2. next.busy = ui.busy /\ next.marks = ui.marks \ {"saving"} /\ next.loading = ui.loading
            BY <3>1, UITyped, SeedingKeeps DEF UI
        <3>3. Hears(f, good, next) /\ f.op = "save"
            BY <2>2 DEF profileSaved
        <3> HIDE DEF next
        <3> QED
            BY <1>1, <3>2, <3>3, HeardStuck, ClearingIs DEF RowOps
    <2> QED
        BY <1>5, <2>1, <2>2 DEF ProfileProvider
<1> QED
    BY <1>2, <1>3, <1>4, <1>5, <1>6 DEF ProfileNext

\* A trip begins, or cannot: the page is left, or nothing is held back.
LEMMA StartStuck ==
    ASSUME ScreenTyped, NothingStuck, NEW kind, NEW row, startRedirect(kind, row)
    PROVE  NothingStuck'
<1>1. trip'.place = "provider"
    BY UITyped DEF startRedirect, ScreenTyped, ScreenTypeOK, Trip
<1> QED
    BY <1>1 DEF NothingStuck

LEMMA CannotStartStuck ==
    ASSUME ScreenTyped, NothingStuck, NEW kind, NEW row, NEW next, CannotStart(kind, row, next),
           next.busy \in {ui.busy, None}, next.marks \subseteq ui.marks, next.loading = ui.loading
    PROVE  NothingStuck'
<1>1. trip'.place = trip.place /\ flight' = flight /\ NoMore
    BY DEF CannotStart, ScreenTyped, ScreenTypeOK, Trip, NoMore
<1>2. \A q : Awaited(q) => Awaited(q)'
    BY <1>1 DEF Awaited
<1> QED
    BY <1>1, <1>2, SeenStuck

LEMMA SsoUnstuck == ASSUME ScreenTyped, NothingStuck, SsoNext PROVE NothingStuck'
<1> USE ClearingIs
<1>1. CASE LinksAtProvider
    BY <1>1, ElsewhereStuck DEF LinksAtProvider
<1>2. ASSUME NEW op, NEW r, setConnection(op, r) \/ closeConnection PROVE NothingStuck'
    BY <1>2, OpensStuck DEF setConnection, closeConnection
<1>3. CASE connecting
    <2> DEFINE next == [ui EXCEPT !.dialog = Nowhere, !.busy = None,
                                  !.notice = [good |-> FALSE, op |-> "connect", row |-> ui.dialog.row]]
    <2>1. next.busy = None /\ next.marks = ui.marks /\ next.loading = ui.loading
        BY UITyped DEF UI
    <2>2. startRedirect("link", ui.dialog.row) \/ CannotStart("link", ui.dialog.row, next)
        BY <1>3 DEF connecting, beginAccountLink
    <2> HIDE DEF next
    <2> QED
        BY <2>1, <2>2, StartStuck, CannotStartStuck
<1>4. CASE OnPage("sso") /\ disconnecting
    BY <1>4, BusyStuck DEF OnPage, disconnecting, RowOps
<1>5. ASSUME NEW after, Elsewhere(after) PROVE NothingStuck'
    BY <1>5, ElsewhereStuck DEF Elsewhere
<1>6. ASSUME NEW f \in flight, NEW left,
             Reads(f) \/ Handles(f, SsoAllowed(f.op, f.row), SsoAfter(f.op, f.row, left))
      PROVE  NothingStuck'
    BY <1>6, HandledStuck DEF Reads
<1>7. ASSUME trip.place = "page", NEW f \in flight, NEW good \in BOOLEAN, useSignInMethods(f, good)
      PROVE  NothingStuck'
    <2>1. CASE ReadArrives(f, good)
        BY <1>7, <2>1, ReadStuck
    <2>2. CASE disconnected(f, good)
        <3> DEFINE next == IF good THEN [ReplacedOnly(f) EXCEPT !.busy = None, !.dialog = Nowhere,
                                                                !.notice = Says(f, TRUE)]
                           ELSE [ui EXCEPT !.busy = None, !.notice = Says(f, FALSE)]
        <3>1. next.busy = None /\ next.marks = ui.marks /\ next.loading = ui.loading
            BY UITyped DEF UI, ReplacedOnly
        <3>2. Hears(f, good, next) /\ f.op = "disconnect"
            BY <2>2 DEF disconnected
        <3> HIDE DEF next
        <3> QED
            BY <1>7, <3>1, <3>2, HeardStuck DEF RowOps
    <2>3. CASE confirmedLink(f, good)
        <3> DEFINE next == IF good THEN [ReplacedOnly(f) EXCEPT !.notice = Says(f, f.got.rows[f.row] = "on")]
                           ELSE [ui EXCEPT !.notice = Says(f, FALSE)]
        <3>1. next.busy = ui.busy /\ next.marks = ui.marks /\ next.loading = ui.loading
            BY UITyped DEF UI, ReplacedOnly
        <3>2. Hears(f, good, next) /\ f.op = "confirm"
            BY <2>3 DEF confirmedLink
        <3> HIDE DEF next
        <3> QED
            BY <1>7, <3>1, <3>2, HeardStuck DEF RowOps
    <2> QED
        BY <1>7, <2>1, <2>2, <2>3 DEF useSignInMethods
<1> QED
    BY <1>1, <1>2, <1>3, <1>4, <1>5, <1>6, <1>7 DEF SsoNext, OnPage

LEMMA PasskeyUnstuck == ASSUME ScreenTyped, NothingStuck, PasskeyNext PROVE NothingStuck'
<1> USE ClearingIs
<1>1. ASSUME NEW r, RegistersAtProvider(r) PROVE NothingStuck'
    BY <1>1, ElsewhereStuck DEF RegistersAtProvider
<1>2. ASSUME NEW op, NEW r, setPasskeyRequest(op, r) \/ closePasskey PROVE NothingStuck'
    BY <1>2, OpensStuck DEF setPasskeyRequest, closePasskey
<1>3. CASE addingAPasskey
    <2> DEFINE next == [ui EXCEPT !.dialog = Nowhere, !.marks = @ \ {"adding"},
                                  !.notice = [good |-> FALSE, op |-> "addKey", row |-> None]]
    <2>1. next.busy = ui.busy /\ next.marks \subseteq ui.marks /\ next.loading = ui.loading
        BY UITyped DEF UI
    <2>2. startRedirect("passkey", Sms) \/ CannotStart("passkey", Sms, next)
        BY <1>3 DEF addingAPasskey, beginPasskeyRegistration
    <2> HIDE DEF next
    <2> QED
        BY <2>1, <2>2, StartStuck, CannotStartStuck
<1>4. CASE OnPage("passkeys") /\ removingPasskey
    BY <1>4, BusyStuck DEF OnPage, removingPasskey, RowOps
<1>5. CASE RemovedElsewhere
    BY <1>5, ElsewhereStuck DEF RemovedElsewhere, Elsewhere
<1>6. ASSUME NEW f \in flight,
             Reads(f) \/ Handles(f, PasskeyAllowed(f.op, f.row), PasskeyAfter(f.op, f.row))
      PROVE  NothingStuck'
    BY <1>6, HandledStuck DEF Reads
<1>7. ASSUME trip.place = "page", NEW f \in flight, NEW good \in BOOLEAN, usePasskeys(f, good)
      PROVE  NothingStuck'
    <2>1. CASE ReadArrives(f, good)
        BY <1>7, <2>1, ReadStuck
    <2>2. CASE passkeyRemoved(f, good)
        <3> DEFINE next == IF good THEN [ReplacedOnly(f) EXCEPT !.busy = None, !.dialog = Nowhere,
                                                                !.notice = Says(f, TRUE)]
                           ELSE [ui EXCEPT !.busy = None, !.notice = Says(f, FALSE)]
        <3>1. next.busy = None /\ next.marks = ui.marks /\ next.loading = ui.loading
            BY UITyped DEF UI, ReplacedOnly
        <3>2. Hears(f, good, next) /\ f.op = "remove"
            BY <2>2 DEF passkeyRemoved
        <3> HIDE DEF next
        <3> QED
            BY <1>7, <3>1, <3>2, HeardStuck DEF RowOps
    <2>3. CASE passkeyConfirmed(f, good)
        <3> DEFINE next == IF good THEN [ReplacedOnly(f) EXCEPT !.notice = Says(f, f.got.aside = 1)]
                           ELSE [ui EXCEPT !.notice = Says(f, FALSE)]
        <3>1. next.busy = ui.busy /\ next.marks = ui.marks /\ next.loading = ui.loading
            BY UITyped DEF UI, ReplacedOnly
        <3>2. Hears(f, good, next) /\ f.op = "confirm"
            BY <2>3 DEF passkeyConfirmed
        <3> HIDE DEF next
        <3> QED
            BY <1>7, <3>1, <3>2, HeardStuck DEF RowOps
    <2> QED
        BY <1>7, <2>1, <2>2, <2>3 DEF usePasskeys
<1> QED
    BY <1>1, <1>2, <1>3, <1>4, <1>5, <1>6, <1>7 DEF PasskeyNext, OnPage

LEMMA FactorUnstuck == ASSUME ScreenTyped, NothingStuck, FactorNext PROVE NothingStuck'
<1>1. CASE SetsUpAtProvider \/ RecoversElsewhere \/ MakesElsewhere
    BY <1>1, ElsewhereStuck DEF SetsUpAtProvider, RecoversElsewhere, MakesElsewhere, Elsewhere
<1>2. ASSUME NEW op, NEW r, setFactorRequest(op, r) \/ startAddingPhone \/ closeFactor PROVE NothingStuck'
    BY <1>2, OpensStuck DEF setFactorRequest, startAddingPhone, closeFactor
<1>3. CASE backToNumber \/ closeCodes
    <2> DEFINE one == [ui EXCEPT !.dialog.action = "number"]
               two == [ui EXCEPT !.codes = 0]
    <2>1. /\ one.busy = ui.busy /\ one.marks = ui.marks /\ one.loading = ui.loading
          /\ two.busy = ui.busy /\ two.marks = ui.marks /\ two.loading = ui.loading
        BY UITyped DEF UI
    <2>2. Shows(one) \/ Shows(two)
        BY <1>3 DEF backToNumber, closeCodes
    <2> HIDE DEF one, two
    <2> QED
        BY <2>1, <2>2, DialogStuck
<1>4. CASE enabling
    <2> DEFINE next == [ui EXCEPT !.dialog = Nowhere, !.busy = None,
                                  !.notice = [good |-> FALSE, op |-> "enable", row |-> ui.dialog.row]]
    <2>1. next.busy = None /\ next.marks = ui.marks /\ next.loading = ui.loading
        BY UITyped DEF UI
    <2>2. startRedirect("factor", ui.dialog.row) \/ CannotStart("factor", ui.dialog.row, next)
        BY <1>4 DEF enabling, beginSecondFactorSetup
    <2> HIDE DEF next
    <2> QED
        BY <2>1, <2>2, StartStuck, CannotStartStuck
<1>5. CASE trip.place = "page" /\ (disabling \/ textingCode \/ confirmingCode)
    BY <1>5, BusyStuck DEF disabling, textingCode, confirmingCode, RowOps
<1>6. CASE trip.place = "page" /\ makingRecoveryCodes
    BY <1>6, MarkedStuck, ClearingIs DEF makingRecoveryCodes, Presses
<1>7. ASSUME NEW f \in flight, Reads(f) PROVE NothingStuck'
    BY <1>7, HandledStuck DEF Reads
<1>8. ASSUME NEW f \in flight, NEW right, NEW left,
             Handles(f, FactorAllowed(f.op, f.row, right), FactorAfter(f.op, f.row, left))
      PROVE  NothingStuck'
    BY <1>8, HandledStuck
<1>9. ASSUME trip.place = "page", NEW f \in flight, NEW good \in BOOLEAN, useTwoFactor(f, good)
      PROVE  NothingStuck'
    <2>0. /\ RowsOf(f).busy = ui.busy /\ RowsOf(f).marks = ui.marks /\ RowsOf(f).loading = ui.loading
          /\ DOMAIN RowsOf(f) = DOMAIN ui
        BY UITyped DEF UI, RowsOf
    <2>1. CASE ReadArrives(f, good)
        BY <1>9, <2>1, ReadStuck
    <2>2. CASE disabled(f, good)
        <3> DEFINE next == IF good THEN [RowsOf(f) EXCEPT !.busy = None, !.dialog = Nowhere,
                                                          !.notice = Says(f, TRUE)]
                           ELSE [ui EXCEPT !.busy = None, !.notice = Says(f, FALSE)]
        <3>1. next.busy = None /\ next.marks = ui.marks /\ next.loading = ui.loading
            BY UITyped DEF UI, RowsOf
        <3>2. Hears(f, good, next) /\ f.op = "disable"
            BY <2>2 DEF disabled
        <3> HIDE DEF next
        <3> QED
            BY <1>9, <3>1, <3>2, HeardStuck, ClearingIs DEF RowOps
    <2>3. CASE texted(f, good)
        <3> DEFINE next == IF good THEN [ui EXCEPT !.busy = None, !.dialog.action = "code"]
                           ELSE [ui EXCEPT !.busy = None]
        <3>1. next.busy = None /\ next.marks = ui.marks /\ next.loading = ui.loading
            BY UITyped DEF UI
        <3>2. Hears(f, good, next) /\ f.op = "startSms"
            BY <2>3 DEF texted
        <3> HIDE DEF next
        <3> QED
            BY <1>9, <3>1, <3>2, HeardStuck, ClearingIs DEF RowOps
    <2>4. CASE smsConfirmed(f, good)
        <3> DEFINE next == IF good THEN [RowsOf(f) EXCEPT !.busy = None, !.dialog = Nowhere,
                                                          !.notice = Says(f, TRUE)]
                           ELSE [ui EXCEPT !.busy = None]
        <3>1. next.busy = None /\ next.marks = ui.marks /\ next.loading = ui.loading
            BY UITyped DEF UI, RowsOf
        <3>2. Hears(f, good, next) /\ f.op = "confirmSms"
            BY <2>4 DEF smsConfirmed
        <3> HIDE DEF next
        <3> QED
            BY <1>9, <3>1, <3>2, HeardStuck, ClearingIs DEF RowOps
    <2>5. CASE factorConfirmed(f, good)
        <3> DEFINE next == IF good THEN [RowsOf(f) EXCEPT !.notice = Says(f, f.got.rows[f.row] = "on")]
                           ELSE [ui EXCEPT !.notice = Says(f, FALSE)]
        <3>1. next.busy = ui.busy /\ next.marks = ui.marks /\ next.loading = ui.loading
            BY UITyped DEF UI, RowsOf
        <3>2. Hears(f, good, next) /\ f.op = "confirm"
            BY <2>5 DEF factorConfirmed
        <3> HIDE DEF next
        <3> QED
            BY <1>9, <3>1, <3>2, HeardStuck, ClearingIs DEF RowOps
    <2>6. CASE codesMade(f, good)
        <3> DEFINE next == IF good THEN [ui EXCEPT !.held.aside = f.got.aside, !.codes = f.got.aside,
                                                   !.marks = @ \ {"making"}]
                           ELSE [ui EXCEPT !.marks = @ \ {"making"}, !.notice = Says(f, FALSE)]
        <3>1. next.busy = ui.busy /\ next.marks = ui.marks \ {"making"} /\ next.loading = ui.loading
            BY UITyped DEF UI
        <3>2. Hears(f, good, next) /\ f.op = "generate"
            BY <2>6 DEF codesMade
        <3> HIDE DEF next
        <3> QED
            BY <1>9, <3>1, <3>2, HeardStuck, ClearingIs DEF RowOps
    <2> QED
        BY <1>9, <2>1, <2>2, <2>3, <2>4, <2>5, <2>6 DEF useTwoFactor
<1> QED
    BY <1>1, <1>2, <1>3, <1>4, <1>5, <1>6, <1>7, <1>8, <1>9 DEF FactorNext, OnPage

LEMMA EntranceUnstuck == ASSUME ScreenTyped, NothingStuck, EntranceNext PROVE NothingStuck'
<1>1. ASSUME NEW d, opens(d) PROVE NothingStuck'
    BY <1>1, OpensStuck DEF opens
<1>2. ASSUME NEW d, follows(d) \/ closes PROVE NothingStuck'
    <2> DEFINE one == [ui EXCEPT !.dialog = Show(d)]
               two == [ui EXCEPT !.dialog = Nowhere]
    <2>1. /\ one.busy = ui.busy /\ one.marks = ui.marks /\ one.loading = ui.loading
          /\ two.busy = ui.busy /\ two.marks = ui.marks /\ two.loading = ui.loading
        BY UITyped DEF UI
    <2>2. Shows(one) \/ Shows(two)
        BY <1>2 DEF follows, closes
    <2> HIDE DEF one, two
    <2> QED
        BY <2>1, <2>2, DialogStuck
<1>3. CASE setRecovering
    <2> DEFINE next == [ui EXCEPT !.marks = IF Recovering THEN @ \ {"recovering"}
                                            ELSE @ \union {"recovering"}]
    <2>1. /\ next.busy = ui.busy /\ next.marks \subseteq ui.marks \union {"recovering"}
          /\ next.loading = ui.loading
        BY UITyped DEF UI
    <2>2. Shows(next)
        BY <1>3 DEF setRecovering
    <2> HIDE DEF next
    <2> QED
        BY <2>1, <2>2, DialogStuck, ClearingIs
<1>4. ASSUME trip.place = "page", submitLogin \/ recover \/ submitSignUp \/ submitForgot
      PROVE  NothingStuck'
    BY <1>4, MarkedStuck, ClearingIs DEF submitLogin, recover, submitSignUp, submitForgot, Presses, Waits
<1>5. CASE leaveFor
    <2> DEFINE next == [ui EXCEPT !.notice = Reports("leave")]
    <2>1. next.busy = ui.busy /\ next.marks = ui.marks /\ next.loading = ui.loading
        BY UITyped DEF UI
    <2>2. startRedirect("login", None) \/ CannotStart("login", None, next)
        BY <1>5 DEF leaveFor
    <2> HIDE DEF next
    <2> QED
        BY <2>1, <2>2, StartStuck, CannotStartStuck
<1>6. ASSUME NEW f \in flight, NEW right, Handles(f, right, server) PROVE NothingStuck'
    BY <1>6, HandledStuck
<1>7. ASSUME NEW f, enters(f) PROVE NothingStuck'
    <2>1. trip'.place = "dashboard"
        BY <1>7 DEF enters, ScreenTyped, ScreenTypeOK, Trip
    <2> QED
        BY <2>1 DEF NothingStuck
<1>8. ASSUME NEW f \in flight, registered(f) PROVE NothingStuck'
    <2> DEFINE new == Asks(sent + 1, "loginAfter", None, 0)
    <2>1. new.op = "loginAfter" /\ new.waits
        BY DEF Asks
    <2>2. flight' = (flight \ {f}) \union {new} /\ f.op = "signUp" /\ UNCHANGED <<ui, trip>>
        BY <1>8 DEF registered
    <2> HIDE DEF new
    <2>3. \A q : Awaited(q) /\ "signUp" \notin q => Awaited(q)'
        BY <2>1, <2>2 DEF Awaited
    <2>4. Awaited({"signUp", "loginAfter"})'
        BY <2>1, <2>2 DEF Awaited
    <2>5. ASSUME NEW m \in DOMAIN Clearing, Awaited(Clearing[m]) PROVE Awaited(Clearing[m])'
        BY <2>3, <2>4, <2>5, ClearingIs
    <2>6. "signUp" \notin RowOps /\ "signUp" \notin {"read"}
        BY DEF RowOps
    <2> QED
        BY <2>2, <2>3, <2>5, <2>6 DEF NothingStuck
<1>9. ASSUME NEW f \in flight, NEW good \in BOOLEAN,
             refused(f) \/ notRegistered(f) \/ recovered(f, good) \/ asked(f, good)
      PROVE  NothingStuck'
    <2>1. CASE trip.place # "page"
        <3>1. trip' = trip
            BY <1>9 DEF refused, notRegistered, recovered, asked, Hears
        <3> QED
            BY <2>1, <3>1 DEF NothingStuck
    <2>2. CASE trip.place = "page" /\ refused(f)
        <3> DEFINE next == [ui EXCEPT !.marks = @ \ {"login"}, !.form = More(@), !.notice = Says(f, FALSE)]
        <3>1. next.busy = ui.busy /\ next.marks = ui.marks \ {"login"} /\ next.loading = ui.loading
            BY UITyped DEF UI
        <3>2. Hears(f, FALSE, next) /\ f.op = "login"
            BY <2>2 DEF refused
        <3> HIDE DEF next
        <3>3. /\ next.busy \in {ui.busy, None} /\ f.op \notin RowOps /\ f.op # "read"
              /\ next.marks \intersect DOMAIN Clearing \subseteq ui.marks
              /\ \A m \in DOMAIN Clearing : f.op \in Clearing[m] => m \notin next.marks
              /\ next.loading => ui.loading
            BY <3>1, <3>2, ClearingIs DEF RowOps
        <3> QED
            BY <2>2, <3>2, <3>3, HeardStuck
    <2>3. CASE trip.place = "page" /\ notRegistered(f)
        <3> DEFINE next == [ui EXCEPT !.marks = @ \ {"signUp"}, !.notice = Says(f, FALSE)]
        <3>1. next.busy = ui.busy /\ next.marks = ui.marks \ {"signUp"} /\ next.loading = ui.loading
            BY UITyped DEF UI
        <3>2. Hears(f, FALSE, next) /\ f.op \in {"signUp", "loginAfter"}
            BY <2>3 DEF notRegistered
        <3> HIDE DEF next
        <3>3. /\ next.busy \in {ui.busy, None} /\ f.op \notin RowOps /\ f.op # "read"
              /\ next.marks \intersect DOMAIN Clearing \subseteq ui.marks
              /\ \A m \in DOMAIN Clearing : f.op \in Clearing[m] => m \notin next.marks
              /\ next.loading => ui.loading
            BY <3>1, <3>2, ClearingIs DEF RowOps
        <3> QED
            BY <2>3, <3>2, <3>3, HeardStuck
    <2>4. CASE trip.place = "page" /\ recovered(f, good)
        <3> DEFINE next == [ui EXCEPT !.marks = @ \ (IF good THEN {"login", "recovering"} ELSE {"login"}),
                                      !.form = IF good THEN 0 ELSE @, !.notice = Says(f, good)]
        <3>1. /\ next.busy = ui.busy /\ next.marks \subseteq ui.marks \ {"login"}
              /\ next.loading = ui.loading
            BY UITyped DEF UI
        <3>2. Hears(f, good, next) /\ f.op = "recover"
            BY <2>4 DEF recovered
        <3> HIDE DEF next
        <3> QED
            BY <2>4, <3>1, <3>2, HeardStuck, ClearingIs DEF RowOps
    <2>5. CASE trip.place = "page" /\ asked(f, good)
        <3> DEFINE next == [ui EXCEPT !.marks = @ \ {"forgot"}, !.notice = Says(f, good)]
        <3>1. next.busy = ui.busy /\ next.marks = ui.marks \ {"forgot"} /\ next.loading = ui.loading
            BY UITyped DEF UI
        <3>2. Hears(f, good, next) /\ f.op = "forgot"
            BY <2>5 DEF asked
        <3> HIDE DEF next
        <3> QED
            BY <2>5, <3>1, <3>2, HeardStuck, ClearingIs DEF RowOps
    <2> QED
        BY <1>9, <2>1, <2>2, <2>3, <2>4, <2>5
<1> QED
    <2>1. CASE trip.place = "page" /\ (\/ \E d \in {"login", "signUp", "forgot"} : opens(d) \/ follows(d)
                                       \/ closes \/ setRecovering \/ submitLogin \/ recover
                                       \/ submitSignUp \/ submitForgot \/ leaveFor)
        BY <1>1, <1>2, <1>3, <1>4, <1>5, <2>1
    <2>2. ASSUME NEW f \in flight, \/ \E right \in BOOLEAN : Handles(f, right, server)
                                   \/ enters(f) \/ refused(f) \/ registered(f) \/ notRegistered(f)
                                   \/ \E good \in BOOLEAN : recovered(f, good) \/ asked(f, good)
          PROVE  NothingStuck'
        BY <1>6, <1>7, <1>8, <1>9, <2>2
    <2> QED
        BY <2>1, <2>2 DEF EntranceNext

\* A page that is drawn waits for its list.
LEMMA RedirectsUnstuck == ASSUME ScreenTyped, NothingStuck, RedirectsNext PROVE NothingStuck'
<1>1. ASSUME trip'.place # "page" PROVE NothingStuck'
    BY <1>1 DEF NothingStuck
<1>2. ASSUME NEW claim, ui' = Drawn(claim), Asks(sent + 1, "read", None, 0) \in flight'
      PROVE  NothingStuck'
    <2>1. ui'.busy = None /\ ui'.marks = {}
        BY <1>2 DEF Drawn
    <2>2. Awaited({"read"})'
        BY <1>2 DEF Awaited, Asks
    <2> QED
        BY <2>1, <2>2 DEF NothingStuck
<1>3. ASSUME NEW b \in BOOLEAN, ComesBack(b) PROVE NothingStuck'
    <2>1. trip'.place \in {"callback", "home"}
        BY <1>3 DEF ComesBack, Goes, ScreenTyped, ScreenTypeOK, Trip
    <2> QED
        BY <1>1, <2>1
<1>4. ASSUME NEW m \in BOOLEAN, NEW g \in BOOLEAN, NEW l \in BOOLEAN, AuthCallback(m, g, l)
      PROVE  NothingStuck'
    <2>1. trip'.place \in {"linking", "security", "dashboard", "failed"}
        BY <1>4 DEF AuthCallback, resumeAccountLink, Configured, Registered, SecurityPage, Dashboard,
                    ScreenTyped, ScreenTypeOK, Trip
    <2> QED
        BY <1>1, <2>1
<1>5. CASE linkReturnUri
    <2>1. trip'.place = "security"
        BY <1>5 DEF linkReturnUri, Goes, ScreenTyped, ScreenTypeOK, Trip
    <2> QED
        BY <1>1, <2>1
<1>6. CASE DrawsClaimed \/ TurnsBack
    BY <1>2, <1>6 DEF DrawsClaimed, Draws, TurnsBack
<1>7. CASE GoesBackToLogin
    <2>1. ui'.busy = None /\ ui'.marks = {} /\ ~ui'.loading
        BY <1>7 DEF GoesBackToLogin, Drawn
    <2> QED
        BY <2>1 DEF NothingStuck
<1>8. \A c, s \in BOOLEAN : accountLinkUrl(c, s) \in BOOLEAN
    BY DEF accountLinkUrl
<1> QED
    BY <1>3, <1>4, <1>5, <1>6, <1>7, <1>8 DEF RedirectsNext

\* The bell and the notifications page: a mark is cleared by the last of the
\* writes it stands for, so the last of them is still to be answered.
Writes == {"markRead", "markAll"}
LastAwaited(op) ==
    \E g \in flight : g.op = op /\ g.waits /\ \A h \in flight : h.op = op => h.id <= g.id
NotedInv ==
    card = "notifications" =>
        /\ \A f \in flight : f.op \in Writes => f.id <= sent
        /\ "pending" \in ui.marks => LastAwaited("markRead")
        /\ "saving" \in ui.marks => LastAwaited("markAll")

\* A write that is the newest of its kind.
LEMMA LastPressed ==
    ASSUME ScreenTyped, NotedInv, card = "notifications", NEW op \in Writes, NEW row, NEW next,
           Presses(op, row, next)
    PROVE  /\ \A f \in flight' : f.op \in Writes => f.id <= sent'
           /\ LastAwaited(op)'
           /\ \A q \in Writes : LastAwaited(q) => LastAwaited(q)'
<1> DEFINE new == Asks(sent + 1, op, row, 0)
<1>1. new.id = sent + 1 /\ new.op = op /\ new.waits
    BY DEF Asks
<1>2. flight' = flight \union {new} /\ sent' = sent + 1
    BY DEF Presses, SendsWith
<1>3. sent \in Nat /\ \A f \in flight : f.id \in Nat /\ (f.op \in Writes => f.id <= sent)
    BY RequestTyped DEF NotedInv, ScreenTyped, ScreenTypeOK, Request
<1> HIDE DEF new
<1>4. \A f \in flight' : f.op \in Writes => f.id <= sent'
    BY <1>1, <1>2, <1>3
<1>5. LastAwaited(op)'
    <2>1. \A h \in flight' : h.op = op => h.id <= new.id
        BY <1>1, <1>2, <1>3
    <2> QED
        BY <1>1, <1>2, <2>1 DEF LastAwaited
<1>6. ASSUME NEW q \in Writes, q # op, LastAwaited(q) PROVE LastAwaited(q)'
    BY <1>1, <1>2, <1>6 DEF LastAwaited
<1> QED
    BY <1>4, <1>5, <1>6

\* One request is over or handled, the other writes are as they were.
LEMMA LastKept ==
    ASSUME ScreenTyped, NEW op \in Writes, LastAwaited(op), NEW f \in flight,
           \A h \in flight \ {f} : h.op \in Writes => h \in flight',
           \A h \in flight' : h.op \in Writes => h \in flight \/ (h.op = f.op /\ h.id = f.id),
           \/ f.op # op \/ ~Latest(f)
           \/ f.waits /\ \E k \in flight' : k.waits /\ k.op = f.op /\ k.id = f.id
    PROVE  LastAwaited(op)'
<1>1. PICK g \in flight : g.op = op /\ g.waits /\ \A h \in flight : h.op = op => h.id <= g.id
    BY DEF LastAwaited
<1>2. \A h \in flight : h.id \in Nat
    BY RequestTyped DEF Request
<1>3. \A h \in flight' : h.op = op => h.id <= g.id
    BY <1>1
<1>4. CASE f.op # op
    BY <1>1, <1>3, <1>4 DEF LastAwaited
<1>5. CASE f.op = op /\ ~Latest(f)
    <2>1. PICK n \in flight : n.op = op /\ ~(n.id <= f.id)
        BY <1>5 DEF Latest
    <2>2. n.id <= g.id /\ n.id \in Nat /\ f.id \in Nat /\ g.id \in Nat
        BY <1>1, <1>2, <2>1
    <2>3. g # f
        BY <2>1, <2>2
    <2> QED
        BY <1>1, <1>3, <2>3 DEF LastAwaited
<1>6. CASE f.op = op /\ f.waits /\ \E k \in flight' : k.waits /\ k.op = f.op /\ k.id = f.id
    <2>1. PICK k \in flight' : k.waits /\ k.op = f.op /\ k.id = f.id
        BY <1>6
    <2>2. CASE g = f
        BY <1>1, <1>3, <1>6, <2>1, <2>2 DEF LastAwaited
    <2>3. CASE g # f
        BY <1>1, <1>3, <2>3 DEF LastAwaited
    <2> QED
        BY <2>2, <2>3
<1> QED
    BY <1>4, <1>5, <1>6

\* What is shown on these pages.
LEMMA NotedUnstuck ==
    ASSUME ScreenTyped, NothingStuck, NotedInv', card = "notifications", UNCHANGED <<card, trip>>,
           ui'.busy = ui.busy, ui'.marks \subseteq ui.marks \union {"pending", "saving", "counted"},
           ui'.loading => Awaited({"read"})'
    PROVE  NothingStuck'
<1>1. trip.place = "page" /\ \A f \in flight : f.op \in OpsAt("notifications")
    BY DEF ScreenTyped, AtHome, HomeCards
<1>2. ui.busy = None
    BY <1>1 DEF NothingStuck, Awaited, RowOps, OpsAt
<1>3. ui.marks \intersect DOMAIN Clearing \subseteq {"pending", "saving"}
    <2>1. ASSUME NEW m \in ui.marks \intersect DOMAIN Clearing, m \notin {"pending", "saving"} PROVE FALSE
        <3>1. Awaited(Clearing[m])
            BY <1>1 DEF NothingStuck
        <3>2. Clearing[m] \intersect OpsAt("notifications") = {}
            BY <2>1, ClearingIs DEF OpsAt
        <3> QED
            BY <1>1, <3>1, <3>2 DEF Awaited
    <2> QED
        BY <2>1
<1>4. ui'.marks \intersect DOMAIN Clearing \subseteq {"pending", "saving"}
    BY <1>3, ClearingIs
<1>5. /\ "pending" \in ui'.marks => Awaited(Clearing["pending"])'
      /\ "saving" \in ui'.marks => Awaited(Clearing["saving"])'
    BY ClearingIs DEF NotedInv, LastAwaited, Awaited
<1> QED
    BY <1>2, <1>4, <1>5 DEF NothingStuck

LEMMA InvalidatedLast ==
    ASSUME ScreenTyped, NEW f \in flight, NEW next, invalidateQueries(f, next)
    PROVE  /\ \A h \in flight \ {f} : h.op \in Writes => h \in flight'
           /\ \A h \in flight' : h.op \in Writes => h \in flight
           /\ sent' \in Nat /\ sent <= sent'
           /\ ui' = next /\ UNCHANGED <<card, trip>>
           /\ (ui.loading /\ Awaited({"read"}) /\ f.op # "read") => Awaited({"read"})'
<1>1. Refetched \subseteq {"read", "count"} /\ Cardinality(Refetched) \in Nat
    BY RefetchedTyped
<1>2. /\ flight' = ({IF g.op \in Refetched THEN [g EXCEPT !.waits = FALSE] ELSE g :
                      g \in {h \in flight \ {f} : h.op \notin Refetched \/ h.at = "sent"}})
                   \union {Asks(Ids(Refetched)[op], op, None, 0) : op \in Refetched}
      /\ sent' = sent + Cardinality(Refetched) /\ ui' = next /\ UNCHANGED <<card, trip>>
    BY DEF invalidateQueries
<1>3. ASSUME NEW h \in flight \ {f}, h.op \notin Refetched PROVE h \in flight'
    BY <1>2, <1>3
<1>4. ASSUME NEW h \in flight', h.op \in Writes PROVE h \in flight
    <2>1. \A op \in Refetched : Asks(Ids(Refetched)[op], op, None, 0).op = op
        BY DEF Asks
    <2>2. \A g \in flight : [g EXCEPT !.waits = FALSE].op = g.op
        BY RequestTyped DEF Request
    <2>3. h.op \notin Refetched
        BY <1>1, <1>4 DEF Writes
    <2> QED
        BY <1>2, <1>4, <2>1, <2>2, <2>3
<1>5. ASSUME ui.loading, Awaited({"read"}), f.op # "read" PROVE Awaited({"read"})'
    <2>1. PICK g \in flight : g.op = "read" /\ g.waits
        BY <1>5 DEF Awaited
    <2>2. "read" \notin Refetched
        BY <1>5, <2>1 DEF Refetched, Refetch, HasList, Reading
    <2>3. g \in flight'
        BY <1>3, <1>5, <2>1, <2>2
    <2> QED
        BY <2>1, <2>3 DEF Awaited
<1>6. sent' \in Nat /\ sent <= sent'
    BY <1>1, <1>2 DEF ScreenTyped, ScreenTypeOK
<1> QED
    BY <1>1, <1>2, <1>3, <1>4, <1>5, <1>6 DEF Writes

LEMMA NotificationsUnstuck ==
    ASSUME ScreenTyped, NotedInv, NothingStuck, NotificationsNext
    PROVE  NotedInv' /\ NothingStuck'
<1>1. card = "notifications" /\ UNCHANGED <<card, trip>> /\ trip.place = "page"
    BY NotificationsStay DEF NotificationsNext, OnPage, Stays
<1>2. /\ \A f \in flight : f.op \in Writes => f.id <= sent
      /\ "pending" \in ui.marks => LastAwaited("markRead")
      /\ "saving" \in ui.marks => LastAwaited("markAll")
      /\ ui.loading => Awaited({"read"})
    BY <1>1 DEF NotedInv, NothingStuck
<1>4. ASSUME NEW op \in Writes, NEW row, NEW mark,
             \/ op = "markRead" /\ mark = "pending"
             \/ op = "markAll" /\ mark = "saving",
             Presses(op, row, [ui EXCEPT !.marks = @ \union {mark}])
      PROVE  NotedInv' /\ NothingStuck'
    <2>1. /\ ui'.busy = ui.busy /\ ui'.marks = ui.marks \union {mark} /\ ui'.loading = ui.loading
          /\ flight \subseteq flight'
        BY <1>4, UITyped DEF Presses, SendsWith, UI
    <2>2. /\ \A f \in flight' : f.op \in Writes => f.id <= sent'
          /\ LastAwaited(op)'
          /\ \A q \in Writes : LastAwaited(q) => LastAwaited(q)'
        BY <1>1, <1>4, LastPressed
    <2>3. NotedInv'
        <3>1. LastAwaited("markRead") => LastAwaited("markRead")'
            BY <2>2 DEF Writes
        <3>2. LastAwaited("markAll") => LastAwaited("markAll")'
            BY <2>2 DEF Writes
        <3> QED
            BY <1>2, <1>4, <2>1, <2>2, <3>1, <3>2 DEF NotedInv
    <2>4. ui'.loading => Awaited({"read"})'
        BY <1>2, <2>1 DEF Awaited
    <2> QED
        BY <1>1, <1>4, <2>1, <2>3, <2>4, NotedUnstuck
<1>5. ASSUME UNCHANGED <<ui, sent, flight>> PROVE NotedInv' /\ NothingStuck'
    <2>1. NotedInv'
        BY <1>1, <1>5 DEF NotedInv, LastAwaited
    <2> QED
        BY <1>1, <1>5, <2>1, ElsewhereStuck
\* One request is answered at the API, or over.
<1>6. ASSUME NEW f \in flight, sent' \in Nat, sent <= sent',
             ui'.busy = ui.busy, ui'.marks \subseteq ui.marks \union {"counted"},
             \A h \in flight \ {f} : h.op \in Writes => h \in flight',
             \A h \in flight' : h.op \in Writes => h \in flight \/ (h.op = f.op /\ h.id = f.id),
             \A op \in Writes :
                \/ f.op # op \/ ~Latest(f)
                \/ f.waits /\ \E k \in flight' : k.waits /\ k.op = f.op /\ k.id = f.id
                \/ op = "markRead" /\ "pending" \notin ui'.marks
                \/ op = "markAll" /\ "saving" \notin ui'.marks,
             ui'.loading => Awaited({"read"})'
      PROVE  NotedInv' /\ NothingStuck'
    <2>1. \A h \in flight' : h.op \in Writes => h.id <= sent'
        <3>1. \A h \in flight : h.id \in Nat
            BY RequestTyped DEF Request
        <3>2. sent \in Nat
            BY DEF ScreenTyped, ScreenTypeOK
        <3> QED
            BY <1>2, <1>6, <3>1, <3>2
    <2>2. "pending" \in ui'.marks => LastAwaited("markRead")'
        BY <1>2, <1>6, LastKept DEF Writes
    <2>3. "saving" \in ui'.marks => LastAwaited("markAll")'
        BY <1>2, <1>6, LastKept DEF Writes
    <2>4. NotedInv'
        BY <2>1, <2>2, <2>3 DEF NotedInv
    <2> QED
        BY <1>1, <1>6, <2>4, NotedUnstuck
<1>7. ASSUME NEW f \in flight, NEW k, flight' = (flight \ {f}) \union (IF k.waits THEN {k} ELSE {}),
             k.id = f.id, k.op = f.op, k.waits = f.waits, UNCHANGED <<ui, sent>>
      PROVE  NotedInv' /\ NothingStuck'
    <2>1. Awaited({"read"}) => Awaited({"read"})'
        BY <1>7 DEF Awaited
    <2>2. CASE f.waits
        <3>1. sent' \in Nat /\ sent <= sent'
            BY <1>7 DEF ScreenTyped, ScreenTypeOK
        <3> QED
            BY <1>2, <1>6, <1>7, <2>1, <2>2, <3>1
    <2>3. CASE ~f.waits
        <3>1. /\ flight' = flight \ {f}
              /\ \A q : LastAwaited(q) => LastAwaited(q)'
            BY <1>7, <2>3 DEF LastAwaited
        <3>2. NotedInv'
            BY <1>2, <1>7, <3>1 DEF NotedInv
        <3> QED
            BY <1>1, <1>2, <1>7, <2>1, <3>2, NotedUnstuck
    <2> QED
        BY <2>2, <2>3
<1>8. ASSUME NEW f \in flight, AtTheApi(f) PROVE NotedInv' /\ NothingStuck'
    <2>1. UNCHANGED <<ui, sent>>
        BY <1>8 DEF AtTheApi, Handles
    <2>2. ASSUME NEW allowed, NEW after, Handles(f, allowed, after) PROVE NotedInv' /\ NothingStuck'
        <3>1. PICK k : /\ flight' = (flight \ {f}) \union (IF k.waits THEN {k} ELSE {})
                       /\ k.id = f.id /\ k.op = f.op /\ k.waits = f.waits
            BY <2>2, HandledOne
        <3> QED
            BY <1>7, <2>1, <3>1
    <2>3. CASE Becomes(f, [f EXCEPT !.at = "answered", !.got = Counted])
        <3> DEFINE k == [f EXCEPT !.at = "answered", !.got = Counted]
        <3>1. k.id = f.id /\ k.op = f.op /\ k.waits = f.waits
            BY RequestTyped DEF Request
        <3>2. flight' = (flight \ {f}) \union (IF k.waits THEN {k} ELSE {})
            BY <2>3 DEF Becomes
        <3> HIDE DEF k
        <3> QED
            BY <1>7, <2>1, <3>1, <3>2
    <2> QED
        BY <1>8, <2>2, <2>3 DEF AtTheApi
<1>9. ASSUME NEW f \in flight, NEW good \in BOOLEAN, NEW next, Hears(f, good, next),
             next.busy = ui.busy, next.marks \subseteq ui.marks \union {"counted"},
             \A op \in Writes :
                \/ f.op # op \/ ~Latest(f)
                \/ op = "markRead" /\ "pending" \notin next.marks
                \/ op = "markAll" /\ "saving" \notin next.marks,
             next.loading => ui.loading /\ f.op # "read"
      PROVE  NotedInv' /\ NothingStuck'
    <2>1. /\ ui' = next /\ sent' = sent /\ sent \in Nat /\ flight \ {f} \subseteq flight'
          /\ \A h \in flight' : h \in flight \/ (h.op = f.op /\ h.id = f.id)
        BY <1>9, HeardOne DEF ScreenTyped, ScreenTypeOK
    <2>2. ui'.loading => Awaited({"read"})'
        BY <1>2, <1>9, <2>1 DEF Awaited
    <2> QED
        BY <1>6, <1>9, <2>1, <2>2
<1>10. ASSUME NEW f \in flight, NEW good \in BOOLEAN, useNotifications(f, good)
       PROVE  NotedInv' /\ NothingStuck'
    <2>1. CASE listed(f, good)
        <3> DEFINE next == IF good THEN [ui EXCEPT !.held.rows = f.got.rows, !.held.stamp = f.got.stamp,
                                                   !.loading = FALSE, !.failed = FALSE]
                           ELSE [ui EXCEPT !.loading = FALSE, !.failed = ui.loading \/ ui.failed]
        <3>1. next.busy = ui.busy /\ next.marks = ui.marks /\ ~next.loading
            BY UITyped DEF UI
        <3>2. Hears(f, good, next) /\ f.op = "read"
            BY <2>1 DEF listed
        <3> HIDE DEF next
        <3> QED
            BY <1>9, <3>1, <3>2 DEF Writes
    <2>2. CASE counted(f, good)
        <3> DEFINE next == IF good THEN [ui EXCEPT !.held.aside = f.got.aside,
                                                   !.marks = @ \union {"counted"}]
                           ELSE ui
        <3>1. /\ next.busy = ui.busy /\ next.marks \subseteq ui.marks \union {"counted"}
              /\ next.loading = ui.loading
            BY UITyped DEF UI
        <3>2. Hears(f, good, next) /\ f.op = "count"
            BY <2>2 DEF counted
        <3> HIDE DEF next
        <3> QED
            BY <1>9, <3>1, <3>2 DEF Writes
    <2>3. CASE marked(f, good)
        <3> DEFINE next == [ui EXCEPT !.marks = @ \ (IF Latest(f) THEN MarkOf(f) ELSE {})]
        <3>1. /\ next.busy = ui.busy /\ next.loading = ui.loading
              /\ next.marks = ui.marks \ (IF Latest(f) THEN MarkOf(f) ELSE {})
            BY UITyped DEF UI
        <3>2. /\ f.op \in Writes
              /\ \/ good /\ invalidateQueries(f, next)
                 \/ ~good /\ Hears(f, FALSE, next)
            BY <2>3 DEF marked, Writes
        <3> HIDE DEF next
        <3>3. \A op \in Writes :
                \/ f.op # op \/ ~Latest(f)
                \/ op = "markRead" /\ "pending" \notin next.marks
                \/ op = "markAll" /\ "saving" \notin next.marks
            BY <3>1 DEF Writes, MarkOf
        <3>4. CASE Hears(f, FALSE, next)
            <4>1. next.marks \subseteq ui.marks \union {"counted"} /\ f.op # "read"
                BY <3>1, <3>2 DEF Writes
            <4>2. FALSE \in BOOLEAN
                OBVIOUS
            <4> QED
                BY <1>9, <3>1, <3>3, <3>4, <4>1, <4>2
        <3>5. CASE invalidateQueries(f, next)
            <4>1. /\ \A h \in flight \ {f} : h.op \in Writes => h \in flight'
                  /\ \A h \in flight' : h.op \in Writes => h \in flight
                  /\ sent' \in Nat /\ sent <= sent' /\ ui' = next
                  /\ (ui.loading /\ Awaited({"read"}) /\ f.op # "read") => Awaited({"read"})'
                BY <3>5, InvalidatedLast
            <4>2. ui'.marks \subseteq ui.marks \union {"counted"} /\ f.op # "read"
                BY <3>1, <3>2, <4>1 DEF Writes
            <4>3. ui'.loading => Awaited({"read"})'
                BY <1>2, <3>1, <4>1, <4>2
            <4> QED
                BY <1>6, <3>1, <3>3, <4>1, <4>2, <4>3
        <3> QED
            BY <3>2, <3>4, <3>5
    <2> QED
        BY <1>10, <2>1, <2>2, <2>3 DEF useNotifications
<1>11. CASE useMarkAllNotificationsRead
    BY <1>4, <1>11 DEF useMarkAllNotificationsRead, Writes
<1>12. ASSUME NEW r \in Rows, useMarkNotificationRead(r) PROVE NotedInv' /\ NothingStuck'
    BY <1>4, <1>12 DEF useMarkNotificationRead, Writes
<1>13. ASSUME NEW r \in Rows, Notified(r) PROVE NotedInv' /\ NothingStuck'
    BY <1>5, <1>13 DEF Notified, Elsewhere
<1> QED
    BY <1>8, <1>10, <1>11, <1>12, <1>13 DEF NotificationsNext

LEMMA NotedAlways == ScreenTyped /\ NotedInv /\ NothingStuck /\ [Next]_screen => NotedInv'
<1> SUFFICES ASSUME ScreenTyped, NotedInv, NothingStuck, [Next]_screen, card' = "notifications"
             PROVE  NotedInv'
    BY DEF NotedInv
<1>1. card = "notifications"
    BY HomeIsNotReached DEF HomeCards
<1>2. CASE UNCHANGED screen
    BY <1>2 DEF screen, NotedInv, LastAwaited
<1>3. CASE Next
    <2>1. NotificationsNext
        BY <1>1, <1>3, HomeNext DEF HomeCards
    <2> QED
        BY <2>1, NotificationsUnstuck
<1> QED
    BY <1>2, <1>3

LEMMA UnstuckAlways == ScreenTyped /\ NotedInv /\ NothingStuck /\ [Next]_screen => NothingStuck'
<1>1. CASE UNCHANGED screen
    BY <1>1, ElsewhereStuck DEF screen
<1> QED
    BY <1>1, EmailUnstuck, SsoUnstuck, PasskeyUnstuck, FactorUnstuck, WalletUnstuck, ActivityUnstuck,
       PasswordUnstuck, ProfileUnstuck, NotificationsUnstuck, EntranceUnstuck, RedirectsUnstuck DEF Next

\* On every card and through every trip, while a row or a button is held back
\* or a page is loading, an answer is on its way that sets it free.
THEOREM NothingIsStuck == Spec => []NothingStuck
<1>1. Init => NotedInv /\ NothingStuck
    <2> SUFFICES ASSUME Init PROVE NotedInv /\ NothingStuck
        OBVIOUS
    <2>1. PICK c \in Cards : /\ card = c /\ ui = [Drawn(None) EXCEPT !.loading = c # "entrance"]
                             /\ flight = Opening(c)
        BY DEF Init
    <2>2. ui.busy = None /\ ui.marks = {} /\ (ui.loading => c # "entrance")
        BY <2>1 DEF Drawn
    <2>3. c # "entrance" => Asks(1, "read", None, 0) \in flight
        BY <2>1 DEF Opening
    <2>4. ui.loading => Awaited({"read"})
        BY <2>2, <2>3 DEF Awaited, Asks
    <2>5. \A f \in flight : f.op \notin Writes
        BY <2>1 DEF Opening, Asks, Writes
    <2> QED
        BY <2>2, <2>4, <2>5 DEF NothingStuck, NotedInv
<1> QED
    BY <1>1, NotedAlways, UnstuckAlways, AlwaysTyped, PTL DEF Spec

-----------------------------------------------------------------------------
(* Answers in order.  On these cards only one answer that would replace the *)
(* list is waited for at a time: the first reading, and then one save.      *)

Fresh == trip.place = "page" /\ ui.claim = None
Alone == {"sso", "passkeys", "factors", "activity", "profile"}
RowSaves == {"disconnect", "remove", "disable", "startSms", "confirmSms", "yes", "no"}
Saves == IF card = "profile" THEN {"save"} ELSE RowSaves
Occupied == IF card = "profile" THEN "saving" \in ui.marks ELSE ui.busy # None
Replaces(f) == f.waits /\ f.op \notin {"generate", "count", "markRead", "markAll"}

\* The dialogs that a row of the list opens.
Gated == {"disconnect", "remove", "disable", "number", "code", "event"}
AboutRow == {"disconnect", "remove", "disable", "event"}

TurnInv ==
    Fresh =>
        /\ card \in Alone =>
             /\ \A f \in flight : f.waits => \/ f.op = "read" /\ ui.loading
                                             \/ f.op \in Saves /\ ~ui.loading /\ Occupied
                                             \/ f.op = "generate"
             /\ ui.dialog.action \in Gated => ~ui.loading
             /\ ui.dialog.action \in AboutRow => ui.dialog.row \in Rows
        /\ card \in Ordered => \A f, g \in flight : Replaces(f) /\ Replaces(g) => f = g

\* What it was computed from is no older than what the page has.
StampInv ==
    (Fresh /\ card \in Ordered) =>
        /\ ui.held.stamp <= server.stamp
        /\ \A f \in flight : Replaces(f) /\ f.at = "answered" =>
                f.got.stamp \in ui.held.stamp .. server.stamp

\* Nobody waits on a trip.
QuietInv == trip.place \notin {"page", "dashboard"} => \A f \in flight : ~f.waits

InTurn == TurnInv /\ StampInv
Rises == (Fresh /\ card \in Ordered) => ui'.held.stamp >= ui.held.stamp

LEMMA AloneOrdered == Alone \subseteq Ordered /\ "notifications" \in Ordered
BY DEF Alone, Ordered

\* A page that was left, or that confirms a claim, has nothing to keep.
LEMMA StaleInTurn ==
    ASSUME ~Fresh' PROVE InTurn'
BY DEF InTurn, TurnInv, StampInv

LEMMA HandledInTurn ==
    ASSUME ScreenTyped, InTurn, card \in Ordered, NEW f \in flight, NEW allowed, NEW after,
           Handles(f, allowed, after), after.stamp \in Nat, after.stamp >= server.stamp
    PROVE  InTurn' /\ Rises
<1>1. PICK k :
        /\ flight' = (flight \ {f}) \union (IF k.waits THEN {k} ELSE {})
        /\ k.op = f.op /\ k.waits = f.waits
        /\ \/ k.at = "answered" /\ k.got = after /\ server' = after /\ allowed
           \/ k.at = "refused" /\ server' = server /\ ~allowed
    BY HandledOne
<1>2. UNCHANGED <<card, ui, trip>>
    BY DEF Handles
<1>3. TurnInv'
    <2>1. ASSUME NEW g \in flight', g.waits
          PROVE  \E h \in flight : h.op = g.op /\ h.waits
        BY <1>1, <2>1
    <2>2. ASSUME Fresh, NEW g \in flight', NEW h \in flight', Replaces(g), Replaces(h)
          PROVE  g = h
        <3>1. \A a, b \in flight : Replaces(a) /\ Replaces(b) => a = b
            BY <2>2 DEF InTurn, TurnInv
        <3> QED
            BY <1>1, <2>2, <3>1 DEF Replaces
    <2>3. ASSUME Fresh, card \in Alone, NEW g \in flight', g.waits
          PROVE  \/ g.op = "read" /\ ui.loading
                 \/ g.op \in Saves /\ ~ui.loading /\ Occupied
                 \/ g.op = "generate"
        BY <2>1, <2>3 DEF InTurn, TurnInv
    <2>4. (Fresh /\ card \in Alone) => /\ ui.dialog.action \in Gated => ~ui.loading
                                       /\ ui.dialog.action \in AboutRow => ui.dialog.row \in Rows
        BY DEF InTurn, TurnInv
    <2>5. Fresh' = Fresh /\ Saves' = Saves /\ Occupied' = Occupied
        BY <1>2 DEF Fresh, Saves, Occupied
    <2> QED
        BY <1>2, <2>2, <2>3, <2>4, <2>5 DEF TurnInv, Replaces
<1>4. StampInv'
    <2> SUFFICES ASSUME Fresh PROVE StampInv'
        BY <1>2 DEF StampInv, Fresh
    <2>1. server'.stamp \in Nat /\ server'.stamp >= server.stamp
        BY <1>1, StampsTyped
    <2>2. /\ ui.held.stamp <= server.stamp
          /\ \A g \in flight : Replaces(g) /\ g.at = "answered" =>
                g.got.stamp \in ui.held.stamp .. server.stamp
        BY DEF InTurn, StampInv
    <2>3. ui.held.stamp <= server'.stamp
        BY <2>1, <2>2, StampsTyped
    <2>4. ASSUME NEW g \in flight', Replaces(g), g.at = "answered"
          PROVE  g.got.stamp \in ui.held.stamp .. server'.stamp
        <3>1. CASE g \in flight
            BY <2>1, <2>2, <2>4, <3>1, StampsTyped
        <3>2. CASE g = k
            <4>1. g.got.stamp = server'.stamp
                BY <1>1, <2>4, <3>2
            <4> QED
                BY <2>1, <2>3, <4>1, StampsTyped
        <3> QED
            BY <1>1, <3>1, <3>2
    <2> QED
        BY <1>2, <2>3, <2>4 DEF StampInv, Replaces
<1>5. Rises
    BY <1>2, StampsTyped DEF Rises
<1> QED
    BY <1>3, <1>4, <1>5 DEF InTurn

LEMMA ReadInTurn ==
    ASSUME ScreenTyped, InTurn, card \in Ordered, NEW f \in flight, Reads(f)
    PROVE  InTurn' /\ Rises
<1>1. server.stamp \in Nat /\ server.stamp >= server.stamp
    BY StampsTyped
<1> QED
    BY <1>1, HandledInTurn DEF Reads

\* The page is redrawn, or the account changes elsewhere.
LEMMA ShownInTurn ==
    ASSUME ScreenTyped, InTurn, card \in Alone, UNCHANGED <<card, flight>>,
           trip'.place = trip.place,
           server'.stamp \in Nat, server'.stamp >= server.stamp,
           ui'.held = ui.held, ui'.claim = ui.claim, ui'.loading = ui.loading,
           Occupied' = Occupied,
           ui'.dialog.action \in Gated => ui.dialog.action \in Gated \/ ~ui.loading,
           ui'.dialog.action \in AboutRow => ui'.dialog = ui.dialog \/ ui'.dialog.row \in Rows
    PROVE  InTurn' /\ Rises
<1>1. Fresh' = Fresh /\ Saves' = Saves
    BY DEF Fresh, Saves
<1>2. TurnInv'
    BY <1>1 DEF InTurn, TurnInv, Replaces
<1>3. StampInv'
    BY <1>1, StampsTyped DEF InTurn, StampInv, Replaces
<1>4. Rises
    BY StampsTyped DEF Rises
<1> QED
    BY <1>2, <1>3, <1>4 DEF InTurn

\* A save is sent while none is under way and the list is there.
LEMMA PressedInTurn ==
    ASSUME ScreenTyped, InTurn, card \in Alone, NEW op, NEW row, NEW content,
           SendsWith(op, row, content), UNCHANGED <<card, server, trip>>,
           ui'.held = ui.held, ui'.claim = ui.claim, ui'.loading = ui.loading,
           ui'.dialog = ui.dialog, Occupied => Occupied',
           \/ op = "generate"
           \/ op \in Saves /\ ~ui.loading /\ ~Occupied /\ Occupied'
    PROVE  InTurn' /\ Rises
<1> DEFINE new == Asks(sent + 1, op, row, content)
<1>1. new.op = op /\ new.waits /\ new.at = "sent" /\ flight' = flight \union {new}
    BY DEF SendsWith, Asks
<1> HIDE DEF new
<1>2. Fresh' = Fresh /\ Saves' = Saves
    BY DEF Fresh, Saves
<1>3. TurnInv'
    <2> SUFFICES ASSUME Fresh PROVE TurnInv'
        BY <1>2 DEF TurnInv
    <2>1. /\ \A f \in flight : f.waits => \/ f.op = "read" /\ ui.loading
                                          \/ f.op \in Saves /\ ~ui.loading /\ Occupied
                                          \/ f.op = "generate"
          /\ ui.dialog.action \in Gated => ~ui.loading
          /\ ui.dialog.action \in AboutRow => ui.dialog.row \in Rows
          /\ \A f, g \in flight : Replaces(f) /\ Replaces(g) => f = g
        BY AloneOrdered DEF InTurn, TurnInv
    <2>2. ASSUME NEW f \in flight', f.waits
          PROVE  \/ f.op = "read" /\ ui.loading
                 \/ f.op \in Saves /\ ~ui.loading /\ Occupied'
                 \/ f.op = "generate"
        BY <1>1, <2>1, <2>2
    <2>3. ASSUME NEW f \in flight', NEW g \in flight', Replaces(f), Replaces(g) PROVE f = g
        <3>1. CASE op = "generate"
            BY <1>1, <2>1, <2>3, <3>1 DEF Replaces
        <3>2. CASE op # "generate"
            BY <1>1, <2>1, <2>3, <3>2 DEF Replaces
        <3> QED
            BY <3>1, <3>2
    <2> QED
        BY <1>2, <2>1, <2>2, <2>3 DEF TurnInv, Replaces
<1>4. StampInv'
    BY <1>1, <1>2 DEF InTurn, StampInv, Replaces
<1>5. Rises
    BY StampsTyped DEF Rises
<1> QED
    BY <1>3, <1>4, <1>5 DEF InTurn

\* The only answer that replaces the list, or one that does not.
LEMMA HeardInTurn ==
    ASSUME ScreenTyped, InTurn, card \in Alone, NEW f \in flight, NEW good, NEW next,
           Hears(f, good, next), next.claim = ui.claim,
           \/ /\ f.op = "generate"
              /\ next.loading = ui.loading /\ next.busy = ui.busy /\ next.dialog = ui.dialog
              /\ "saving" \in ui.marks => "saving" \in next.marks
              /\ next.held.stamp = ui.held.stamp
           \/ /\ f.op # "generate" /\ next.held.stamp \in Nat
              /\ \/ next.held.stamp = ui.held.stamp
                 \/ good /\ next.held.stamp = f.got.stamp
              /\ next.loading => f.op # "read" /\ ui.loading
              /\ next.dialog.action \in AboutRow => next.dialog = ui.dialog
    PROVE  InTurn' /\ Rises
<1>1. /\ f.waits /\ ui' = next /\ UNCHANGED <<card, server, trip>>
      /\ \A g \in flight' : g \in flight \ {f} \/ ~g.waits
    BY HeardOne
<1>2. good => f.at = "answered"
    BY DEF Hears, Answers
<1>3. Fresh' = Fresh /\ Saves' = Saves
    BY <1>1 DEF Fresh, Saves
<1>4. CASE ~Fresh
    BY <1>3, <1>4, StaleInTurn DEF Rises
<1>5. CASE Fresh
    <2>1. /\ \A g \in flight : g.waits => \/ g.op = "read" /\ ui.loading
                                          \/ g.op \in Saves /\ ~ui.loading /\ Occupied
                                          \/ g.op = "generate"
          /\ ui.dialog.action \in Gated => ~ui.loading
          /\ ui.dialog.action \in AboutRow => ui.dialog.row \in Rows
          /\ \A g, h \in flight : Replaces(g) /\ Replaces(h) => g = h
        BY <1>5, AloneOrdered DEF InTurn, TurnInv
    <2>2. /\ ui.held.stamp <= server.stamp
          /\ \A g \in flight : Replaces(g) /\ g.at = "answered" =>
                g.got.stamp \in ui.held.stamp .. server.stamp
        BY <1>5, AloneOrdered DEF InTurn, StampInv
    <2>3. CASE f.op = "generate"
        <3>1. /\ next.loading = ui.loading /\ next.busy = ui.busy /\ next.dialog = ui.dialog
              /\ "saving" \in ui.marks => "saving" \in next.marks
              /\ next.held.stamp = ui.held.stamp
            BY <2>3
        <3>2. Occupied => Occupied'
            BY <1>1, <3>1 DEF Occupied
        <3>3. TurnInv'
            BY <1>1, <1>3, <2>1, <3>1, <3>2 DEF TurnInv, Replaces
        <3>4. StampInv'
            BY <1>1, <1>3, <2>2, <3>1 DEF StampInv, Replaces
        <3> QED
            BY <1>1, <3>1, <3>3, <3>4, StampsTyped DEF InTurn, Rises
    <2>4. CASE f.op # "generate"
        <3>1. Replaces(f)
            BY <1>1, <2>1, <2>4 DEF Replaces, Saves, RowSaves
        <3>2. \A g \in flight' : ~Replaces(g) /\ (g.waits => g.op = "generate")
            BY <1>1, <2>1, <3>1 DEF Replaces, Saves, RowSaves
        <3>3. ~next.loading
            BY <1>1, <2>1, <2>4
        <3>4. next.held.stamp \in ui.held.stamp .. server.stamp
            BY <1>2, <2>2, <2>4, <3>1, StampsTyped
        <3>5. TurnInv'
            BY <1>1, <2>1, <2>4, <3>2, <3>3 DEF TurnInv
        <3>6. StampInv'
            <4>1. ui'.held.stamp <= server'.stamp
                BY <1>1, <3>4, StampsTyped
            <4> QED
                BY <3>2, <4>1 DEF StampInv
        <3>7. Rises
            BY <1>1, <3>4, StampsTyped DEF Rises
        <3> QED
            BY <3>5, <3>6, <3>7 DEF InTurn
    <2> QED
        BY <2>3, <2>4
<1> QED
    BY <1>4, <1>5

\* The opening and closing of dialogs.
LEMMA OpensInTurn ==
    ASSUME ScreenTyped, InTurn, card \in Alone, NEW action, NEW row, NEW open,
           \/ /\ Opens(action, row) /\ (action \in Gated => ~ui.loading)
              /\ action \in AboutRow => row \in Rows
           \/ Closes(open)
    PROVE  InTurn' /\ Rises
<1> DEFINE one == [ui EXCEPT !.dialog = [action |-> action, row |-> row]]
           two == [ui EXCEPT !.dialog = Nowhere]
<1>1. /\ one.held = ui.held /\ one.claim = ui.claim /\ one.loading = ui.loading /\ one.busy = ui.busy
      /\ one.marks = ui.marks /\ one.dialog.action = action /\ one.dialog.row = row
    BY UITyped DEF UI
<1>2. /\ two.held = ui.held /\ two.claim = ui.claim /\ two.loading = ui.loading /\ two.busy = ui.busy
      /\ two.marks = ui.marks /\ two.dialog.action = "none"
    BY UITyped DEF UI, Nowhere
<1>3. /\ UNCHANGED <<card, server, trip, flight>>
      /\ \/ /\ ui' = one /\ (action \in Gated => ~ui.loading)
            /\ action \in AboutRow => row \in Rows
         \/ ui' = two
    BY DEF Opens, Closes, Shows
<1> HIDE DEF one, two
<1>4. Occupied' = Occupied
    BY <1>1, <1>2, <1>3 DEF Occupied
<1>5. "none" \notin Gated /\ "none" \notin AboutRow
    BY DEF Gated, AboutRow
<1> QED
    BY <1>1, <1>2, <1>3, <1>4, <1>5, ShownInTurn, StampsTyped

LEMMA ElsewhereInTurn ==
    ASSUME ScreenTyped, InTurn, card \in Alone, NEW after, Elsewhere(after)
    PROVE  InTurn' /\ Rises
<1>1. server'.stamp \in Nat /\ server'.stamp >= server.stamp
    BY StampsTyped DEF Elsewhere
<1>2. UNCHANGED <<card, ui, trip, flight>>
    BY DEF Elsewhere
<1>3. Occupied' = Occupied
    BY <1>2 DEF Occupied
<1> QED
    BY <1>1, <1>2, <1>3, ShownInTurn

\* A trip begins: the page is gone, and nobody waits.
LEMMA StartInTurn ==
    ASSUME ScreenTyped, NEW kind, NEW row, startRedirect(kind, row)
    PROVE  InTurn'
<1>1. trip'.place = "provider"
    BY DEF startRedirect, ScreenTyped, ScreenTypeOK, Trip
<1> QED
    BY <1>1, StaleInTurn DEF Fresh

LEMMA CannotStartInTurn ==
    ASSUME ScreenTyped, InTurn, card \in Alone, NEW kind, NEW row, NEW next,
           CannotStart(kind, row, next), next.held = ui.held, next.claim = ui.claim,
           next.loading = ui.loading, next.busy = ui.busy, next.dialog = Nowhere, card # "profile"
    PROVE  InTurn'
<1>1. /\ trip'.place = trip.place /\ UNCHANGED <<card, server, flight>> /\ ui' = next
      /\ ui'.dialog.action \notin Gated /\ ui'.dialog.action \notin AboutRow
    BY DEF CannotStart, ScreenTyped, ScreenTypeOK, Trip, Nowhere, Gated, AboutRow
<1>2. Occupied' = Occupied
    BY <1>1 DEF Occupied
<1> QED
    BY <1>1, <1>2, ShownInTurn, StampsTyped

\* The reading of a list on these cards.
LEMMA ReadArrivesInTurn ==
    ASSUME ScreenTyped, InTurn, card \in Alone, NEW f \in flight, NEW good, ReadArrives(f, good)
    PROVE  InTurn' /\ Rises
<1> DEFINE next == IF good THEN [ui EXCEPT !.held = f.got, !.loading = FALSE]
                   ELSE [ui EXCEPT !.loading = FALSE, !.failed = TRUE]
<1>1. f.op = "read" /\ Hears(f, good, next)
    BY DEF ReadArrives
<1>2. /\ next.claim = ui.claim /\ ~next.loading /\ next.held.stamp \in Nat /\ next.dialog = ui.dialog
      /\ next.held.stamp = ui.held.stamp \/ (good /\ next.held.stamp = f.got.stamp)
    BY UITyped, StampsTyped DEF UI
<1> HIDE DEF next
<1> QED
    BY <1>1, <1>2, HeardInTurn

\* A save of a row is pressed, in the dialog about the row.
LEMMA BusyInTurn ==
    ASSUME ScreenTyped, InTurn, card \in Alone, card # "profile", NEW op \in RowSaves, NEW row,
           NEW r, Presses(op, row, [ui EXCEPT !.busy = r]), ui.busy = None,
           ui.dialog.action \in Gated,
           r \in Rows \/ (r = ui.dialog.row /\ ui.dialog.action \in AboutRow)
    PROVE  InTurn' /\ Rises
<1>1. /\ ui'.held = ui.held /\ ui'.claim = ui.claim /\ ui'.loading = ui.loading
      /\ ui'.dialog = ui.dialog /\ ui'.busy = r
      /\ SendsWith(op, row, 0) /\ UNCHANGED <<card, server, trip>>
    BY UITyped DEF Presses, UI
<1>2. CASE Fresh
    <2>1. ~ui.loading /\ r \in Rows
        BY <1>2 DEF InTurn, TurnInv
    <2>2. op \in Saves /\ ~Occupied /\ Occupied'
        BY <1>1, <2>1, ScreenAssumption DEF Saves, Occupied
    <2> QED
        BY <1>1, <2>1, <2>2, PressedInTurn
<1>3. CASE ~Fresh
    BY <1>1, <1>3, StaleInTurn DEF Fresh, Rises
<1> QED
    BY <1>2, <1>3

LEMMA ActivityInTurn == ASSUME ScreenTyped, InTurn, ActivityNext PROVE InTurn' /\ Rises
<1>1. card = "activity" /\ card \in Alone /\ card \in Ordered /\ card # "profile"
    BY AloneOrdered DEF ActivityNext, OnPage, Alone
<1>2. ASSUME NEW r \in Rows, setViewing(r) PROVE InTurn' /\ Rises
    BY <1>1, <1>2, OpensInTurn DEF setViewing, ActivityList
<1>3. CASE closeViewing
    BY <1>1, <1>3, OpensInTurn DEF closeViewing
<1>4. ASSUME NEW op \in {"yes", "no"}, onAnswer(op) PROVE InTurn' /\ Rises
    BY <1>1, <1>4, BusyInTurn DEF onAnswer, ActivityDialog, Gated, AboutRow, RowSaves
<1>5. ASSUME NEW after, Elsewhere(after) PROVE InTurn' /\ Rises
    BY <1>1, <1>5, ElsewhereInTurn
<1>6. ASSUME NEW f \in flight, Reads(f) PROVE InTurn' /\ Rises
    BY <1>1, <1>6, ReadInTurn
<1>7. ASSUME NEW f \in flight, NEW new,
             Handles(f, ReviewAllowed(f.row), ReviewSecurityEvent(f.op, f.row, new))
      PROVE  InTurn' /\ Rises
    <2>1. ReviewSecurityEvent(f.op, f.row, new).stamp \in Nat
        BY StampsTyped DEF ReviewSecurityEvent, With
    <2>2. ReviewSecurityEvent(f.op, f.row, new).stamp >= server.stamp
        BY WithGrows DEF ReviewSecurityEvent
    <2> QED
        BY <1>1, <1>7, <2>1, <2>2, HandledInTurn
<1>8. ASSUME NEW f \in flight, NEW good \in BOOLEAN, useSecurityActivity(f, good) PROVE InTurn' /\ Rises
    <2>1. CASE ReadArrives(f, good)
        BY <1>1, <2>1, ReadArrivesInTurn
    <2>2. CASE answered(f, good)
        <3> DEFINE next == IF good THEN [Replaced(f) EXCEPT !.busy = None, !.dialog = Nowhere,
                                                            !.notice = Says(f, TRUE)]
                           ELSE [ui EXCEPT !.busy = None, !.notice = Says(f, FALSE)]
        <3>1. /\ next.claim = ui.claim /\ next.loading = ui.loading /\ next.held.stamp \in Nat
              /\ next.dialog \in {ui.dialog, Nowhere}
              /\ next.held.stamp = ui.held.stamp \/ (good /\ next.held.stamp = f.got.stamp)
            BY UITyped, StampsTyped DEF UI, Replaced
        <3>2. Hears(f, good, next) /\ f.op \in {"yes", "no"}
            BY <2>2 DEF answered
        <3> HIDE DEF next
        <3> QED
            BY <1>1, <3>1, <3>2, HeardInTurn DEF Nowhere, AboutRow
    <2> QED
        BY <1>8, <2>1, <2>2 DEF useSecurityActivity
<1> QED
    BY <1>2, <1>3, <1>4, <1>5, <1>6, <1>7, <1>8 DEF ActivityNext

LEMMA SeedingKeepsList ==
    ASSUME NEW next \in UI
    PROVE  LET filled == Seeding(next) IN
           filled.claim = next.claim /\ filled.held = next.held /\ filled.dialog = next.dialog
BY DEF Seeding, UI

LEMMA ProfileInTurn == ASSUME ScreenTyped, InTurn, ProfileNext PROVE InTurn' /\ Rises
<1>1. card = "profile" /\ card \in Alone /\ card \in Ordered
    BY AloneOrdered DEF ProfileNext, OnPage, Alone
<1>2. CASE submitProfile
    <2>1. /\ ui'.held = ui.held /\ ui'.claim = ui.claim /\ ui'.loading = ui.loading
          /\ ui'.dialog = ui.dialog /\ ui'.marks = ui.marks \union {"saving"}
        BY <1>2, UITyped DEF submitProfile, UI
    <2>2. UNCHANGED <<card, server, trip>> /\ SendsWith("save", None, ui.form)
        BY <1>2 DEF submitProfile
    <2>3. "save" \in Saves /\ ~ui.loading /\ ~Occupied /\ Occupied'
        BY <1>1, <1>2, <2>1, <2>2 DEF submitProfile, UpdateButton, Saves, Occupied
    <2> QED
        BY <1>1, <2>1, <2>2, <2>3, PressedInTurn
<1>3. CASE Elsewhere(Aside(server.stamp + 1))
    BY <1>1, <1>3, ElsewhereInTurn
<1>4. ASSUME NEW f \in flight, Reads(f) PROVE InTurn' /\ Rises
    BY <1>1, <1>4, ReadInTurn
<1>5. ASSUME NEW f \in flight, Handles(f, TRUE, SetUserProfile(f)) PROVE InTurn' /\ Rises
    <2>1. SetUserProfile(f).stamp \in Nat
        BY StampsTyped DEF SetUserProfile, Aside, With
    <2>2. SetUserProfile(f).stamp >= server.stamp
        BY WithGrows DEF SetUserProfile, Aside
    <2> QED
        BY <1>1, <1>5, <2>1, <2>2, HandledInTurn
<1>6. ASSUME NEW f \in flight, NEW good \in BOOLEAN, ProfileProvider(f, good) PROVE InTurn' /\ Rises
    <2>1. CASE profileRead(f, good)
        <3> DEFINE base == [ReplacedOnly(f) EXCEPT !.loading = FALSE]
                   next == IF good THEN Seeding(base) ELSE [ui EXCEPT !.loading = FALSE, !.failed = TRUE]
        <3>1. /\ base.claim = ui.claim /\ ~base.loading /\ base \in UI /\ base.dialog = ui.dialog
              /\ base.held = f.got
            BY UITyped, RequestTyped DEF UI, ReplacedOnly, Request
        <3>2. /\ next.claim = ui.claim /\ ~next.loading /\ next.dialog = ui.dialog
              /\ next.held.stamp \in Nat
              /\ next.held.stamp = ui.held.stamp \/ (good /\ next.held.stamp = f.got.stamp)
            BY <3>1, UITyped, StampsTyped, SeedingKeeps, SeedingKeepsList DEF UI
        <3>3. Hears(f, good, next) /\ f.op = "read"
            BY <2>1 DEF profileRead
        <3> HIDE DEF next
        <3> QED
            BY <1>1, <3>2, <3>3, HeardInTurn
    <2>2. CASE profileSaved(f, good)
        <3> DEFINE base == [Replaced(f) EXCEPT !.marks = @ \ {"saving"}, !.notice = Says(f, TRUE)]
                   next == IF good THEN Seeding(base)
                           ELSE [ui EXCEPT !.marks = @ \ {"saving"}, !.notice = Says(f, FALSE)]
        <3>1. /\ base.claim = ui.claim /\ base.loading = ui.loading /\ base \in UI
              /\ base.dialog = ui.dialog /\ base.held = f.got
            BY UITyped, RequestTyped, SaysTyped DEF UI, Replaced, Request
        <3>2. /\ next.claim = ui.claim /\ next.loading = ui.loading /\ next.dialog = ui.dialog
              /\ next.held.stamp \in Nat
              /\ next.held.stamp = ui.held.stamp \/ (good /\ next.held.stamp = f.got.stamp)
            BY <3>1, UITyped, StampsTyped, SeedingKeeps, SeedingKeepsList DEF UI
        <3>3. Hears(f, good, next) /\ f.op = "save"
            BY <2>2 DEF profileSaved
        <3> HIDE DEF next
        <3> QED
            BY <1>1, <3>2, <3>3, HeardInTurn
    <2> QED
        BY <1>6, <2>1, <2>2 DEF ProfileProvider
<1> QED
    BY <1>2, <1>3, <1>4, <1>5, <1>6 DEF ProfileNext

\* The account changes while the browser is at the provider.
LEMMA AwayInTurn ==
    ASSUME trip.place # "page", trip' = trip PROVE InTurn' /\ Rises
BY StaleInTurn DEF Fresh, Rises

LEMMA TripsDiffer ==
    ASSUME ScreenTyped, NEW kind, NEW row, NEW next,
           startRedirect(kind, row) \/ CannotStart(kind, row, next)
    PROVE  trip' # trip
<1>1. trip'.made = trip.made + 1
    BY DEF startRedirect, CannotStart, ScreenTyped, ScreenTypeOK, Trip
<1>2. trip.made \in Nat
    BY TripTyped, ScreenAssumption
<1> QED
    BY <1>1, <1>2

\* What a handler other than a trip's beginning keeps.
Kept == InTurn' /\ (trip' = trip => Rises)

LEMMA SsoInTurn == ASSUME ScreenTyped, InTurn, SsoNext PROVE Kept
<1>1. CASE LinksAtProvider
    BY <1>1, AwayInTurn DEF LinksAtProvider, Kept
<1>2. CASE OnPage("sso")
    <2>1. card = "sso" /\ card \in Alone /\ card \in Ordered /\ card # "profile"
        BY <1>2, AloneOrdered DEF OnPage, Alone
    <2>2. ASSUME NEW op \in {"connect", "disconnect"}, NEW r \in Rows, setConnection(op, r) PROVE Kept
        BY <2>1, <2>2, OpensInTurn DEF setConnection, SsoList, Kept
    <2>3. CASE closeConnection
        BY <2>1, <2>3, OpensInTurn DEF closeConnection, Kept
    <2>4. CASE connecting
        <3> DEFINE next == [ui EXCEPT !.dialog = Nowhere, !.busy = None,
                                      !.notice = [good |-> FALSE, op |-> "connect", row |-> ui.dialog.row]]
        <3>1. ui.busy = None
            BY <2>4 DEF connecting, ConnectionDialog
        <3>2. /\ next.held = ui.held /\ next.claim = ui.claim /\ next.loading = ui.loading
              /\ next.busy = ui.busy /\ next.dialog = Nowhere
            BY <3>1, UITyped DEF UI
        <3>3. startRedirect("link", ui.dialog.row) \/ CannotStart("link", ui.dialog.row, next)
            BY <2>4 DEF connecting, beginAccountLink
        <3>4. trip' # trip
            BY <3>3, TripsDiffer
        <3> HIDE DEF next
        <3> QED
            BY <2>1, <3>2, <3>3, <3>4, StartInTurn, CannotStartInTurn DEF Kept
    <2>5. CASE disconnecting
        BY <2>1, <2>5, BusyInTurn DEF disconnecting, ConnectionDialog, Gated, AboutRow, RowSaves, Kept
    <2>6. ASSUME NEW after, Elsewhere(after) PROVE Kept
        BY <2>1, <2>6, ElsewhereInTurn DEF Kept
    <2>7. ASSUME NEW f \in flight, Reads(f) PROVE Kept
        BY <2>1, <2>7, ReadInTurn DEF Kept
    <2>8. ASSUME NEW f \in flight, NEW left,
                 Handles(f, SsoAllowed(f.op, f.row), SsoAfter(f.op, f.row, left))
          PROVE  Kept
        <3>1. SsoAfter(f.op, f.row, left).stamp \in Nat
            BY StampsTyped DEF SsoAfter, Put, With
        <3>2. SsoAfter(f.op, f.row, left).stamp >= server.stamp
            BY WithGrows, StampsTyped DEF SsoAfter, Put
        <3> QED
            BY <2>1, <2>8, <3>1, <3>2, HandledInTurn DEF Kept
    <2>9. ASSUME NEW f \in flight, NEW good \in BOOLEAN, useSignInMethods(f, good) PROVE Kept
        <3>1. CASE ReadArrives(f, good)
            BY <2>1, <3>1, ReadArrivesInTurn DEF Kept
        <3>2. CASE disconnected(f, good)
            <4> DEFINE next == IF good THEN [ReplacedOnly(f) EXCEPT !.busy = None, !.dialog = Nowhere,
                                                                    !.notice = Says(f, TRUE)]
                               ELSE [ui EXCEPT !.busy = None, !.notice = Says(f, FALSE)]
            <4>1. /\ next.claim = ui.claim /\ next.loading = ui.loading /\ next.held.stamp \in Nat
                  /\ next.dialog \in {ui.dialog, Nowhere}
                  /\ next.held.stamp = ui.held.stamp \/ (good /\ next.held.stamp = f.got.stamp)
                BY UITyped, StampsTyped DEF UI, ReplacedOnly
            <4>2. Hears(f, good, next) /\ f.op = "disconnect"
                BY <3>2 DEF disconnected
            <4> HIDE DEF next
            <4> QED
                BY <2>1, <4>1, <4>2, HeardInTurn DEF Nowhere, AboutRow, Kept
        <3>3. CASE confirmedLink(f, good)
            <4> DEFINE next == IF good THEN [ReplacedOnly(f) EXCEPT !.notice = Says(f, f.got.rows[f.row] = "on")]
                               ELSE [ui EXCEPT !.notice = Says(f, FALSE)]
            <4>1. /\ next.claim = ui.claim /\ next.loading = ui.loading /\ next.held.stamp \in Nat
                  /\ next.dialog = ui.dialog
                  /\ next.held.stamp = ui.held.stamp \/ (good /\ next.held.stamp = f.got.stamp)
                BY UITyped, StampsTyped DEF UI, ReplacedOnly
            <4>2. Hears(f, good, next) /\ f.op = "confirm"
                BY <3>3 DEF confirmedLink
            <4> HIDE DEF next
            <4> QED
                BY <2>1, <4>1, <4>2, HeardInTurn DEF Kept
        <3> QED
            BY <2>9, <3>1, <3>2, <3>3 DEF useSignInMethods
    <2> QED
        BY <1>2, <2>2, <2>3, <2>4, <2>5, <2>6, <2>7, <2>8, <2>9 DEF SsoNext, LinksAtProvider, OnPage
<1> QED
    BY <1>1, <1>2 DEF SsoNext

LEMMA PasskeyInTurn == ASSUME ScreenTyped, InTurn, PasskeyNext PROVE Kept
<1>1. ASSUME NEW r, RegistersAtProvider(r) PROVE Kept
    BY <1>1, AwayInTurn DEF RegistersAtProvider, Kept
<1>2. CASE OnPage("passkeys")
    <2>1. card = "passkeys" /\ card \in Alone /\ card \in Ordered /\ card # "profile"
        BY <1>2, AloneOrdered DEF OnPage, Alone
    <2>2. ASSUME NEW op, NEW r \in Rows, setPasskeyRequest(op, r) PROVE Kept
        <3>1. CASE <<op, r>> \in PasskeyList /\ Opens(op, r)
            BY <2>1, <3>1, OpensInTurn DEF PasskeyList, Kept
        <3>2. CASE op \in AddPasskey /\ Opens(op, None)
            BY <2>1, <3>2, OpensInTurn DEF AddPasskey, Gated, AboutRow, Kept
        <3> QED
            BY <2>2, <3>1, <3>2 DEF setPasskeyRequest
    <2>3. CASE closePasskey
        BY <2>1, <2>3, OpensInTurn DEF closePasskey, Kept
    <2>4. CASE addingAPasskey
        <3> DEFINE next == [ui EXCEPT !.dialog = Nowhere, !.marks = @ \ {"adding"},
                                      !.notice = [good |-> FALSE, op |-> "addKey", row |-> None]]
        <3>1. /\ next.held = ui.held /\ next.claim = ui.claim /\ next.loading = ui.loading
              /\ next.busy = ui.busy /\ next.dialog = Nowhere
            BY UITyped DEF UI
        <3>2. startRedirect("passkey", Sms) \/ CannotStart("passkey", Sms, next)
            BY <2>4 DEF addingAPasskey, beginPasskeyRegistration
        <3>3. trip' # trip
            BY <3>2, TripsDiffer
        <3> HIDE DEF next
        <3> QED
            BY <2>1, <3>1, <3>2, <3>3, StartInTurn, CannotStartInTurn DEF Kept
    <2>5. CASE removingPasskey
        BY <2>1, <2>5, BusyInTurn DEF removingPasskey, PasskeyDialog, Gated, AboutRow, RowSaves, Kept
    <2>6. CASE RemovedElsewhere
        BY <2>1, <2>6, ElsewhereInTurn DEF RemovedElsewhere, Kept
    <2>7. ASSUME NEW f \in flight, Reads(f) PROVE Kept
        BY <2>1, <2>7, ReadInTurn DEF Kept
    <2>8. ASSUME NEW f \in flight, Handles(f, PasskeyAllowed(f.op, f.row), PasskeyAfter(f.op, f.row))
          PROVE  Kept
        <3>1. PasskeyAfter(f.op, f.row).stamp \in Nat
            BY StampsTyped DEF PasskeyAfter, Put, With
        <3>2. PasskeyAfter(f.op, f.row).stamp >= server.stamp
            BY WithGrows, StampsTyped DEF PasskeyAfter, Put
        <3> QED
            BY <2>1, <2>8, <3>1, <3>2, HandledInTurn DEF Kept
    <2>9. ASSUME NEW f \in flight, NEW good \in BOOLEAN, usePasskeys(f, good) PROVE Kept
        <3>1. CASE ReadArrives(f, good)
            BY <2>1, <3>1, ReadArrivesInTurn DEF Kept
        <3>2. CASE passkeyRemoved(f, good)
            <4> DEFINE next == IF good THEN [ReplacedOnly(f) EXCEPT !.busy = None, !.dialog = Nowhere,
                                                                    !.notice = Says(f, TRUE)]
                               ELSE [ui EXCEPT !.busy = None, !.notice = Says(f, FALSE)]
            <4>1. /\ next.claim = ui.claim /\ next.loading = ui.loading /\ next.held.stamp \in Nat
                  /\ next.dialog \in {ui.dialog, Nowhere}
                  /\ next.held.stamp = ui.held.stamp \/ (good /\ next.held.stamp = f.got.stamp)
                BY UITyped, StampsTyped DEF UI, ReplacedOnly
            <4>2. Hears(f, good, next) /\ f.op = "remove"
                BY <3>2 DEF passkeyRemoved
            <4> HIDE DEF next
            <4> QED
                BY <2>1, <4>1, <4>2, HeardInTurn DEF Nowhere, AboutRow, Kept
        <3>3. CASE passkeyConfirmed(f, good)
            <4> DEFINE next == IF good THEN [ReplacedOnly(f) EXCEPT !.notice = Says(f, f.got.aside = 1)]
                               ELSE [ui EXCEPT !.notice = Says(f, FALSE)]
            <4>1. /\ next.claim = ui.claim /\ next.loading = ui.loading /\ next.held.stamp \in Nat
                  /\ next.dialog = ui.dialog
                  /\ next.held.stamp = ui.held.stamp \/ (good /\ next.held.stamp = f.got.stamp)
                BY UITyped, StampsTyped DEF UI, ReplacedOnly
            <4>2. Hears(f, good, next) /\ f.op = "confirm"
                BY <3>3 DEF passkeyConfirmed
            <4> HIDE DEF next
            <4> QED
                BY <2>1, <4>1, <4>2, HeardInTurn DEF Kept
        <3> QED
            BY <2>9, <3>1, <3>2, <3>3 DEF usePasskeys
    <2> QED
        BY <1>1, <1>2, <2>2, <2>3, <2>4, <2>5, <2>6, <2>7, <2>8, <2>9 DEF PasskeyNext
<1> QED
    BY <1>1, <1>2 DEF PasskeyNext

LEMMA FactorHeardInTurn ==
    ASSUME ScreenTyped, InTurn, card = "factors", NEW f \in flight, NEW good \in BOOLEAN,
           useTwoFactor(f, good)
    PROVE  InTurn' /\ Rises
<1>1. card \in Alone
    BY DEF Alone
<1>2. f.got.stamp \in Nat /\ ui.held.stamp \in Nat
    BY StampsTyped
<1>3. CASE ReadArrives(f, good)
    BY <1>1, <1>3, ReadArrivesInTurn
<1>4. CASE disabled(f, good)
    <2> DEFINE next == IF good THEN [RowsOf(f) EXCEPT !.busy = None, !.dialog = Nowhere,
                                                      !.notice = Says(f, TRUE)]
                       ELSE [ui EXCEPT !.busy = None, !.notice = Says(f, FALSE)]
    <2>1. /\ next.claim = ui.claim /\ next.loading = ui.loading /\ next.held.stamp \in Nat
          /\ next.dialog \in {ui.dialog, Nowhere}
          /\ next.held.stamp = ui.held.stamp \/ (good /\ next.held.stamp = f.got.stamp)
        BY <1>2, UITyped DEF UI, RowsOf, Held
    <2>2. Hears(f, good, next) /\ f.op = "disable"
        BY <1>4 DEF disabled
    <2> HIDE DEF next
    <2> QED
        BY <1>1, <2>1, <2>2, HeardInTurn DEF Nowhere, AboutRow
<1>5. CASE texted(f, good)
    <2> DEFINE next == IF good THEN [ui EXCEPT !.busy = None, !.dialog.action = "code"]
                       ELSE [ui EXCEPT !.busy = None]
    <2>1. /\ next.claim = ui.claim /\ next.loading = ui.loading
          /\ next.held.stamp = ui.held.stamp
          /\ next.dialog = ui.dialog \/ next.dialog.action = "code"
        BY UITyped DEF UI
    <2>2. Hears(f, good, next) /\ f.op = "startSms"
        BY <1>5 DEF texted
    <2> HIDE DEF next
    <2> QED
        BY <1>1, <1>2, <2>1, <2>2, HeardInTurn DEF AboutRow
<1>6. CASE smsConfirmed(f, good)
    <2> DEFINE next == IF good THEN [RowsOf(f) EXCEPT !.busy = None, !.dialog = Nowhere,
                                                      !.notice = Says(f, TRUE)]
                       ELSE [ui EXCEPT !.busy = None]
    <2>1. /\ next.claim = ui.claim /\ next.loading = ui.loading /\ next.held.stamp \in Nat
          /\ next.dialog \in {ui.dialog, Nowhere}
          /\ next.held.stamp = ui.held.stamp \/ (good /\ next.held.stamp = f.got.stamp)
        BY <1>2, UITyped DEF UI, RowsOf, Held
    <2>2. Hears(f, good, next) /\ f.op = "confirmSms"
        BY <1>6 DEF smsConfirmed
    <2> HIDE DEF next
    <2> QED
        BY <1>1, <2>1, <2>2, HeardInTurn DEF Nowhere, AboutRow
<1>7. CASE factorConfirmed(f, good)
    <2> DEFINE next == IF good THEN [RowsOf(f) EXCEPT !.notice = Says(f, f.got.rows[f.row] = "on")]
                       ELSE [ui EXCEPT !.notice = Says(f, FALSE)]
    <2>1. /\ next.claim = ui.claim /\ next.loading = ui.loading /\ next.held.stamp \in Nat
          /\ next.dialog = ui.dialog
          /\ next.held.stamp = ui.held.stamp \/ (good /\ next.held.stamp = f.got.stamp)
        BY <1>2, UITyped DEF UI, RowsOf, Held
    <2>2. Hears(f, good, next) /\ f.op = "confirm"
        BY <1>7 DEF factorConfirmed
    <2> HIDE DEF next
    <2> QED
        BY <1>1, <2>1, <2>2, HeardInTurn
<1>8. CASE codesMade(f, good)
    <2> DEFINE next == IF good THEN [ui EXCEPT !.held.aside = f.got.aside, !.codes = f.got.aside,
                                               !.marks = @ \ {"making"}]
                       ELSE [ui EXCEPT !.marks = @ \ {"making"}, !.notice = Says(f, FALSE)]
    <2>1. /\ next.claim = ui.claim /\ next.loading = ui.loading /\ next.busy = ui.busy
          /\ next.dialog = ui.dialog /\ next.marks = ui.marks \ {"making"}
          /\ next.held.stamp = ui.held.stamp
        BY UITyped DEF UI, Held
    <2>2. Hears(f, good, next) /\ f.op = "generate"
        BY <1>8 DEF codesMade
    <2> HIDE DEF next
    <2> QED
        BY <1>1, <2>1, <2>2, HeardInTurn
<1> QED
    BY <1>3, <1>4, <1>5, <1>6, <1>7, <1>8 DEF useTwoFactor

LEMMA FactorInTurn == ASSUME ScreenTyped, InTurn, FactorNext PROVE Kept
<1>1. CASE SetsUpAtProvider
    BY <1>1, AwayInTurn DEF SetsUpAtProvider, Kept
<1>2. CASE OnPage("factors")
    <2>1. card = "factors" /\ card \in Alone /\ card \in Ordered /\ card # "profile" /\ Sms \in Rows
        BY <1>2, AloneOrdered, ScreenAssumption DEF OnPage, Alone
    <2>2. ASSUME NEW op \in {"enable", "disable"}, NEW r \in Rows,
                 setFactorRequest(op, r) \/ startAddingPhone
          PROVE  Kept
        BY <2>1, <2>2, OpensInTurn DEF setFactorRequest, startAddingPhone, TwoFactorList, AboutRow, Kept
    <2>3. CASE closeFactor
        BY <2>1, <2>3, OpensInTurn DEF closeFactor, Kept
    <2>4. CASE backToNumber
        <3> DEFINE next == [ui EXCEPT !.dialog.action = "number"]
        <3>1. /\ next.held = ui.held /\ next.claim = ui.claim /\ next.loading = ui.loading
              /\ next.busy = ui.busy /\ next.dialog.action = "number"
            BY UITyped DEF UI
        <3>2. ui' = next /\ UNCHANGED <<card, server, trip, flight>> /\ ui.dialog.action \in Gated
            BY <2>4 DEF backToNumber, SmsDialog, Shows, Gated
        <3> HIDE DEF next
        <3>3. Occupied' = Occupied /\ ui'.dialog.action \notin AboutRow
            BY <2>1, <3>1, <3>2 DEF Occupied, AboutRow
        <3> QED
            BY <2>1, <3>1, <3>2, <3>3, ShownInTurn, StampsTyped DEF Kept
    <2>5. CASE enabling
        <3> DEFINE next == [ui EXCEPT !.dialog = Nowhere, !.busy = None,
                                      !.notice = [good |-> FALSE, op |-> "enable", row |-> ui.dialog.row]]
        <3>1. ui.busy = None
            BY <2>5 DEF enabling, TwoFactorDialog
        <3>2. /\ next.held = ui.held /\ next.claim = ui.claim /\ next.loading = ui.loading
              /\ next.busy = ui.busy /\ next.dialog = Nowhere
            BY <3>1, UITyped DEF UI
        <3>3. startRedirect("factor", ui.dialog.row) \/ CannotStart("factor", ui.dialog.row, next)
            BY <2>5 DEF enabling, beginSecondFactorSetup
        <3>4. trip' # trip
            BY <3>3, TripsDiffer
        <3> HIDE DEF next
        <3> QED
            BY <2>1, <3>2, <3>3, <3>4, StartInTurn, CannotStartInTurn DEF Kept
    <2>6. CASE disabling
        BY <2>1, <2>6, BusyInTurn DEF disabling, TwoFactorDialog, Gated, AboutRow, RowSaves, Kept
    <2>7. CASE textingCode \/ confirmingCode
        BY <2>1, <2>7, BusyInTurn DEF textingCode, confirmingCode, SmsDialog, Gated, RowSaves, Kept
    <2>8. CASE makingRecoveryCodes
        <3>1. /\ ui'.held = ui.held /\ ui'.claim = ui.claim /\ ui'.loading = ui.loading
              /\ ui'.dialog = ui.dialog /\ ui'.busy = ui.busy
            BY <2>8, UITyped DEF makingRecoveryCodes, Presses, UI
        <3>2. SendsWith("generate", None, 0) /\ UNCHANGED <<card, server, trip>>
            BY <2>8 DEF makingRecoveryCodes, Presses
        <3>3. Occupied' = Occupied
            BY <2>1, <3>1, <3>2 DEF Occupied
        <3> QED
            BY <2>1, <3>1, <3>2, <3>3, PressedInTurn DEF Kept
    <2>9. CASE closeCodes
        <3>1. /\ ui'.held = ui.held /\ ui'.claim = ui.claim /\ ui'.loading = ui.loading
              /\ ui'.dialog = ui.dialog /\ ui'.busy = ui.busy
            BY <2>9, UITyped DEF closeCodes, Shows, UI
        <3>2. UNCHANGED <<card, server, trip, flight>>
            BY <2>9 DEF closeCodes, Shows
        <3>3. Occupied' = Occupied
            BY <2>1, <3>1, <3>2 DEF Occupied
        <3> QED
            BY <2>1, <3>1, <3>2, <3>3, ShownInTurn, StampsTyped DEF Kept
    <2>10. CASE RecoversElsewhere \/ MakesElsewhere
        BY <2>1, <2>10, ElsewhereInTurn DEF RecoversElsewhere, MakesElsewhere, Kept
    <2>11. ASSUME NEW f \in flight, Reads(f) PROVE Kept
        BY <2>1, <2>11, ReadInTurn DEF Kept
    <2>12. ASSUME NEW f \in flight, NEW right \in BOOLEAN, NEW left,
                  Handles(f, FactorAllowed(f.op, f.row, right), FactorAfter(f.op, f.row, left))
           PROVE  Kept
        BY <2>1, <2>12, FactorAfterGrows, HandledInTurn DEF Kept
    <2>13. ASSUME NEW f \in flight, NEW good \in BOOLEAN, useTwoFactor(f, good) PROVE Kept
        BY <2>1, <2>13, FactorHeardInTurn DEF Kept
    <2> QED
        BY <1>1, <1>2, <2>1, <2>2, <2>3, <2>4, <2>5, <2>6, <2>7, <2>8, <2>9, <2>10, <2>11, <2>12, <2>13
           DEF FactorNext
<1> QED
    BY <1>1, <1>2 DEF FactorNext

\* The notifications: one reading at a time, and a later one cancels it.
LEMMA NotedInTurn ==
    ASSUME ScreenTyped, InTurn, card = "notifications", UNCHANGED <<card, trip>>,
           ui'.claim = ui.claim,
           server'.stamp \in Nat, server'.stamp >= server.stamp, ui'.held.stamp = ui.held.stamp,
           \/ \A g \in flight' : Replaces(g) => g \in flight
           \/ \E n : /\ n.at = "sent"
                     /\ \A g \in flight' : Replaces(g) => g = n
    PROVE  InTurn' /\ Rises
<1>1. Fresh' = Fresh /\ card \in Ordered /\ card \notin Alone
    BY DEF Fresh, Ordered, Alone
<1>2. CASE ~Fresh
    BY <1>1, <1>2, StaleInTurn DEF Rises
<1>3. CASE Fresh
    <2>1. /\ \A g, h \in flight : Replaces(g) /\ Replaces(h) => g = h
          /\ ui.held.stamp <= server.stamp
          /\ \A g \in flight : Replaces(g) /\ g.at = "answered" =>
                g.got.stamp \in ui.held.stamp .. server.stamp
        BY <1>1, <1>3 DEF InTurn, TurnInv, StampInv
    <2>2. \A g, h \in flight' : Replaces(g) /\ Replaces(h) => g = h
        BY <2>1
    <2>3. ui'.held.stamp <= server'.stamp
        BY <2>1, StampsTyped
    <2>4. ASSUME NEW g \in flight', Replaces(g), g.at = "answered"
          PROVE  g.got.stamp \in ui'.held.stamp .. server'.stamp
        <3>1. g \in flight
            BY <2>4
        <3> QED
            BY <2>1, <2>4, <3>1, StampsTyped
    <2>5. TurnInv'
        BY <1>1, <2>2 DEF TurnInv, Replaces
    <2>6. StampInv'
        BY <1>1, <2>3, <2>4 DEF StampInv, Replaces
    <2> QED
        BY <2>5, <2>6, StampsTyped DEF InTurn, Rises
<1> QED
    BY <1>2, <1>3

\* The list and the counts are computed when they are asked for.
LEMMA CountedInTurn ==
    ASSUME ScreenTyped, InTurn, card = "notifications", NEW f \in flight,
           Becomes(f, [f EXCEPT !.at = "answered", !.got = Counted]),
           UNCHANGED <<card, server, ui, trip>>
    PROVE  InTurn' /\ Rises
<1> DEFINE k == [f EXCEPT !.at = "answered", !.got = Counted]
<1>1. k.op = f.op /\ k.waits = f.waits /\ k.got = Counted
    BY RequestTyped DEF Request
<1>2. Counted.stamp = server.stamp
    BY DEF Counted, ScreenTyped, ScreenTypeOK, Held
<1>3. flight' = (flight \ {f}) \union (IF k.waits THEN {k} ELSE {})
    BY DEF Becomes
<1> HIDE DEF k
<1>4. Fresh' = Fresh /\ card \in Ordered /\ card \notin Alone
    BY DEF Fresh, Ordered, Alone
<1>5. CASE ~Fresh
    BY <1>4, <1>5, StaleInTurn DEF Rises
<1>6. CASE Fresh
    <2>1. /\ \A g, h \in flight : Replaces(g) /\ Replaces(h) => g = h
          /\ ui.held.stamp <= server.stamp
          /\ \A g \in flight : Replaces(g) /\ g.at = "answered" =>
                g.got.stamp \in ui.held.stamp .. server.stamp
        BY <1>4, <1>6 DEF InTurn, TurnInv, StampInv
    <2>2. ASSUME NEW g \in flight', NEW h \in flight', Replaces(g), Replaces(h) PROVE g = h
        BY <1>1, <1>3, <2>1, <2>2 DEF Replaces
    <2>3. ASSUME NEW g \in flight', Replaces(g), g.at = "answered"
          PROVE  g.got.stamp \in ui.held.stamp .. server.stamp
        <3>1. CASE g \in flight
            BY <2>1, <2>3, <3>1
        <3>2. CASE g = k
            BY <1>1, <1>2, <2>1, <3>2, StampsTyped
        <3> QED
            BY <1>3, <3>1, <3>2
    <2>4. TurnInv'
        BY <1>4, <2>2 DEF TurnInv, Replaces
    <2>5. StampInv'
        BY <1>4, <2>1, <2>3 DEF StampInv, Replaces
    <2> QED
        BY <2>4, <2>5, StampsTyped DEF InTurn, Rises
<1> QED
    BY <1>5, <1>6

\* The one reading that was waited for is heard.
LEMMA ListedInTurn ==
    ASSUME ScreenTyped, InTurn, card = "notifications", NEW f \in flight, NEW good \in BOOLEAN,
           listed(f, good)
    PROVE  InTurn' /\ Rises
<1> DEFINE next == IF good THEN [ui EXCEPT !.held.rows = f.got.rows, !.held.stamp = f.got.stamp,
                                           !.loading = FALSE, !.failed = FALSE]
                   ELSE [ui EXCEPT !.loading = FALSE, !.failed = ui.loading \/ ui.failed]
<1>1. /\ next.claim = ui.claim
      /\ next.held.stamp = ui.held.stamp \/ (good /\ next.held.stamp = f.got.stamp)
    BY UITyped DEF UI, Held
<1>2. Hears(f, good, next) /\ f.op = "read"
    BY DEF listed
<1> HIDE DEF next
<1>3. /\ f.waits /\ ui' = next /\ UNCHANGED <<card, server, trip>>
      /\ \A g \in flight' : g \in flight \ {f} \/ ~g.waits
    BY <1>2, HeardOne
<1>4. good => f.at = "answered"
    BY <1>2 DEF Hears, Answers
<1>5. Fresh' = Fresh /\ card \in Ordered /\ card \notin Alone
    BY <1>1, <1>3 DEF Fresh, Ordered, Alone
<1>6. CASE ~Fresh
    BY <1>5, <1>6, StaleInTurn DEF Rises
<1>7. CASE Fresh
    <2>1. /\ \A g, h \in flight : Replaces(g) /\ Replaces(h) => g = h
          /\ ui.held.stamp <= server.stamp
          /\ \A g \in flight : Replaces(g) /\ g.at = "answered" =>
                g.got.stamp \in ui.held.stamp .. server.stamp
        BY <1>5, <1>7 DEF InTurn, TurnInv, StampInv
    <2>2. Replaces(f)
        BY <1>2, <1>3 DEF Replaces
    <2>3. \A g \in flight' : ~Replaces(g)
        BY <1>3, <2>1, <2>2 DEF Replaces
    <2>4. ui'.held.stamp \in ui.held.stamp .. server'.stamp
        BY <1>1, <1>3, <1>4, <2>1, <2>2, StampsTyped
    <2>5. TurnInv'
        BY <1>3, <1>5, <2>3 DEF TurnInv
    <2>6. StampInv'
        <3>1. ui'.held.stamp <= server'.stamp
            BY <1>3, <2>4, StampsTyped
        <3> QED
            BY <2>3, <3>1 DEF StampInv
    <2>7. Rises
        BY <2>4, StampsTyped DEF Rises
    <2> QED
        BY <2>5, <2>6, <2>7 DEF InTurn
<1> QED
    BY <1>6, <1>7

\* What is read again is the only reading that is waited for.
LEMMA InvalidatedInTurn ==
    ASSUME ScreenTyped, card = "notifications", NEW f \in flight, NEW next, invalidateQueries(f, next)
    PROVE  \/ \A g \in flight' : Replaces(g) => g \in flight
           \/ \E n : n.at = "sent" /\ \A g \in flight' : Replaces(g) => g = n
<1> DEFINE again(op) == Asks(Ids(Refetched)[op], op, None, 0)
<1>1. /\ flight' = ({IF g.op \in Refetched THEN [g EXCEPT !.waits = FALSE] ELSE g :
                      g \in {h \in flight \ {f} : h.op \notin Refetched \/ h.at = "sent"}})
                   \union {again(op) : op \in Refetched}
    BY DEF invalidateQueries
<1>2. Refetched \subseteq {"read", "count"}
    BY RefetchedTyped
<1>3. \A op \in Refetched : again(op).op = op /\ again(op).at = "sent"
    BY DEF Asks
<1> HIDE DEF again
<1>4. \A g \in flight : ~[g EXCEPT !.waits = FALSE].waits
    BY RequestTyped DEF Request
<1>5. \A g \in flight : g.op \in {"read", "count", "markRead", "markAll"}
    BY DEF ScreenTyped, AtHome, HomeCards, OpsAt
<1>6. CASE "read" \in Refetched
    <2>1. ASSUME NEW g \in flight', Replaces(g) PROVE g = again("read")
        <3>1. CASE \E op \in Refetched : g = again(op)
            BY <1>2, <1>3, <2>1, <3>1 DEF Replaces
        <3>2. CASE g \in flight /\ g.op \notin Refetched
            BY <1>5, <1>6, <2>1, <3>2 DEF Replaces
        <3> QED
            BY <1>1, <1>4, <2>1, <3>1, <3>2 DEF Replaces
    <2> QED
        BY <1>3, <1>6, <2>1
<1>7. CASE "read" \notin Refetched
    <2>1. ASSUME NEW g \in flight', Replaces(g) PROVE g \in flight
        <3>1. CASE \E op \in Refetched : g = again(op)
            BY <1>2, <1>3, <1>7, <2>1, <3>1 DEF Replaces
        <3> QED
            BY <1>1, <1>4, <2>1, <3>1 DEF Replaces
    <2> QED
        BY <2>1
<1> QED
    BY <1>6, <1>7

LEMMA NotificationsInTurn == ASSUME ScreenTyped, InTurn, NotificationsNext PROVE InTurn' /\ Rises
<1>1. /\ card = "notifications" /\ UNCHANGED <<card, trip>> /\ card \in Ordered
      /\ server.stamp \in Nat /\ server.stamp >= server.stamp
    BY NotificationsStay, StampsTyped DEF NotificationsNext, OnPage, Stays, Ordered
<1>2. ASSUME NEW op \in {"markRead", "markAll"}, NEW row, NEW mark,
             Presses(op, row, [ui EXCEPT !.marks = @ \union {mark}])
      PROVE  InTurn' /\ Rises
    <2> DEFINE new == Asks(sent + 1, op, row, 0)
    <2>1. ~Replaces(new)
        BY DEF Asks, Replaces
    <2>2. flight' = flight \union {new} /\ UNCHANGED server
        BY <1>2 DEF Presses, SendsWith
    <2> HIDE DEF new
    <2>3. ui'.claim = ui.claim /\ ui'.held.stamp = ui.held.stamp
        BY <1>2, UITyped DEF Presses, UI
    <2>4. \A g \in flight' : Replaces(g) => g \in flight
        BY <2>1, <2>2
    <2> QED
        BY <1>1, <2>2, <2>3, <2>4, NotedInTurn
<1>3. ASSUME NEW r \in Rows, Notified(r) PROVE InTurn' /\ Rises
    <2>1. /\ UNCHANGED <<ui, flight>> /\ server'.stamp \in Nat /\ server'.stamp >= server.stamp
        BY <1>3, StampsTyped DEF Notified, Elsewhere
    <2> QED
        BY <1>1, <2>1, NotedInTurn
<1>4. ASSUME NEW f \in flight, AtTheApi(f) PROVE InTurn' /\ Rises
    <2>1. \A rows, aside : With(rows, aside).stamp \in Nat /\ With(rows, aside).stamp >= server.stamp
        BY StampsTyped, WithGrows DEF With
    <2>2. CASE Handles(f, NotifyAllowed(f), MarkNotificationRead(f.row))
        <3>1. /\ MarkNotificationRead(f.row).stamp \in Nat
              /\ MarkNotificationRead(f.row).stamp >= server.stamp
            BY <2>1 DEF MarkNotificationRead, Put
        <3> QED
            BY <1>1, <2>2, <3>1, HandledInTurn
    <2>3. CASE Handles(f, TRUE, MarkAllNotificationsRead)
        <3>1. MarkAllNotificationsRead.stamp \in Nat /\ MarkAllNotificationsRead.stamp >= server.stamp
            BY <2>1 DEF MarkAllNotificationsRead
        <3> QED
            BY <1>1, <2>3, <3>1, HandledInTurn
    <2>4. CASE /\ Becomes(f, [f EXCEPT !.at = "answered", !.got = Counted])
               /\ UNCHANGED <<card, server, ui, trip, sent, disturbed>>
        BY <1>1, <2>4, CountedInTurn
    <2> QED
        BY <1>4, <2>2, <2>3, <2>4 DEF AtTheApi
<1>5. ASSUME NEW f \in flight, NEW good \in BOOLEAN, counted(f, good) PROVE InTurn' /\ Rises
    <2> DEFINE next == IF good THEN [ui EXCEPT !.held.aside = f.got.aside,
                                               !.marks = @ \union {"counted"}]
                       ELSE ui
    <2>1. next.claim = ui.claim /\ next.held.stamp = ui.held.stamp
        BY UITyped DEF UI, Held
    <2>2. Hears(f, good, next)
        BY <1>5 DEF counted
    <2> HIDE DEF next
    <2>3. ui' = next /\ UNCHANGED server /\ \A g \in flight' : g \in flight \ {f} \/ ~g.waits
        BY <2>2, HeardOne
    <2>4. \A g \in flight' : Replaces(g) => g \in flight
        BY <2>3 DEF Replaces
    <2> QED
        BY <1>1, <2>1, <2>3, <2>4, NotedInTurn
<1>6. ASSUME NEW f \in flight, NEW good \in BOOLEAN, marked(f, good) PROVE InTurn' /\ Rises
    <2> DEFINE next == [ui EXCEPT !.marks = @ \ (IF Latest(f) THEN MarkOf(f) ELSE {})]
    <2>1. next.claim = ui.claim /\ next.held.stamp = ui.held.stamp
        BY UITyped DEF UI, Held
    <2>2. invalidateQueries(f, next) \/ Hears(f, FALSE, next)
        BY <1>6 DEF marked
    <2> HIDE DEF next
    <2>3. CASE invalidateQueries(f, next)
        <3>1. ui' = next /\ UNCHANGED server
            BY <2>3 DEF invalidateQueries
        <3> QED
            BY <1>1, <2>1, <2>3, <3>1, InvalidatedInTurn, NotedInTurn
    <2>4. CASE Hears(f, FALSE, next)
        <3>1. ui' = next /\ UNCHANGED server /\ \A g \in flight' : g \in flight \ {f} \/ ~g.waits
            BY <2>4, HeardOne
        <3>2. \A g \in flight' : Replaces(g) => g \in flight
            BY <3>1 DEF Replaces
        <3> QED
            BY <1>1, <2>1, <3>1, <3>2, NotedInTurn
    <2> QED
        BY <2>2, <2>3, <2>4
<1>7. CASE useMarkAllNotificationsRead
    BY <1>2, <1>7 DEF useMarkAllNotificationsRead
<1>8. ASSUME NEW r \in Rows, useMarkNotificationRead(r) PROVE InTurn' /\ Rises
    BY <1>2, <1>8 DEF useMarkNotificationRead
<1> QED
    BY <1>1, <1>3, <1>4, <1>5, <1>6, <1>7, <1>8, ListedInTurn DEF NotificationsNext, useNotifications

LEMMA QuietAlways == ScreenTyped /\ QuietInv /\ [Next]_screen => QuietInv'
<1> SUFFICES ASSUME ScreenTyped, QuietInv, [Next]_screen PROVE QuietInv'
    OBVIOUS
<1>1. CASE UNCHANGED <<trip, flight>>
    BY <1>1 DEF QuietInv
<1>2. ASSUME trip' = trip, trip.place \in {"page", "dashboard"} PROVE QuietInv'
    BY <1>2 DEF QuietInv
<1>3. ASSUME NEW kind, NEW row, startRedirect(kind, row) PROVE QuietInv'
    <2>1. \A f \in flight : ~[f EXCEPT !.waits = FALSE].waits
        BY RequestTyped DEF Request
    <2> QED
        BY <1>3, <2>1 DEF startRedirect, Deserted, QuietInv
<1>4. ASSUME NEW kind, NEW row, NEW next, CannotStart(kind, row, next), trip.place = "page"
      PROVE  QuietInv'
    <2>1. trip'.place = "page"
        BY <1>4 DEF CannotStart, ScreenTyped, ScreenTypeOK, Trip
    <2> QED
        BY <2>1 DEF QuietInv
<1>5. CASE SsoNext
    <2>1. CASE OnPage("sso") /\ connecting
        BY <1>3, <1>4, <2>1 DEF OnPage, connecting, beginAccountLink
    <2>2. LinksAtProvider \/ OnPage("sso")
        BY <1>5 DEF SsoNext
    <2> QED
        BY <1>1, <1>2, <1>5, <2>1, <2>2, SsoStays DEF OnPage, LinksAtProvider
<1>6. CASE PasskeyNext
    <2>1. CASE OnPage("passkeys") /\ addingAPasskey
        BY <1>3, <1>4, <2>1 DEF OnPage, addingAPasskey, beginPasskeyRegistration
    <2>2. (\E r \in Rows : RegistersAtProvider(r)) \/ OnPage("passkeys")
        BY <1>6 DEF PasskeyNext
    <2> QED
        BY <1>1, <1>2, <1>6, <2>1, <2>2, PasskeyStays DEF OnPage, RegistersAtProvider
<1>7. CASE FactorNext
    <2>1. CASE OnPage("factors") /\ enabling
        BY <1>3, <1>4, <2>1 DEF OnPage, enabling, beginSecondFactorSetup
    <2>2. SetsUpAtProvider \/ OnPage("factors")
        BY <1>7 DEF FactorNext
    <2> QED
        BY <1>1, <1>2, <1>7, <2>1, <2>2, FactorStays DEF OnPage, SetsUpAtProvider
<1>8. CASE EntranceNext
    <2>1. CASE trip.place = "page" /\ leaveFor
        BY <1>3, <1>4, <2>1 DEF leaveFor
    <2>2. ASSUME NEW f, enters(f) PROVE QuietInv'
        <3>1. trip'.place = "dashboard"
            BY <2>2 DEF enters, ScreenTyped, ScreenTypeOK, Trip
        <3> QED
            BY <3>1 DEF QuietInv
    <2>3. trip.place \in {"page", "dashboard"}
        BY <1>8 DEF EntranceNext
    <2> QED
        BY <1>2, <1>8, <2>1, <2>2, <2>3, EntranceStays
<1>9. CASE EmailNext \/ WalletCardNext \/ ActivityNext \/ PasswordNext \/ ProfileNext \/ NotificationsNext
    <2>1. trip' = trip
        BY <1>9, EmailStays, WalletStays, ActivityStays, PasswordStays, ProfileStays,
           NotificationsStay DEF Stays
    <2>2. trip.place = "page"
        BY <1>9 DEF EmailNext, WalletCardNext, ActivityNext, PasswordNext, ProfileNext,
                    NotificationsNext, OnPage
    <2> QED
        BY <1>2, <2>1, <2>2
<1>10. CASE RedirectsNext
    <2>1. CASE DrawsClaimed \/ GoesBackToLogin \/ TurnsBack
        <3>1. trip'.place = "page"
            BY <2>1 DEF DrawsClaimed, Draws, GoesBackToLogin, TurnsBack, ScreenTyped, ScreenTypeOK, Trip
        <3> QED
            BY <3>1 DEF QuietInv
    <2>2. ASSUME flight' = flight, trip.place \in {"provider", "callback", "linking"} PROVE QuietInv'
        BY <2>2 DEF QuietInv
    <2> QED
        BY <1>10, <2>1, <2>2 DEF RedirectsNext, ComesBack, AuthCallback, linkReturnUri, Goes
<1> QED
    BY <1>1, <1>5, <1>6, <1>7, <1>8, <1>9, <1>10 DEF Next, screen

\* A page that is drawn asks for its list, and nobody else waits.
LEMMA DrawnInTurn ==
    ASSUME ScreenTyped, \A f \in flight : ~f.waits, NEW claim, ui' = Drawn(claim), UNCHANGED server,
           \E n : n.at = "sent" /\ n.op = "read" /\
              (claim = None => flight' = flight \union {n})
    PROVE  InTurn'
<1>1. /\ ui'.claim = claim /\ ui'.loading /\ ui'.held.stamp = 0 /\ ui'.dialog.action = "none"
    BY DEF Drawn, Blank, Nowhere
<1>2. CASE claim # None
    BY <1>1, <1>2, StaleInTurn DEF Fresh
<1>3. CASE claim = None
    <2>1. PICK n : n.at = "sent" /\ n.op = "read" /\ flight' = flight \union {n}
        BY <1>3
    <2>2. \A f \in flight' : f.waits => f = n
        BY <2>1
    <2>3. "none" \notin Gated /\ "none" \notin AboutRow
        BY DEF Gated, AboutRow
    <2>4. TurnInv'
        BY <1>1, <2>1, <2>2, <2>3 DEF TurnInv, Replaces
    <2>5. StampInv'
        BY <1>1, <2>1, <2>2, StampsTyped DEF StampInv, Replaces
    <2> QED
        BY <2>4, <2>5 DEF InTurn
<1> QED
    BY <1>2, <1>3

LEMMA RedirectsInTurn ==
    ASSUME ScreenTyped, InTurn, QuietInv, RedirectsNext
    PROVE  InTurn' /\ (card' = card => Rises)
<1>1. ASSUME trip'.place # "page", trip.place # "page" PROVE InTurn' /\ Rises
    BY <1>1, StaleInTurn DEF Fresh, Rises
<1>2. ASSUME NEW b \in BOOLEAN, ComesBack(b) PROVE InTurn' /\ Rises
    <2>1. trip'.place \in {"callback", "home"} /\ trip.place = "provider"
        BY <1>2 DEF ComesBack, Goes, ScreenTyped, ScreenTypeOK, Trip
    <2> QED
        BY <1>1, <2>1
<1>3. ASSUME NEW m \in BOOLEAN, NEW g \in BOOLEAN, NEW l \in BOOLEAN, AuthCallback(m, g, l)
      PROVE  InTurn' /\ Rises
    <2>1. trip'.place \in {"linking", "security", "dashboard", "failed"} /\ trip.place = "callback"
        BY <1>3 DEF AuthCallback, resumeAccountLink, Configured, Registered, SecurityPage, Dashboard,
                    ScreenTyped, ScreenTypeOK, Trip
    <2> QED
        BY <1>1, <2>1
<1>4. CASE linkReturnUri
    <2>1. trip'.place = "security" /\ trip.place = "linking"
        BY <1>4 DEF linkReturnUri, Goes, ScreenTyped, ScreenTypeOK, Trip
    <2> QED
        BY <1>1, <2>1
<1>5. CASE DrawsClaimed \/ TurnsBack
    <2> DEFINE n == Asks(sent + 1, "read", None, 0)
    <2>1. n.at = "sent" /\ n.op = "read"
        BY DEF Asks
    <2>2. trip.place \in {"security", "provider", "linking"} /\ UNCHANGED server
        BY <1>5 DEF DrawsClaimed, Draws, TurnsBack
    <2>3. \E claim : ui' = Drawn(claim) /\ (claim = None => flight' = flight \union {n})
        BY <1>5 DEF DrawsClaimed, Draws, TurnsBack, Confirms
    <2>4. \A f \in flight : ~f.waits
        BY <2>2 DEF QuietInv
    <2> HIDE DEF n
    <2> QED
        BY <2>1, <2>2, <2>3, <2>4, DrawnInTurn DEF Rises, Fresh
<1>6. CASE GoesBackToLogin
    <2>1. card' = "entrance" /\ "entrance" \notin Ordered /\ "entrance" \notin Alone
        BY <1>6 DEF GoesBackToLogin, Ordered, Alone
    <2> QED
        BY <2>1 DEF InTurn, TurnInv, StampInv, Rises
<1>7. \A c, s \in BOOLEAN : accountLinkUrl(c, s) \in BOOLEAN
    BY DEF accountLinkUrl
<1> QED
    BY <1>2, <1>3, <1>4, <1>5, <1>6, <1>7 DEF RedirectsNext

LEMMA StepInTurn ==
    ASSUME ScreenTyped, InTurn, QuietInv, [Next]_screen
    PROVE  InTurn' /\ ((card' = card /\ trip' = trip) => Rises)
<1>1. CASE UNCHANGED screen
    BY <1>1, StampsTyped
       DEF screen, InTurn, TurnInv, StampInv, Rises, Fresh, Saves, Occupied, Replaces
<1>2. CASE EmailNext \/ WalletCardNext \/ PasswordNext \/ EntranceNext
    <2>1. card' = card
        BY <1>2, EmailStays, WalletStays, PasswordStays, EntranceStays DEF Stays
    <2>2. card \notin Ordered /\ card \notin Alone
        BY <1>2 DEF EmailNext, WalletCardNext, PasswordNext, EntranceNext, OnPage, Ordered, Alone
    <2> QED
        BY <2>1, <2>2 DEF InTurn, TurnInv, StampInv, Rises
<1>3. CASE SsoNext \/ PasskeyNext \/ FactorNext
    BY <1>3, SsoInTurn, PasskeyInTurn, FactorInTurn DEF Kept
<1>4. CASE ActivityNext \/ ProfileNext \/ NotificationsNext
    BY <1>4, ActivityInTurn, ProfileInTurn, NotificationsInTurn
<1>5. CASE RedirectsNext
    BY <1>5, RedirectsInTurn
<1> QED
    BY <1>1, <1>2, <1>3, <1>4, <1>5 DEF Next

LEMMA AlwaysInTurn == Spec => [](InTurn /\ QuietInv)
<1>1. Init => InTurn /\ QuietInv
    <2> SUFFICES ASSUME Init PROVE InTurn /\ QuietInv
        OBVIOUS
    <2>1. PICK c \in Cards :
            /\ card = c /\ ui = [Drawn(None) EXCEPT !.loading = c # "entrance"]
            /\ flight = Opening(c) /\ server.stamp = 0 /\ trip.place = "page"
        BY DEF Init
    <2>2. /\ ui.held.stamp = 0 /\ ui.dialog.action \notin Gated /\ ui.dialog.action \notin AboutRow
          /\ (c # "entrance" => ui.loading)
        BY <2>1 DEF Drawn, Blank, Nowhere, Gated, AboutRow
    <2>3. \A f \in flight : f.at = "sent" /\ f.op \in {"read", "count"}
        BY <2>1 DEF Opening, Asks
    <2>4. c \in Alone => \A f \in flight : f.op = "read"
        BY <2>1 DEF Opening, Asks, Alone
    <2>5. \A f, g \in flight : f.op = "read" /\ g.op = "read" => f = g
        <3>1. Asks(2, "count", None, 0).op = "count"
            BY DEF Asks
        <3>2. flight \subseteq {Asks(1, "read", None, 0), Asks(2, "count", None, 0)}
            BY <2>1 DEF Opening
        <3> QED
            BY <3>1, <3>2
    <2>6. "entrance" \notin Alone
        BY DEF Alone
    <2>7. TurnInv
        BY <2>1, <2>2, <2>3, <2>4, <2>5, <2>6 DEF TurnInv, Replaces
    <2>8. StampInv
        BY <2>1, <2>2, <2>3 DEF StampInv, Replaces
    <2> QED
        BY <2>1, <2>7, <2>8 DEF InTurn, QuietInv
<1>2. ScreenTyped /\ InTurn /\ QuietInv /\ [Next]_screen => (InTurn /\ QuietInv)'
    BY StepInTurn, QuietAlways
<1> QED
    BY <1>1, <1>2, AlwaysTyped, PTL DEF Spec

\* Off the page nothing is drawn.
LEMMA AwayUnchanged ==
    ASSUME ScreenTyped, [Next]_screen, trip.place # "page", trip' = trip, card' = card,
           card \in Ordered
    PROVE  ui' = ui
<1>1. ~OnPage(card) /\ \A c : ~OnPage(c)
    BY DEF OnPage
<1>2. card # "entrance"
    BY DEF Ordered
<1>3. CASE RedirectsNext
    <2>1. ~DrawsClaimed /\ ~TurnsBack
        BY DEF DrawsClaimed, Draws, TurnsBack, ScreenTyped, ScreenTypeOK, Trip
    <2>2. ~GoesBackToLogin
        BY <1>2 DEF GoesBackToLogin
    <2> QED
        BY <1>3, <2>1, <2>2 DEF RedirectsNext, ComesBack, AuthCallback, linkReturnUri, Goes
<1>4. CASE SsoNext \/ PasskeyNext \/ FactorNext
    BY <1>1, <1>4 DEF SsoNext, PasskeyNext, FactorNext, LinksAtProvider, RegistersAtProvider,
                      SetsUpAtProvider
<1>5. ~EmailNext /\ ~WalletCardNext /\ ~ActivityNext /\ ~PasswordNext /\ ~ProfileNext
      /\ ~NotificationsNext
    BY <1>1 DEF EmailNext, WalletCardNext, ActivityNext, PasswordNext, ProfileNext, NotificationsNext
<1>6. ~EntranceNext
    BY <1>2 DEF EntranceNext
<1> QED
    BY <1>3, <1>4, <1>5, <1>6 DEF Next, screen

\* On the cards where nothing that would race can be asked for, an answer that
\* was computed earlier never replaces a later one, whatever order answers
\* arrive in and whatever trips went before.
THEOREM AnswersNeverGoBack == Spec => NeverGoesBack
<1> DEFINE Up == (card \in Ordered /\ card' = card /\ trip' = trip /\ ui.claim = None)
                    => ui'.held.stamp >= ui.held.stamp
<1>1. ScreenTyped /\ InTurn /\ QuietInv /\ [Next]_screen => [Up]_screen
    <2> SUFFICES ASSUME ScreenTyped, InTurn, QuietInv, [Next]_screen,
                        card \in Ordered, card' = card, trip' = trip, ui.claim = None
                 PROVE  ui'.held.stamp >= ui.held.stamp
        OBVIOUS
    <2>1. CASE trip.place = "page"
        BY <2>1, StepInTurn DEF Rises, Fresh
    <2>2. CASE trip.place # "page"
        BY <2>2, AwayUnchanged, StampsTyped
    <2> QED
        BY <2>1, <2>2
<1> QED
    BY <1>1, AlwaysInTurn, AlwaysTyped, PTL DEF Spec, NeverGoesBack
=============================================================================

----------------------------- MODULE FactorCard -----------------------------
(***************************************************************************)
(* The second factors of an account and its recovery codes.  A set of      *)
(* codes is told by the number the API gave it (the number beside the      *)
(* list), and the set that is on screen is shown once.  A texted code that *)
(* is not set up is closed where no messages can be sent.                  *)
(***************************************************************************)
EXTENDS Redirects

CONSTANT SetsUpApps     \* the site knows what the provider calls setting up an app

ASSUME SetsUpAssumption == SetsUpApps \in BOOLEAN

\* An authenticator app needs a trip; a texted code needs none.
canConfigure(kind) == kind = Sms \/ SetsUpApps

FactorRow(s, r) ==
    (IF s = "on" THEN {"disable"} ELSE {})
        \union (IF s = "off" /\ canConfigure(r) THEN {"enable"} ELSE {})

TwoFactorList ==
    IF ui.loading THEN {}
    ELSE UNION {{<<op, r>> : op \in FactorRow(ui.held.rows[r], r)} :
                r \in {q \in Rows : Listed(q) /\ ui.busy # q}}

TwoFactorDialog ==
    IF ui.dialog.action \notin {"enable", "disable"} \/ ui.busy # None THEN {}
    ELSE {ui.dialog.action, "close"}

\* One dialog with two steps: a number, then the code that was texted to it.
SmsDialog ==
    IF ui.busy # None THEN {}
    ELSE CASE ui.dialog.action = "number" -> {"startSms", "close"}
           [] ui.dialog.action = "code" -> {"confirmSms", "back", "close"}
           [] OTHER -> {}

\* Mutant of RecoveryCodesCard: it can be pressed while a set is being made.
RecoveryCodesAlways == IF ui.loading THEN {} ELSE {"generate"}

RecoveryCodesCard == IF ui.loading \/ "making" \in ui.marks THEN {} ELSE {"generate"}

RecoveryCodesDialog == IF ui.codes = 0 THEN {} ELSE {"close"}

-----------------------------------------------------------------------------
startAddingPhone == <<"enable", Sms>> \in TwoFactorList /\ Opens("number", Sms)

setFactorRequest(op, r) ==
    /\ <<op, r>> \in TwoFactorList /\ ~(op = "enable" /\ r = Sms)
    /\ Opens(op, r)

\* A new set can arrive on top of any of these dialogs; it is closed first.
InFront == ui.codes = 0

closeFactor ==
    /\ InFront
    /\ \/ "close" \in TwoFactorDialog /\ Closes({"enable", "disable"})
       \/ "close" \in SmsDialog /\ Closes({"number", "code"})

backToNumber ==
    /\ InFront /\ "back" \in SmsDialog
    /\ Shows([ui EXCEPT !.dialog.action = "number"])

enabling ==
    LET r == ui.dialog.row IN
    /\ InFront /\ "enable" \in TwoFactorDialog
    /\ \/ beginSecondFactorSetup(r)
       \/ CannotStart("factor", r, [ui EXCEPT !.dialog = Nowhere, !.busy = None,
                                   !.notice = [good |-> FALSE, op |-> "enable", row |-> r]])

disabling ==
    /\ InFront /\ "disable" \in TwoFactorDialog
    /\ Presses("disable", ui.dialog.row, [ui EXCEPT !.busy = ui.dialog.row])

textingCode ==
    InFront /\ "startSms" \in SmsDialog /\ Presses("startSms", Sms, [ui EXCEPT !.busy = Sms])

confirmingCode ==
    InFront /\ "confirmSms" \in SmsDialog /\ Presses("confirmSms", Sms, [ui EXCEPT !.busy = Sms])

makingRecoveryCodes ==
    /\ Free /\ "generate" \in RecoveryCodesCard
    /\ Presses("generate", None, [ui EXCEPT !.marks = @ \union {"making"}])

closeCodes == "close" \in RecoveryCodesDialog /\ Shows([ui EXCEPT !.codes = 0])

-----------------------------------------------------------------------------
\* What a factor is once it is gone.
Leaves(r) == IF r = Sms THEN {"off", "closed"} ELSE {"off"}

\* Whether a texted code is right is not known here, nor whether messages can be
\* sent while there is a number on the account.
FactorAllowed(op, r, right) ==
    \/ op \in {"confirm", "generate"}
    \/ /\ op = "startSms" /\ server.rows[Sms] # "closed"
       /\ server.rows[Sms] = "on" => right
    \/ op = "disable" /\ server.rows[r] = "on"
    \/ op = "confirmSms" /\ right

FactorAfter(op, r, left) ==
    CASE op = "disable" -> Put(r, left)
      [] op = "confirmSms" -> Put(Sms, "on")
      [] op = "generate" -> Aside(server.stamp + 1)
      [] OTHER -> server

\* The code is scanned while the browser is at the provider.
SetsUpAtProvider ==
    /\ trip.place = "provider" /\ trip.want = "factor"
    /\ server.rows[trip.about] = "off" /\ server.stamp < MaxStamp
    /\ server' = Put(trip.about, "on")
    /\ UNCHANGED <<card, ui, trip, flight, sent, disturbed>>

\* At the login, a recovery code takes every factor off.  The set it is from is
\* still the set, with a code less.
RecoversElsewhere ==
    /\ \E r \in Rows : server.rows[r] = "on"
    /\ \E left \in Leaves(Sms) :
          Elsewhere(With([r \in Rows |-> IF r = Sms THEN left ELSE "off"], server.aside))

\* Another tab or device makes a new set, which retires the one before it.
MakesElsewhere == Elsewhere(Aside(server.stamp + 1))

-----------------------------------------------------------------------------
\* The rows and the number of codes are kept apart.
RowsOf(f) == [ui EXCEPT !.held.rows = f.got.rows, !.held.stamp = f.got.stamp]

disabled(f, good) ==
    /\ f.op = "disable"
    /\ Hears(f, good, IF good THEN [RowsOf(f) EXCEPT !.busy = None, !.dialog = Nowhere,
                                                     !.notice = Says(f, TRUE)]
                      ELSE [ui EXCEPT !.busy = None, !.notice = Says(f, FALSE)])

texted(f, good) ==
    /\ f.op = "startSms"
    /\ Hears(f, good, IF good THEN [ui EXCEPT !.busy = None, !.dialog.action = "code"]
                      ELSE [ui EXCEPT !.busy = None])

smsConfirmed(f, good) ==
    /\ f.op = "confirmSms"
    /\ Hears(f, good, IF good THEN [RowsOf(f) EXCEPT !.busy = None, !.dialog = Nowhere,
                                                     !.notice = Says(f, TRUE)]
                      ELSE [ui EXCEPT !.busy = None])

factorConfirmed(f, good) ==
    /\ f.op = "confirm"
    /\ Hears(f, good, IF good THEN [RowsOf(f) EXCEPT !.notice = Says(f, f.got.rows[f.row] = "on")]
                      ELSE [ui EXCEPT !.notice = Says(f, FALSE)])

codesMade(f, good) ==
    /\ f.op = "generate"
    /\ Hears(f, good, IF good THEN [ui EXCEPT !.held.aside = f.got.aside, !.codes = f.got.aside,
                                              !.marks = @ \ {"making"}]
                      ELSE [ui EXCEPT !.marks = @ \ {"making"}, !.notice = Says(f, FALSE)])

useTwoFactor(f, good) ==
    \/ ReadArrives(f, good) \/ disabled(f, good) \/ texted(f, good)
    \/ smsConfirmed(f, good) \/ factorConfirmed(f, good) \/ codesMade(f, good)

FactorNext ==
    \/ SetsUpAtProvider
    \/ /\ OnPage("factors")
       /\ \/ \E op \in {"enable", "disable"}, r \in Rows : setFactorRequest(op, r)
          \/ startAddingPhone \/ closeFactor \/ backToNumber \/ enabling \/ disabling
          \/ textingCode \/ confirmingCode \/ makingRecoveryCodes \/ closeCodes
          \/ RecoversElsewhere \/ MakesElsewhere
          \/ \E f \in flight :
               \/ Reads(f)
               \/ /\ f.op # "read"
                  /\ \E right \in BOOLEAN, left \in Leaves(f.row) :
                       Handles(f, FactorAllowed(f.op, f.row, right),
                                  FactorAfter(f.op, f.row, left))
               \/ \E good \in BOOLEAN : useTwoFactor(f, good)
=============================================================================

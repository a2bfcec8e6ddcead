# Front Runner: specifications, checks and proofs

TLA+ models of the parts of this repository where state is changed by more than
one actor, or is kept in more than one place: the database functions and the API
handlers around them (`src/apps/main-db`, `src/apps/main-api`), the SMS plugin of
the identity provider (`src/apps/keycloak-idp`), and the session and the pages of
the browser (`src/apps/main-gui`).  TLC checks each model on small instances;
TLAPS proves the theorems listed below for every value of the constants.
`PROJECT.json` maps every definition to the lines it stands for, and lists the
runs, the mutants (one plausible bug for each property, which TLC must catch),
the hazards and the disagreements between code and documents.

    tlc -workers 2 -config OrganizationsSerial.cfg MCOrganizations.tla
    tlapm Organizations_proofs.tla

## 1. The system and what is hard about it

A React application logs in at Keycloak, over PKCE or a direct grant, and calls
a NestJS GraphQL API with the access token.  Nearly every rule about data of our
own lives in a PostgreSQL function; what belongs to the account itself (password,
identities, passkeys, sessions, second factors) is Keycloak's, and the API only
asks.  Three facts decide what can go wrong:

* `DatabaseService.query` (`database.service.ts:49-71`) runs **one query per
  call, each a READ COMMITTED transaction of its own**, and no function takes a
  lock (`SELECT ... FOR UPDATE`, advisory) before its first write.  Whatever it
  has read can be out of date when it writes.  `design-decisions.md:70-74` says
  as much for the team checks.
* Towards Keycloak the API **keeps nothing but a token** and gives up after five
  seconds (`keycloak-admin.service.ts:980`): what it acts on was true when it
  asked, and a call it has given up on may still be carried out.
* The browser keeps **copies**: a card's list is read once and then replaced by
  the answer of every write, in whatever order answers arrive; tokens and the
  marks of a trip to Keycloak are in storage that outlives the page.

| Part | State | Operations | Interacts with | Hard about it | What makes it correct |
|---|---|---|---|---|---|
| Organizations | `Organizations`, `UserOrganizations`, `OrganizationInvitations` | add, archive and restore, invite, accept, decline, revoke, set role, leave | verified addresses; the API's own checks | check-then-act between transactions; rows that are re-used; archiving while offers are open | an owner always; nobody joins unasked; an answer is given once; an archive stays as it was |
| SMS second factor | one code and one message budget per account in Keycloak's single-use store | send, resend, submit, in a browser form and a direct grant | the API's SMS endpoint | a store with get, put and remove but no compare-and-set; requests that die; windows that end | one guess per message; only the latest message; the budget |
| Browser session | React state per tab, session storage per tab, one local storage per browser | login, code exchange, restore, refresh, logout, reload | Keycloak's sessions; the API's logout report | answers that arrive after something else has happened | what is shown is what is kept; loading ends; logged out stays out |
| Security log and mirror | `SecurityEvents`, a watermark and a list of sessions in memory | a sweep on a timer, first-request login rows, logout reports | Keycloak's admin events | restarts, failures half way, two writers of one sentence | each refusal once and in the end; a logout keeps its sentence |
| Addresses and provisioning | `Users.Email`, `UserEmails`, the provider's copy, access tokens | first sign-in, following a token, add, resend, verify, choose primary, remove | guard on every request; mail; provider | three copies of one address and tokens that carry an old one | verified means proved; the copies agree; a stale token changes nothing |
| One-time secrets | `PasswordResets`, `PhoneVerifications`, `RecoveryCodes`, the account's factors | start, spend, check, list, enroll, remove factors | mail, SMS, provider | read-then-write of "unspent"; limits counted before an insert | works once; replaced by the next; guesses and messages bounded; only an answered number is enrolled |
| Ways in | identities, passkeys, password, sessions and second factors at the provider; the security log | list, connect, disconnect, confirm, remove, change password, end other sessions, set up and take off factors, set the address | `KeycloakAdminService` and its token | a check of what is left, then a removal; calls late or lost; an account written back whole | the last way in stays; the log is true; a counted change ended the old sessions; a rewrite keeps the address |
| Points | `UserPoints` (ledger), `UserTallies` (by trigger), `PointTransfers`, `PointRedemptions` | award, reverse, request, approve, refuse | organization roles | a derived balance, expiry, requests that wait | the tally is the ledger; a request is settled once and is covered; a row is reversed once; the limits |
| Wallet | `CreditCards`, `BankAccounts` | add, choose default, remove | the wallet page | one default over two tables | exactly one default in a wallet that is not empty |
| Screens of the account | a copy of one list per card, the row being saved, flags, a dialog, codes on screen | read, write, confirm, close, answers in any order or never | everything above, by GraphQL | rules written twice; an older answer after a newer; an answer that never comes | what is offered is allowed; nothing stays held back; codes on screen work; a form does not overwrite what it never showed |
| Redirects | one verifier and four markers in session storage | leave, come back, take the marker, land | the login, security and callback pages | a trip given up or refused, and another after it | the browser lands where the last trip was meant to lead |
| Notifications, profile | rows read or unread; one profile | mark one, mark all, save | the bell and the page | two copies of one count | no answer is replaced by an earlier one |
| Teams and tasks | `Teams`, `UserTeams`, `Tasks` | add, join, leave, reorder | organizations | authorisation in one query and the write in the next; team rows outlive a membership | members of a team are members of its organization |

The rest (public pages, GraphQL, configuration, mail and text senders, realm
set-up, row stamps, unbuilt drafts) is listed in `PROJECT.json` under
`components` with the reason it is not modelled.

## 2. Modules

| Module | Models | Composition |
|---|---|---|
| `Organizations` | ten functions, `organizations.service.ts`, `invitations.service.ts` | `MCOrganizations` instantiates it, `Organizations_proofs` proves about it |
| `SmsLogin` | the Java plugin, for one account | `MCSmsLogin`, `SmsLogin_proofs` |
| `GuiSession` | `session.tsx`, `identity-provider.ts`, the callback route and Keycloak's sessions | `MCGuiSession`; `WaysIn_proofs` extends it beside `WaysIn` (hence `SessionSpec`, and `endSessionOf` for the `endSession` of the browser) and proves about it |
| `ProviderEvents` | `provider-events.service.ts`, the writers of `security-events.service.ts`, the event log of the provider | `MCProviderEvents`, `ProviderEvents_proofs` |
| `AccountEmails` | the address functions, `ProvisionUser`, the guard, `emails.service.ts` and the provider's copy | `MCAccountEmails`, `AccountEmails_proofs` |
| `OneTimeSecrets` | reset, phone and recovery secrets and their services | `MCOneTimeSecrets`, `OneTimeSecrets_proofs` |
| `Points` | the points functions and the tally trigger | `MCPoints`, `Points_proofs` |
| `KeycloakAdmin` | `keycloak-admin.service.ts`: one account, how a call can go, what each call does | used by `Handlers` |
| `Handlers` | what handlers that ask the provider have in common | extends `KeycloakAdmin` |
| `SecondFactors` | `two-factor.service.ts` | extends `Handlers` |
| `WaysIn` | `single-sign-on`, `passkeys`, `password-change` services | extends `SecondFactors`; `MCWaysIn`, `WaysIn_proofs` |
| `Screen` | what cards have in common: the copy, a request, answers in any order | extended by every card |
| `EmailCard`, `SsoCard`, `PasskeyCard`, `FactorCard`, `ActivityCard`, `PasswordCard` | the security page | extend `Screen` or `Redirects` |
| `WalletCard`, `ProfileForm`, `Notifications`, `Entrance` | the wallet, the profile, the bell and its page, the dialogs of somebody signed out | extend `Screen` or `Redirects` |
| `Redirects` | PKCE storage, markers, the callback page | extends `Screen` |
| `Wallet` | the abstract specification of a wallet | `WalletCard` instantiates it, `Site_proofs` proves about it |
| `Site` | all cards together | `MCSite`, `Site_proofs` |

Keycloak is modelled from how the code uses it and those definitions are marked
external; it is part of the component it shares state with.

### How code becomes actions

* **A database function** is a few steps of a session: a step for each read that
  another transaction can come between (`...Authorise`, `...Read`, `...Guard`),
  then one step for the writes and the commit (`...Commit`).  A refusal ends the
  call and writes nothing.  What is remembered between the steps is in `call[s]`.
* **A statement that writes and has its own snapshot** is a step of its own
  where it matters: clearing the old primary address, retiring earlier secrets,
  the trigger's sum.
* **A handler that asks Keycloak** is one step per HTTP request.  How a request
  goes is one of `Outcomes`: `done`, `refused`, `late` (carried out, but the caller
  has given up) and `down`.  To the caller `late` and `down` are the same.  The
  administration token is not part of the state: one that Keycloak has forgotten
  is answered 401 or 403 to every call under way with it, several at once perhaps,
  and any call may be `refused` in any state.  Two requests sent together
  (`Promise.all`, `single-sign-on.service.ts:39`) are done when both are; the other
  one only gives a name.  A log entry is written in the step whose answer calls
  for it.
* **A process that awaits**: what runs between two awaits is one step; the
  answer is a step of the other side, and taking it up is a third.
* **A card of a page** is a set of offers (what its rows and buttons let one
  press), handlers that redraw and may send a request, one step of the API per
  request, and a step for each answer or error.  Behind a card the API is one
  step, except where the wallet's functions read before they write; the modules
  above say what those steps are made of.
* **Failure** is an action: `Fails`, `Dies`, `Refuse`, `Errors`, a restart, a
  write that commits and is not answered, a message that is sent or not.
* **Guards in the API** that read in a query of their own and then call a
  function are separate steps when the function does not check again, and are
  merged with its first read when it does.

History variables say when a promise is off.  `calm` is TRUE until two
transactions (in `SmsLogin`, two requests, or one that died) have been open at
once; in `WaysIn` until a disconnection is allowed while another that was allowed
is still to happen, so two that overlap and are counted one after the other are
not exempt; `disturbed` collects what happened to a page
(the account changed elsewhere, a call lost, transactions overlapped); `raced`
says that an address was set between the read and the write of an account;
`trip.clean` that no trip was given up.  They are there because much of this code
keeps its promises when calls follow one another and not when they overlap.  An
invariant `calm => P` is checked with *several* actors: all the interleavings of
calls with timers, provider calls, failures and expiry are explored, and only
what follows the first overlap is exempt.  Where a property has no such
condition it holds in every interleaving.

## 3. Runs and what they show

| Run | Bounds | Shows |
|---|---|---|
| `OrganizationsSerial` | 3 users, 1 organization, 2 addresses, 1 session | all rules of membership when calls follow one another: `AlwaysAdministered`, `AcceptedByOnlyWhenAccepted`, `MembershipByConsent`, `LastOwnerKept`, `ArchivedStaysAsItWas` |
| `OrganizationsOwnerRace` (violation) | 2 users, 2 sessions | two overlapping departures leave an organization without an owner |
| `SmsLogin` | 2 requests, both flows, 4 codes, 7 ticks (2 once requests have overlapped or died) | `OneGuessPerCode` in any interleaving, with requests that die between any two store operations; `BudgetKept` and `LatestMessageOnly` while calm, a gateway that refuses or answers too late included |
| `GuiSessionOneTab` | 1 tab, 3 logins, 3 loads | `StorageMatches`, `LoadingEnds` (liveness) |
| `GuiSessionLogout` (violation) | 1 tab, 2 logins, 2 loads | an answer that comes after Logout signs the tab in again |
| `ProviderEventsMirror` | 1 sweep at a time, 2 refusals, 1 session, 2 endings, a page of 3, 1 restart | `FailureWrittenOnce`, `NothingBehindTheMark`, `LogoutSaysSo`, `Mirrored` (liveness: each refusal and each logout in the end) |
| `AccountEmailsSerial` | 2 accounts, 2 addresses, 1 session, 3 keys, 1 token, 2 seconds | `VerifiedByProof`, `AddressesAgree`, `StaleTokenIgnored` |
| `OneTimeSecrets` | 2 sessions, 2 numbers, 2 secrets, 2 ticks | `RecoveryCodeWorksOnce` and `NumberAnswered` in any interleaving; `SecretWorksOnce`, `OnlyTheLastIsLive`, `LimitsKept` (guesses and messages) while calm |
| `PointsLedger` | 2 sessions, 2 users, 3 rows, 1 request | `TallyIsTheLedger` and `SettledWithinWorth` while calm; `MovedOnce`: a row is reversed once in any interleaving, a request settled once while calm |
| `PointsDailyLimit` (violation) | 1 session, 2 users, 5 rows, 2 requests | two transfers that wait together pass one daily limit |
| `WaysIn` | 2 callers, 2 requests, 2 providers, 1 passkey, 2 sessions, 2 changes at Keycloak | `LogIsTrue`, `OldSessionsEnded` in any interleaving; `KeepsAWayIn` as long as no disconnection is allowed while another that was allowed is still to happen, `AddressSurvives` until it is set in between |
| `Site` | each card with 2 rows, 2 to 5 requests, 3 changes, 2 trips | `OfferedIsAllowed`, `NothingStuck`, `NeverGoesBack`, `CodesShownWork`, `LandsWhereAsked`, `ProfileKept`, and `WalletAsPromised` (refinement) |

**Why the bounds are enough to be interesting.**  Limits and lifetimes are
shrunk until each is met within the bound, and they keep their order: in
`SmsLogin` the cooldown is shorter than a code's life, which is shorter than the
window, which has room for two messages; a behaviour that is no longer calm is
followed for `BusyTime` ticks only, since what is asked of it (`OneGuessPerCode`)
is not about time.  In `OneTimeSecrets` a texted code dies before the hour does.
There both message limits are 1, so the account's is the one that is met; with the
account's at 2, four secrets, four ticks and one session (11.4 million states) the
limit per number is met as well, and everything holds.  An account has room for
two addresses.  Races of this code need two actors and one contended row, so two
sessions and one or two rows reach them; a third actor plays the successor (the
second owner, the other account).  `OneTimeSecrets` was also run once with
`MaxMade = 3` (9.3 million states) and the inductive invariant of `AccountEmails`
with two sessions (6.5 million states); both held.

In `WaysIn` the two requests are both at one of three `Desks` (providers and
password; passkeys and what was set up; second factors and the address), because
operations of different desks meet only in the factors that one lists and another
takes off and in the password that a recovery proves; the account is changed at
Keycloak itself at most twice (`MaxElsewhere`).  The theorems below have
neither restriction.  In `Site` one card is used at a time (the choice is in
`Init`) with requests of its own bound `MaxSent`; two rows are enough for a row
that is saved beside one that is not, and one row of the factors is the texted
code, which has a dialog of its own.  Symmetry is used over interchangeable model
values and never in a run with a liveness property.

**Deadlock.**  `CHECK_DEADLOCK FALSE` stands where a bound stops the system (no
keys, ticks, requests or logins left).  The two `Organizations` runs check it.

**Fairness.**  `GuiSession`: a request that the browser sent for a restore is
answered or refused, and the tab takes the answer up; `fetch` settles and the
event loop runs.  Nothing is assumed of users, of refreshes or of logout.
`ProviderEvents`: the timer keeps firing and a sweep's steps run (weak
fairness); each call to the provider or the database succeeds if it is tried
again and again (strong fairness), because the sweep is retried for ever and a
provider that never answers again mirrors nothing.  The other modules have no
liveness property, as a user may stop at any point; that nothing on a page waits
for an answer which cannot come is the invariant `NothingStuck`.

**Refinement.**  `Wallet` is the promise: three operations on a map from methods
to `absent`, `held` or `default`.  `WalletCard` maps the rows the database holds
to it (`Wal == INSTANCE Wallet WITH ...`), and `WalletAsPromised` says that every
step of the site's wallet is a step of `Wallet` or none, until two transactions of
it overlap.  TLC checks it on the run `Site`, `WalletImplemented` proves it; the
promise itself is proved to mean exactly one default, and so the page keeps one
(`PageKeepsOneDefault`).

### Disagreements between code and documents that the runs show

1. Organizations: "An organization cannot be left without an owner"
   (`LeaveOrganization.sql:5`); two overlapping calls do it.
2. Browser session: "Cleared first, so the UI is logged out even if the provider
   is slow" (`session.tsx:171`); a refresh under way signs the tab in again.
3. Points: "most they may send in a day" (`UserTallies.sql:13`); the limit is
   looked at when a transfer is requested and only against completed ones.

### Seen while modelling; no run is kept for these

* Organizations: revoke or decline racing an acceptance leaves
  `AcceptedByUserUUID` on a row that is not accepted, and two answers to one offer
  are both taken.  Decline looks at `Users.Email` alone, accept at every verified
  address.
* SMS: the direct grant remembers the code before the gateway is asked, so a
  failed send leaves the account waiting for digits nobody has
  (`SmsDirectGrantAuthenticator:88`, against `SmsGateway:53-55`).  A message that
  goes out while the gateway's answer does not come back in time is taken for not
  sent by the browser's form, which remembers the code only afterwards
  (`SmsAuthenticator:159-169`): the handset has the new message and the one before
  it still logs in, against `SmsCode:41`, "the first message stops working the
  moment the second is sent".  No overlap and no death is needed; `unheard` keeps
  these messages, and `LatestMessageOnly` says that the promise holds up to them and
  that they let nobody in.  The cooldown is
  forgotten with the window it belongs to.  Two claims that race restart the
  budget, which `SmsSendBudget:40-41` accepts as one extra message.
* Session: a restore answered after a code exchange replaces the new login, or
  signs it out; tabs share local storage and nothing tells one what another did to
  it, so a tab whose restore is refused clears the token another tab remembered.
* Mirror: "whatever is missed is still there on the next one, because the mark did
  not move past it" (`provider-events.service.ts:48-49`) holds only if no more
  arrive than a page holds: the newest page is read, and what it has pushed out is
  behind the mark by the next sweep (`Batch` below `MaxFailures`).  Two refusals in
  one millisecond with a failure between their rows (`SameInstant = TRUE`), sweeps
  that overlap (`Sweeps` of two), and a logout whose write was swallowed but is
  remembered as written.
* Addresses: two overlapping choices of a primary address leave two, or none if
  one is a removal; a token refreshed between the commit and the provider's
  change is newer than the change and moves the address back; so does one minted
  in a later second while the choosing transaction is still open, because a change
  is stamped with the start of its transaction (`now()`, `update_modified_info.sql:4`)
  and `ProvisionUser.sql:100` compares with that; an address that the
  provider gave one account and that is a row of another is never reconciled; a
  link that a resend has replaced still verifies in a race; the cap of ten is
  count-then-insert and `ProvisionUser` does not look at it.
* One-time secrets: a reset link can be spent twice when two requests overlap
  (`SpendPasswordReset.sql:54`); overlapping starts leave two live secrets;
  overlapping wrong guesses are counted once and one that commits last undoes
  the mark of an answered code.  The limits are three statements, though the
  header of `StartPhoneVerification` says "Here it is one statement".
* Points: a tally is summed when a row is inserted and not when one expires, so
  points that have expired since can be sent; overlapping settlements move points
  twice; overlapping inserts lose one of the sums; a reversal does not expire
  (`ReverseUserPoints.sql:37`), so that of an award which expires takes its points
  away twice in the end; one side of a transfer can be reversed.
* Wallet: two first methods added at once each find it empty, and both become the
  default.
* Ways in: of two disconnections the second can be allowed on the count of the
  provider the first is about to take away, and both lock out an account without a
  password (`single-sign-on.service.ts:70-80`).  A password that was set and answered late is
  reported as failed, is not written down, and leaves the other sessions open; a
  read that fails after a disconnection reports a failure too.  The session that
  proves the present password is one more, and lingers when its own logout fails.
  A session whose end is not answered stops the loop, and the answer is null.
* Second factors: `writePhone` reads the account and writes it back whole, and an
  address set in between is put back (`keycloak-admin.service.ts:733-758`).  "The
  event is written whatever else happens next" (`two-factor.service.ts:99-102`) is
  not so for a removal that was carried out and answered late, nor for the first
  of several when the next fails.  A recovery that is refused half way has spent
  its code and may have taken some of the factors.
* Redirects: the marker of a trip that was abandoned, refused or could not start
  stays in session storage and sends the next login where that trip was going,
  which is what taking the marker was to prevent (`account-link.ts:53-55`,
  `second-factor-setup.ts:74-76`, `passkey-setup.ts:68-70`).
* Security page and wallet: "One at a time is enough" (`security.tsx:130-132`,
  `wallet.tsx:45-47`) is said of one row, and adding, or the privacy switch, can be
  under way beside it; of two answers the earlier list can be the one that stays.
  "... is off. Your account is protected by its password alone."
  (`security.tsx:530`) is also said when another factor is still on.  A set of codes
  whose answer is lost has replaced the old one and is never shown.  A set made in
  another tab or on another device retires the one on screen
  (`two-factor.service.ts:247-256`), and the page goes on showing it.
* Profile: `loading` ends for a read that failed as it does for one that arrived
  (`profile-api.tsx:104`, against the comment at `:41`), and the form then offers to
  save its blanks over the profile.
* Notifications and entrance: a list that is invalidated while its first read is
  under way reuses that read and shows what is stale; a login answered after the
  dialogs were switched closes whichever is open.  A page restored by Back with a
  row still busy is modelled as a fresh page.

## 4. Theorems

All theorems hold for **any** sets of users, organizations, accounts, addresses,
numbers, sessions, tabs, providers, passkeys, rows and requests, and any limits and
bounds.  What is assumed:

* the named `ASSUME`s of each module, which say that the constants have their
  kinds, that the row `Sms` is one and "no row" is none (`ScreenAssumption`), and
  that a trip to the provider leads to a card of the site (`CardsAssumption`); TLC
  evaluates them in every run.  `Points` also assumes what the code has by itself,
  that its sessions are finitely many;
* where the statement says so, that calls run one at a time (`OneAtATime`), that
  there is one tab, that a sweep is over before the next begins (`OneSweep`), that
  no two refusals share a millisecond (`~SameInstant`), or that a page of the
  provider's log holds what is in it (`Batch >= MaxFailures`, `Batch >= MaxEnded`).
  Each of these conditions is one the code does not see to; what happens
  without it is told under "Seen while modelling";
* "while calm" in the table: the property itself speaks only of what comes before
  two transactions overlap (for the texted codes, before two requests overlap or
  one dies); with it the theorem needs no assumption on how many there are.

| Theorem | Says | Argument |
|---|---|---|
| `Organizations_proofs!TypeCorrect` | `[]TypeOK` | one step per action |
| `Consent` | `MembershipByConsent`, for any number of overlapping calls | an acceptance that is under way is of an offer to an address of its caller (`ConsentInv`): the guard established it and no other session's step touches that call |
| `Administered` | `AlwaysAdministered`, if calls run one at a time | what each call has read is still true when it commits, which only holds with one session; hence the assumption in the statement |
| `EnabledOwnerKept` | `LastOwnerKept`, under the same condition | the same invariant |
| `AnsweredOnce`, `ArchiveKept` | `AcceptedByOnlyWhenAccepted`, `ArchivedStaysAsItWas`, under the same condition | `AnswerInv`: a call that answers an offer has found it open, one that would change more has found the organization open, and both are still so |
| `AccountEmails_proofs!TypeCorrect` | `[]TypeOK` | rows and keys by `Moves`, the rest per action |
| `Proved` | `VerifiedByProof`, for any number of overlapping requests | below |
| `CopiesAgree`, `StaleTokensIgnored` | `AddressesAgree`, `StaleTokenIgnored`, while calm | below |
| `OneTimeSecrets_proofs!TypeCorrect` | `[]TypeOK` | rows by `RowsMove`, requests by `Fits`, the rest per action |
| `RecoveredOnce` | `RecoveryCodeWorksOnce`, for any number of overlapping requests | below |
| `EnrolledAnswered` | `NumberAnswered`, for any number of overlapping requests | below |
| `SpentOnce`, `LastAlone`, `LimitsHold` | `SecretWorksOnce`, `OnlyTheLastIsLive`, `LimitsKept`, while calm | below |
| `ProviderEvents_proofs!Typing` | `[]TypeOK`, for any number of sweeps | one lemma per step of a sweep |
| `RefusalsAreWrittenOnce` | `FailureWrittenOnce`, with one sweep at a time, any page, restarts and equal stamps | below |
| `NothingIsLeftBehind` | `NothingBehindTheMark`, with one sweep, distinct stamps and a page that holds the log | below |
| `LogoutKeepsItsSentence` | `LogoutSaysSo`, for any number of overlapping sweeps and a page that holds the log | below |
| `SmsLogin_proofs!TypeCorrect` | `[]TypeOK` | no more codes are made than claims were allowed, nor claims than the bound: `CodesLeft` counts the requests between the two |
| `GuessedOnce` | `OneGuessPerCode`, for any number of requests that overlap and die | below |
| `OnlyTheLatest` | `LatestMessageOnly`, while calm | below |
| `WithinBudget` | `BudgetKept`, while calm, for any limits and delays | below |
| `Points_proofs!LedgerKept` | `[](TypeOK /\ ReversedOnce)`, for any number of overlapping calls | below |
| `TalliesAgree`, `NothingMovesTwice`, `SettlementsAreCovered` | `TallyIsTheLedger`, `MovedOnce`, `SettledWithinWorth`, while calm | below |
| `WaysIn_proofs!WaysInTypeCorrect` | `[]TypeOK` | one lemma per request |
| `LogTellsTheTruth`, `AWayInIsKept`, `OldSessionsAreEnded`, `TheAddressSurvives` | `LogIsTrue`, `KeepsAWayIn`, `OldSessionsEnded`, `AddressSurvives` | below |
| `SessionTypeCorrect` | of `GuiSession`: `[]SessionTypeOK`, for any number of tabs; with the types, that every session mentioned in the browser was made | no session is unmade and what a step brings in was there before or is new (`AllMade`); an answer taken up as granted is for a session (`GrantsSomething`) |
| `OneTabMatches` | of `GuiSession`: `StorageMatches`, in a browser with one tab | below |
| `Site_proofs!WalletTypeCorrect`, `ExactlyOneDefault` | of the abstract wallet: its type, and that one that is not empty has exactly one default | `OneDefault` is inductive |
| `WalletImplemented` | `WalletAsPromised`: the page, the API and the functions refine the abstract wallet until two transactions overlap | below |
| `PageKeepsOneDefault` | behind the page the wallet has exactly one default, while calm | the abstract theorem, carried over by the refinement step by step |
| `SiteTypeCorrect` | `[]ScreenTypeOK`, on every card and through every trip | one lemma per card; what a profile save sends is what its form holds (`FormBounded`) |
| `ProfileIsKept`, `TripsLand`, `ShownCodesWork`, `OffersAreAllowed`, `NothingIsStuck`, `AnswersNeverGoBack` | `ProfileKept`, `LandsWhereAsked`, `CodesShownWork`, `OfferedIsAllowed`, `NothingStuck`, `NeverGoesBack` | below |

**`Proved`.**  That a verified address was proved is not inductive: a request
that is about to verify has read a row and will write *by key*, later, whatever
has happened to the table.  `ProofInv` adds three facts.  `KeysApart`: a key
belongs to one row, and no key or secret is in use that was not made yet.
`LinksKnown`: the secret of a link that was mailed opens only the row it was
mailed for, even after the address has been removed and added again by somebody
else.  `CallsKnown`: if the row a `resend` or `verify` looked at is still there,
it has the owner that was read and, for `verify`, is proved.  The proof goes
through `RowsMove`, which says for any step that a row either goes, or keeps its
key and owner, or is the one new row with the one new key.  A lemma for each
of the commits, and one for the expiry of a link, establish it (`Writers` shows
that nothing else writes), and each part of the invariant follows from it.

**`CopiesAgree` and `StaleTokensIgnored`.**  Three copies of an address and a
token that carries an old one agree only because what a transaction has read is
still so when it writes.  `CalmInv` says which reads matter: the addresses that
`SetPrimaryUserEmail` is about to clear are the ones that are primary now, the row
it raises is still there and its owner's, a removal's row is still not primary,
and the guard's verdict on a token is still right (`ReadStands`).  With it go
`OnePrimary`, `SaysTheSame` (the two copies, but for a contested row) and
`ChoiceStands`: an account that has chosen has a primary address changed no
earlier than it chose, so a token older than the choice is older than the row.
Both times are those at which the choosing transaction began, as the code stamps
them: `NoneChosenSince` says that a transaction which is open began no earlier than
any choice already made, so what it stamps cannot go back behind one.

**`RecoveredOnce` and `EnrolledAnswered`.**  Both rest on one invariant, `IInv`.
A wrong guess writes a row by key from what was read and may make it live again,
so "spent stays spent" is false in general and cannot be the argument.  It is
true of recovery codes, because no request remembers one: `KindsKnown` says that
what a request remembers is of the kind it was read as, so only the single
statement of `UseRecoveryCode` and the retiring of a set touch recovery codes, and
`RecoveryStep` says what either does.  `UnspentUnused` (a live code was never
taken as right) is then inductive.  For the phone, `AnsweredFirst` says that a
request that is about to enroll has had its code answered; `RowsMove` says that
rows keep their kind and number and that `used` never falls, so the answered row
that justified the number still does, whatever is retired or revived meanwhile.
`GuessLeft` and `KeysInOrder` are there for the types: without a guess left the
count of attempts would leave its range.

**`SpentOnce`, `LastAlone` and `LimitsHold`.**  Until transactions overlap, what a
request has read of a row is still so (`CalmReads`), so a row is marked once, a
wrong guess writes one less than the row has (`GuessesCounted`), and a start
retires every live secret of its kind.  For the limits it is not enough that the
window of *now* is within them, because time moves the window:
`WindowsBounded` says it of the hour before every instant, past and to come, and
a start adds its row to those windows only which it has just counted.

**The mirror.**  A sweep remembers positions in logs that only grow, and writes
from the oldest up.  `MarkInv`: what it is to write has no row yet and is not behind
the mark (`ToWrite`), and whatever has a row is not past it (`BehindTheMark`), both
but for a write that was committed and not answered; a restart resumes the mark
from the rows and so keeps this.  `GapInv` adds that nothing
lies between the mark and what is to be written (`NoneSkipped`), and that a
refusal in front of a written one is written (`NoGap`); it is there that two
refusals with one stamp, or a page shorter than the log, would break the
argument, so the theorem says they do not occur.  For logouts `InOrder` says that
what came earlier about a session is written earlier or the session is settled.
That does not need a single sweep, because a session with a row gets no second.

**`GuessedOnce` and `OnlyTheLatest`.**  A code is first in the hands of the request
that made it, then in the store, then nowhere.  `GuessInv` says so: what a request
carries has been made, was not guessed at, is not in the store and is carried by
nobody else (`InHands`); what is in the store was not guessed at (`InStore`).  A
guess takes the entry out in one operation, and no step puts a code back.  For the
latest message `LatestInv` adds, as long as requests neither overlap nor die, which
step of which flow is ahead of the store and which behind it: in a browser the
message goes out before its code is stored, in a direct grant after, and between
requests the store holds the code of the last message, those the form gave up
(`unheard`) not counted, or none.

**`WithinBudget`.**  The record of a window is in the store, or in the hands of the
one request that has taken it out; either way it tells how many claims its window
has, when it opened and when the last was made (`Tells`), and it lives at least as
long as the window (`endsAt` is not past `until`), so that a claim which finds no
record finds every window over (`WindowsOver`).  From this the history of claims
has its shape: windows are apart, claims of one are spaced and rationed.  The put
fixes the lifespan from the claim's instant and may come any number of ticks
later; the inequality survives because time only adds to it.

**`OneTabMatches`.**  `Match` relates what the tab says of itself to the two
stores.  Every callback either settles the tab and writes both stores in the same
step (`Applies`, `Clears`), or loads the page from what is stored (`Loads`), or
changes only what is under way (`StaysTheSame`), so it is inductive with the types
and `GrantsSomething`.  It needs one tab: another writes the same local storage.

**`WaysIn`.**  A handler acts on what it was told, so `IInv` follows what each
request knows (`Good`): the factors and providers it was shown, and what it has
taken off, have happened to the account (`KnowsFacts`); the address it will write
back is the account's unless raced (`KnowsAddress`); every old session is still
among those it will end, unless one would not end (`KnowsSessions`); what it is
about to unlink is not the last way in as long as it is the only one that has been
allowed and is yet to happen (`KnowsWayIn`, with `OneDisconnects`).  `CallMoves` carries the others through a step of one.  TLC checked
this invariant, like all the others, before it was proved.

**`Points`.**  The worth of a user, and the rows in flight, are sums over a finite
set: folds of the community modules, whose value is fixed by a recursion that
picks an element and goes on with the rest.  What such a sum is on every finite
set takes an induction, and the library's theorems for it need an operator as a
parameter.  `WFMin`, which says that a set of subsets has a least member, needs
none: the set of counterexamples to a claim has none (`Least`).  So `AddsExist` and
`AddsAgree` show that the recursion has one solution, and `SumFirst`, `SumAny`,
`SumTyped`, `SumSame` and `SumChanges` that any element may be taken out first, that
whole numbers have a whole sum, and that a sum changes by as much as its one value
that does.

`LedgerInv` holds in any interleaving: what is posted and in flight fits the bound
(`RowsPosted`), a row that undoes another goes alone, and the row it undoes is
neither undone nor being undone by any other call (`UndoesOne`, `CallsOK`).  That
is what the unique column gives; the guard alone would not, since it looks only at
what is committed.  `CalmInv` adds what is so until two transactions overlap: there
is one call (`OneCall`), so what the trigger summed by its snapshot is what the
ledger will be (`SumsAhead`, one row for each user, because no one sends to
himself: `SentToOthers`), and a request under settlement still waits and is
covered (`SettlesOne`).  At the commit a user who has a row in the post gets
the new sum, and for everybody else `WorthWithOthers` says that the rows of others
count for nothing.  All of these were checked by TLC on the instance of
`PointsLedger` before they were proved.

**The pages (`Site_proofs`).**  One invariant per promise, each on top of the types.
Which actions of which card can disturb it is settled first (`Stays`,
`HomeCards`: a card that no trip leads to is never left).

* `WalletImplemented`: `LookedInv` says that what `AddMethod` found when it looked
  for a default is still so when it inserts, until transactions overlap; each step
  of the card is then a step of `Wallet` under the mapping, or none.
* `TripsLand`: `MarkersInv` relates the markers in storage to the trip under way;
  as long as none was given up there is none left over from an earlier one.
* `ShownCodesWork`: `MadeInv` follows the one request that makes a set, from the
  press to the screen: none is under way while codes are shown.  What it carries
  works or was replaced from another tab by a set with a later number (`Works`).
* `ProfileIsKept`: `SeededInv`: until the first reading has arrived there is no
  form to save, and what is saved afterwards is what was read.
* `OffersAreAllowed`: `RulesInv` gives the lists that can come about at all; the
  rest compares the two copies of each rule.
* `NothingIsStuck`: a mark or a busy row belongs to a request that is waited for,
  which is nearly inductive; only the bell, where presses overlap, needs
  `NotedInv`: its marks are cleared by the last of the writes they stand for.
* `AnswersNeverGoBack`: on these cards one answer that replaces the list is waited
  for at a time (`TurnInv`), and it was computed no earlier than what is shown
  (`StampInv`); a trip leaves none behind it (`QuietInv`).

**Only model-checked** is liveness (`LoadingEnds`, `Mirrored`): what needs fairness,
and so `ENABLED`, is out of the prover's reach.  Every other property of a passing
run is stated by a theorem.  The properties of the three runs that end in a
violation are false of the code, and nothing is proved of them.

## 5. What the models leave out

* `Organizations`: which addresses a user has is a constant (the module
  `AccountEmails` changes them); renaming; an acceptance's insert and update are
  one step, because they commit together and write by key.
* `SmsLogin`: digits are told apart but not guessed; `put` and `get` of the store
  are immediate; one account, as keys are per account.
* `GuiSession`: a token is its session; expiry makes it not fresh and the
  provider may refuse it; the verifier and the markers are in `Redirects`.
* `ProviderEvents`: the eviction from the list of remembered sessions is not
  reached by a run with one session; one unanswered write per refusal; a page
  smaller than the log is not in the run.
* `AccountEmails`: a clock in whole seconds, as tokens have it; `ProvisionUser`
  is a guard and a commit; tokens always carry an address and a stamp; a seeded
  row and an absent one are one case; expired links keep their row.
* `OneTimeSecrets`: one account, so messages that other accounts had sent to a
  number are not counted; the limits and the snapshot of the retiring statement
  are one step.
* `Points`: one organization and one currency, fixed members and owners, the same
  limits for everybody; a multiplier only changes an amount; an award that is
  expired when it is made.
* `WaysIn`: the administration token (above); a passkey's name and age are fresh or
  old; what a card draws; that a
  texted or recovery code is spent, which is in `OneTimeSecrets`.
* `Site`: a form is blank or filled from an answer; a list is a status per row, of
  which `closed` is a provider that is switched off, or texted codes where no
  messages can be sent; whether the site knows what Keycloak calls setting up an
  app is a constant (`SetsUpApps`, TRUE in the run); the API is one step behind a
  card; layout, wording, validation and translation.
* Everywhere: validation of formats, paging, encryption and hashing.

**Not modelled.**  Teams and tasks (the check of a team and its write are two
queries, and leaving an organization leaves team rows behind); registration, one
call to the provider; badges, read only; mail and text messages, stateless; GraphQL,
configuration, health and the pool; cookie consent, language and toasts, one value
each; realm and plugin set-up; the row stamps but for the one `ProvisionUser` compares,
and the drafts of the database; the
public pages, the dashboard and the chrome, which draw what they are given.

## 6. Plan

In order of importance:

1. **Teams**: the API's check and the function's write as two steps, composed
   with `Organizations`; team rows that outlive a membership.
2. Trimming of the security log, and the cache of recorded logins in the guard.
3. **An abstract mirror**: a set of sentences, each of which appears once, that
   `ProviderEvents` implements with one sweep and a page that holds the log.

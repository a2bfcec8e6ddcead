--------------------------- MODULE ProviderEvents ---------------------------
(***************************************************************************)
(* The mirror of the identity provider's event log onto the security page  *)
(* (ProviderEventsService), with the other writers of the same rows: the   *)
(* request path that records a login and the browser that reports a        *)
(* logout.                                                                 *)
(*                                                                         *)
(* A sweep runs on a timer that does not wait for the one before it.  It   *)
(* reads the provider's newest refused logins, writes those past its mark  *)
(* oldest first, then does the same for ended sessions, without a mark.    *)
(* What runs between two awaits is one step.                               *)
(***************************************************************************)
EXTENDS Naturals, Sequences, FiniteSetsExt, SequencesExt

CONSTANTS
    Sweeps,         \* sweeps that may be under way at once
    Sessions,       \* sessions at the provider
    Batch,          \* BATCH
    Remembered,     \* REMEMBERED
    SameInstant,    \* whether two refusals may carry the same millisecond
    MaxFailures,    \* bound: refused logins
    MaxEnded,       \* bound: events in the log of ended sessions
    MaxAged,        \* bound: how far the start of the last day moves
    MaxRestarts,    \* bound: restarts of the API
    None            \* null

ASSUME ConstantsAssumption ==
    /\ Batch \in Nat \ {0} /\ Remembered \in Nat \ {0, 1}
    /\ SameInstant \in BOOLEAN
    /\ {MaxFailures, MaxEnded, MaxAged, MaxRestarts} \subseteq Nat
    /\ None \notin Nat

VARIABLES
    failures,   \* the provider's LOGIN_ERROR events, oldest first
    aDayAgo,    \* the stamp LOOKBACK_MS before now
    ended,      \* its LOGOUT and REFRESH_TOKEN_ERROR events, oldest first
    session,    \* the provider's sessions
    failed,     \* LoginFailed rows, per event of the provider
    loggedIn,   \* sessions with a LoginSucceeded row
    loggedOut,  \* the sentence on a session's LoggedOut row, if it has one
    watermark,
    recordedLogouts,
    sweep,      \* what each sweep is in the middle of
    restarts,
    unsure,     \* history: refusals whose write was not answered
    missed      \* history: sessions a mirrored write did nothing for

provider == <<failures, aDayAgo, ended, session>>
page == <<failed, loggedIn, loggedOut>>
process == <<watermark, recordedLogouts, sweep, restarts>>
history == <<unsure, missed>>
vars == <<provider, page, process, history>>

-----------------------------------------------------------------------------
Events == 1 .. MaxFailures
Failure == [at : Nat, known : BOOLEAN]
EndedSession == [session : Sessions, deliberate : BOOLEAN]

\* What a sweep has read and not yet written, by position in the two logs.
Idle == [at |-> "idle", since |-> 0, failures |-> {}, sessions |-> {}]
Sweep == [at : {"idle", "mark", "failures", "writing", "sessions", "logouts"},
          since : Nat, failures : SUBSET Events, sessions : SUBSET (1 .. MaxEnded)]

TypeOK ==
    /\ failures \in Seq(Failure) /\ aDayAgo \in Nat
    /\ ended \in Seq(EndedSession)
    /\ session \in [Sessions -> {"none", "live", "ended"}]
    /\ failed \in [Events -> Nat]
    /\ loggedIn \subseteq Sessions
    /\ loggedOut \in [Sessions -> {"none", "logged out", "ended"}]
    /\ watermark \in Nat \union {None}
    /\ recordedLogouts \in Seq(Sessions)
    /\ Len(recordedLogouts) <= Remembered
    /\ sweep \in [Sweeps -> Sweep]
    /\ restarts \in 0 .. MaxRestarts
    /\ unsure \subseteq Events /\ missed \subseteq Sessions

Init ==
    /\ failures = <<>> /\ aDayAgo = 0 /\ ended = <<>>
    /\ session = [s \in Sessions |-> "none"]
    /\ failed = [e \in Events |-> 0]
    /\ loggedIn = {} /\ loggedOut = [s \in Sessions |-> "none"]
    /\ watermark = None /\ recordedLogouts = <<>>
    /\ sweep = [w \in Sweeps |-> Idle]
    /\ restarts = 0
    /\ unsure = {} /\ missed = {}

-----------------------------------------------------------------------------
(* The provider, as the mirror sees it.                                    *)

Newest == IF failures = <<>> THEN 0 ELSE failures[Len(failures)].at

\* A login is refused: for an account of this installation, or for a name
\* nobody here holds, which takes its place in the log all the same.
LoginRefused(known) ==
    /\ Len(failures) < MaxFailures
    /\ \E at \in {Newest + 1} \union (IF SameInstant THEN {Newest} \ {0} ELSE {}) :
          failures' = Append(failures, [at |-> at, known |-> known])
    /\ UNCHANGED <<aDayAgo, ended, session, page, process, history>>

ADayPasses ==
    /\ aDayAgo < Newest /\ aDayAgo < MaxAged
    /\ aDayAgo' = aDayAgo + 1
    /\ UNCHANGED <<failures, ended, session, page, process, history>>

SessionOpens(s) ==
    /\ session[s] = "none"
    /\ session' = [session EXCEPT ![s] = "live"]
    /\ UNCHANGED <<failures, aDayAgo, ended, page, process, history>>

\* A logout anywhere, or the refused refresh of a session that ran out.
SessionEnds(s, deliberate) ==
    /\ session[s] = "live"
    /\ Len(ended) < MaxEnded
    /\ session' = [session EXCEPT ![s] = "ended"]
    /\ ended' = Append(ended, [session |-> s, deliberate |-> deliberate])
    /\ UNCHANGED <<failures, aDayAgo, page, process, history>>

\* Another tab still holds a token of a session that is over.
RefreshRefused(s) ==
    /\ session[s] = "ended"
    /\ Len(ended) < MaxEnded
    /\ ended' = Append(ended, [session |-> s, deliberate |-> FALSE])
    /\ UNCHANGED <<failures, aDayAgo, session, page, process, history>>

-----------------------------------------------------------------------------
(* Rows.  The unique key keeps one login and one logout row per session.   *)

\* Mutant: a later report of the same logout replaces the sentence.
LogLogoutEventOver(s, sentence) ==
    IF s \in loggedIn THEN [loggedOut EXCEPT ![s] = sentence] ELSE loggedOut

LogLogoutEvent(s, sentence) ==
    IF s \in loggedIn /\ loggedOut[s] = "none"
    THEN [loggedOut EXCEPT ![s] = sentence] ELSE loggedOut

\* The first request of a session that can be recorded.  One that cannot is
\* not remembered, so a later request records it.  An access token is taken
\* for a while after its session is over.
recordLogin(s) ==
    /\ session[s] # "none"
    /\ loggedIn' = loggedIn \union {s}
    /\ UNCHANGED <<provider, failed, loggedOut, process, history>>

\* The browser says so before it tells the provider.
BrowserReportsLogout(s) ==
    /\ session[s] # "none"
    /\ loggedOut' = LogLogoutEvent(s, "logged out")
    /\ UNCHANGED <<provider, failed, loggedIn, process, history>>

-----------------------------------------------------------------------------
(* A sweep: the refused logins.                                            *)

newestLoginFailure ==
    Max({0} \union {failures[e].at : e \in {e \in DOMAIN failures : failed[e] > 0}})

startingPoint == Max({newestLoginFailure, aDayAgo})

At(w, stage) == sweep' = [sweep EXCEPT ![w].at = stage]

SweepStarts(w) ==
    /\ sweep[w] = Idle
    /\ IF watermark = None THEN At(w, "mark")
       ELSE sweep' = [sweep EXCEPT ![w].at = "failures", ![w].since = watermark]
    /\ UNCHANGED <<provider, page, watermark, recordedLogouts, restarts, history>>

MarkRead(w) ==
    /\ sweep[w].at = "mark"
    /\ watermark' = startingPoint
    /\ sweep' = [sweep EXCEPT ![w].at = "failures", ![w].since = startingPoint]
    /\ UNCHANGED <<provider, page, recordedLogouts, restarts, history>>

\* One page of a log: its newest entries.
PageOf(log) == {i \in DOMAIN log : i > Len(log) - Batch}

\* Mutant: a batch is written in the order the provider answers.
NewestFirst(entries) == Max(entries)

\* Entries are written oldest first.
OldestFirst(entries) == Min(entries)

\* Mutant: the event that made the mark is taken again.
FreshFromTheMark(since) == {e \in PageOf(failures) : failures[e].at >= since}

\* The events on the page that are past the mark.
Fresh(since) == {e \in PageOf(failures) : failures[e].at > since}

FailuresRead(w) ==
    /\ sweep[w].at = "failures"
    /\ sweep' = [sweep EXCEPT ![w].failures = Fresh(sweep[w].since), ![w].at = "writing"]
    /\ UNCHANGED <<provider, page, watermark, recordedLogouts, restarts, history>>

\* Mutant: the mark is the newest stamp of the batch.
MarkAfterNewest(w) == failures[Max(sweep[w].failures)].at

MarkAfter(w) == failures[OldestFirst(sweep[w].failures)].at

\* A subject this installation does not know writes nothing, without error.
WriteFailure(w) ==
    /\ sweep[w].at = "writing" /\ sweep[w].failures # {}
    /\ LET e == OldestFirst(sweep[w].failures)
       IN  failed' = [failed EXCEPT ![e] = @ + IF failures[e].known THEN 1 ELSE 0]
    /\ watermark' = MarkAfter(w)
    /\ sweep' = [sweep EXCEPT ![w].failures = @ \ {OldestFirst(@)}]
    /\ UNCHANGED <<provider, loggedIn, loggedOut, recordedLogouts, restarts, history>>

\* Mutant: what went wrong in one half ends the sweep.
GivesUpSweep(w) == sweep' = [sweep EXCEPT ![w] = Idle]

\* Any of the three calls throws, or all is written: this half is over.
GivesUpFailures(w) ==
    sweep' = [sweep EXCEPT ![w] = [Idle EXCEPT !.at = "sessions"]]

FailuresFail(w) ==
    /\ sweep[w].at \in {"mark", "failures", "writing"}
    /\ GivesUpFailures(w)
    /\ UNCHANGED <<provider, page, watermark, recordedLogouts, restarts, history>>

\* The row is committed and the answer lost.
WriteNotAnswered(w) ==
    /\ sweep[w].at = "writing" /\ sweep[w].failures # {}
    /\ LET e == OldestFirst(sweep[w].failures)
       IN  /\ failures[e].known /\ e \notin unsure    \* bound: once a refusal
           /\ failed' = [failed EXCEPT ![e] = @ + 1]
           /\ unsure' = unsure \union {e}
    /\ GivesUpFailures(w)
    /\ UNCHANGED <<provider, loggedIn, loggedOut, watermark, recordedLogouts, restarts, missed>>

FailuresDone(w) ==
    /\ sweep[w].at = "writing" /\ sweep[w].failures = {}
    /\ GivesUpFailures(w)
    /\ UNCHANGED <<provider, page, watermark, recordedLogouts, restarts, history>>

-----------------------------------------------------------------------------
(* A sweep: the ended sessions.                                            *)

SessionsRead(w) ==
    /\ sweep[w].at = "sessions"
    /\ LET new == {i \in PageOf(ended) : ended[i].session \notin ToSet(recordedLogouts)}
       IN  sweep' = [sweep EXCEPT ![w].sessions = new, ![w].at = "logouts"]
    /\ UNCHANGED <<provider, page, watermark, recordedLogouts, restarts, history>>

SessionsFail(w) ==
    /\ sweep[w].at = "sessions"
    /\ sweep' = [sweep EXCEPT ![w] = Idle]
    /\ UNCHANGED <<provider, page, watermark, recordedLogouts, restarts, history>>

\* Capped: a full set loses its oldest half before the next is added.
remember(s) ==
    LET room == IF Len(recordedLogouts) >= Remembered
                THEN SubSeq(recordedLogouts, Remembered \div 2 + 1, Len(recordedLogouts))
                ELSE recordedLogouts
    IN  IF s \in ToSet(room) THEN room ELSE Append(room, s)

\* recordLogout swallows what goes wrong, so the session is remembered
\* whether or not its row was written.
WriteLogout(w) ==
    /\ sweep[w].at = "logouts" /\ sweep[w].sessions # {}
    /\ LET x == ended[OldestFirst(sweep[w].sessions)]
           sentence == IF x.deliberate THEN "logged out" ELSE "ended"
       IN  /\ \/ /\ loggedOut' = LogLogoutEvent(x.session, sentence)
                 /\ missed' = IF loggedOut'[x.session] = "none"
                              THEN missed \union {x.session} ELSE missed
              \/ /\ missed' = missed \union {x.session}
                 /\ UNCHANGED loggedOut
           /\ recordedLogouts' = remember(x.session)
    /\ sweep' = [sweep EXCEPT ![w].sessions = @ \ {OldestFirst(@)}]
    /\ UNCHANGED <<provider, failed, loggedIn, watermark, restarts, unsure>>

SweepEnds(w) ==
    /\ sweep[w].at = "logouts" /\ sweep[w].sessions = {}
    /\ sweep' = [sweep EXCEPT ![w] = Idle]
    /\ UNCHANGED <<provider, page, watermark, recordedLogouts, restarts, history>>

\* The API restarts: the mark, the set and the sweeps are gone.
Restart ==
    /\ restarts < MaxRestarts
    /\ restarts' = restarts + 1
    /\ watermark' = None /\ recordedLogouts' = <<>>
    /\ sweep' = [w \in Sweeps |-> Idle]
    /\ UNCHANGED <<provider, page, history>>

SweepSteps(w) ==
    \/ SweepStarts(w) \/ MarkRead(w) \/ FailuresRead(w)
    \/ WriteFailure(w) \/ WriteNotAnswered(w) \/ FailuresFail(w) \/ FailuresDone(w)
    \/ SessionsRead(w) \/ SessionsFail(w) \/ WriteLogout(w) \/ SweepEnds(w)

SessionSteps(s) ==
    \/ SessionOpens(s) \/ RefreshRefused(s)
    \/ \E deliberate \in BOOLEAN : SessionEnds(s, deliberate)
    \/ recordLogin(s) \/ BrowserReportsLogout(s)

Next ==
    \/ \E known \in BOOLEAN : LoginRefused(known)
    \/ ADayPasses
    \/ \E s \in Sessions : SessionSteps(s)
    \/ \E w \in Sweeps : SweepSteps(w)
    \/ Restart

\* The timer starts a sweep every minute and a sweep's next call is made; a
\* provider and a database that are asked again and again answer some time.
Fairness ==
    \A w \in Sweeps :
        /\ WF_vars(SweepSteps(w))
        /\ SF_vars(MarkRead(w)) /\ SF_vars(FailuresRead(w)) /\ SF_vars(WriteFailure(w))
        /\ SF_vars(SessionsRead(w))

Spec == Init /\ [][Next]_vars /\ Fairness

-----------------------------------------------------------------------------
(* Properties.                                                             *)

\* "Ten attempts are ten rows": through restarts and sweeps that fail half
\* way, a refusal is written once, unless a committed write went unanswered.
FailureWrittenOnce ==
    \A e \in Events : failed[e] > 1 => e \in unsure

\* "The mark only ever moves over a row that was really written", and what a
\* sweep missed is still past it: a refusal of the last day that is at or
\* behind the mark is on the page.
NothingBehindTheMark ==
    watermark # None =>
        \A e \in DOMAIN failures :
            (/\ failures[e].known
             /\ failures[e].at > aDayAgo
             /\ failures[e].at <= watermark) => failed[e] > 0

\* A refused login reaches the page, or is over a day old before it can.
FailureMirrored ==
    \A e \in Events :
        (e \in DOMAIN failures /\ failures[e].known)
            ~> (e \in DOMAIN failures /\ (failed[e] > 0 \/ failures[e].at <= aDayAgo))

\* After a logout the page says "You logged out.", not that the session ended
\* without one, unless a write about the session did nothing.
LogoutSaysSo ==
    \A s \in Sessions \ missed :
        loggedOut[s] = "ended" =>
            \E i \in DOMAIN ended :
                /\ ended[i] = [session |-> s, deliberate |-> FALSE]
                /\ \A j \in 1 .. i : ended[j].session = s => ~ended[j].deliberate

\* A session with a login row that is over gets its logout row, unless a
\* write about it did nothing.
LogoutMirrored ==
    \A s \in Sessions :
        (session[s] = "ended" /\ s \in loggedIn)
            ~> (loggedOut[s] # "none" \/ s \in missed)

\* Whatever happened at the provider is on the page in the end.
Mirrored == FailureMirrored /\ LogoutMirrored
=============================================================================

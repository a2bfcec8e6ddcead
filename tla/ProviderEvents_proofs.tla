------------------------ MODULE ProviderEvents_proofs ------------------------
(***************************************************************************)
(* The mirror of the provider's event log: a refused login has one row, no *)
(* refusal is left behind the mark, and a logout keeps its sentence.  A    *)
(* sweep remembers positions in logs that only grow, and writes from the   *)
(* oldest up; what must be shown is that the mark, the rows and what is    *)
(* still to be written divide the log between them.                        *)
(***************************************************************************)
EXTENDS ProviderEvents, FiniteSetTheorems, WellFoundedInduction, TLAPS

\* Each sweep is over before the next begins; the timer does not see to it.
OneSweep == \A v, w \in Sweeps : v = w

-----------------------------------------------------------------------------
(* Refused logins.                                                         *)

\* The stamps of the provider's log do not fall.
StampsRise ==
    \A d, e \in DOMAIN failures : d < e => failures[d].at <= failures[e].at

\* What has a row is in the log.
InTheLog == \A e \in Events : failed[e] > 0 => e \in DOMAIN failures

\* A sweep that is about to read starts from the mark; what it has read and
\* not yet written is not behind the mark, and has no row unless a write of
\* it went unanswered.
ToWrite ==
    \A w \in Sweeps :
        /\ sweep[w].at = "failures" => watermark # None /\ sweep[w].since = watermark
        /\ sweep[w].at = "writing" =>
              /\ watermark # None
              /\ \A e \in sweep[w].failures :
                    /\ failures[e].at >= watermark
                    /\ failed[e] > 0 => e \in unsure

\* What has a row is at or behind the mark, unless its write went unanswered.
BehindTheMark ==
    watermark # None =>
        \A e \in Events : failed[e] > 0 /\ e \notin unsure => failures[e].at <= watermark

MarkInv == StampsRise /\ InTheLog /\ ToWrite /\ BehindTheMark /\ FailureWrittenOnce

\* No two refusals carry the same stamp, and neither the mark nor the start of
\* the last day is past the newest.
StampsDiffer ==
    /\ \A d, e \in DOMAIN failures : d < e => failures[d].at < failures[e].at
    /\ aDayAgo <= Newest
    /\ watermark # None => watermark <= Newest

\* What a sweep is to write is past the mark.
PastTheMark ==
    \A w \in Sweeps : sweep[w].at = "writing" =>
        \A e \in sweep[w].failures : failures[e].at > watermark

\* A sweep has read all there is between the mark and what it is to write.
NoneSkipped ==
    \A w \in Sweeps : sweep[w].at = "writing" =>
        \A e \in sweep[w].failures, d \in DOMAIN failures :
            d < e /\ failures[d].at > watermark => d \in sweep[w].failures

\* Rows are written in the order of the log: a refusal of the last day that
\* came before one with a row has a row.  A restart resumes from the rows.
NoGap ==
    \A d, e \in DOMAIN failures :
        d < e /\ failed[e] > 0 /\ failures[d].known /\ failures[d].at > aDayAgo
            => failed[d] > 0

GapInv == StampsDiffer /\ PastTheMark /\ NoneSkipped /\ NoGap /\ NothingBehindTheMark

-----------------------------------------------------------------------------
(* Ended sessions.                                                         *)

\* Nothing more is to be written for s: it has a row, or a write about it did
\* nothing.
Settled(s) == s \in missed \/ loggedOut[s] # "none"

\* The sessions that are remembered are settled.
RememberedAreSettled == \A s \in ToSet(recordedLogouts) : Settled(s)

\* What came earlier about a session is written earlier.
InOrder ==
    \A w \in Sweeps : sweep[w].at = "logouts" =>
        /\ sweep[w].sessions \subseteq DOMAIN ended
        /\ \A i \in sweep[w].sessions, j \in DOMAIN ended :
              j < i /\ ended[j].session = ended[i].session =>
                 j \in sweep[w].sessions \/ Settled(ended[i].session)

LogoutInv == RememberedAreSettled /\ InOrder /\ LogoutSaysSo

-----------------------------------------------------------------------------
(* Operators of the model.                                                 *)

\* A finite set of numbers has a smallest and a largest member.
LEMMA Smallest ==
    ASSUME NEW S \in SUBSET Nat, IsFiniteSet(S), S # {}
    PROVE  Min(S) \in S /\ \A y \in S : Min(S) <= y
<1> DEFINE UpTo(x) == {y \in S : y <= x}
           T == {UpTo(x) : x \in S}
<1>1. IsWellFoundedOn(StrictSubsetOrdering(S), SUBSET S)
    BY FS_StrictSubsetOrderingWellFounded, FS_FiniteSubsetsOfFinite
<1>2. T \subseteq SUBSET S /\ T # {}
    OBVIOUS
<1>3. PICK D \in T : \A E \in T : <<E, D>> \notin StrictSubsetOrdering(S)
    <2> HIDE DEF T
    <2> QED BY <1>1, <1>2, WFMin
<1>4. PICK x \in S : D = UpTo(x)
    OBVIOUS
<1>5. ASSUME NEW y \in S, y < x PROVE FALSE
    <2>1. UpTo(y) \in T /\ UpTo(y) \subseteq D /\ UpTo(y) # D
        <3>1. UpTo(y) \in T
            OBVIOUS
        <3>2. UpTo(y) \subseteq UpTo(x)
            <4>1. \A z \in S : z \in Nat
                OBVIOUS
            <4>2. x \in Nat /\ y \in Nat
                BY <4>1
            <4>3. \A z \in S : z <= y => z <= x
                BY <4>1, <4>2, <1>5
            <4> QED BY <4>3
        <3>3. x \in UpTo(x) /\ x \notin UpTo(y)
            BY <1>5
        <3> QED BY <3>1, <3>2, <3>3, <1>4
    <2> QED
        BY <1>2, <1>3, <2>1 DEF StrictSubsetOrdering
<1>6. \A y \in S : x <= y
    BY <1>5
<1> QED
    BY <1>6 DEF Min

LEMMA Largest ==
    ASSUME NEW S \in SUBSET Nat, IsFiniteSet(S), S # {}
    PROVE  Max(S) \in S /\ \A y \in S : y <= Max(S)
<1> DEFINE From(x) == {y \in S : y >= x}
           T == {From(x) : x \in S}
<1>1. IsWellFoundedOn(StrictSubsetOrdering(S), SUBSET S)
    BY FS_StrictSubsetOrderingWellFounded, FS_FiniteSubsetsOfFinite
<1>2. T \subseteq SUBSET S /\ T # {}
    OBVIOUS
<1>3. PICK D \in T : \A E \in T : <<E, D>> \notin StrictSubsetOrdering(S)
    <2> HIDE DEF T
    <2> QED BY <1>1, <1>2, WFMin
<1>4. PICK x \in S : D = From(x)
    OBVIOUS
<1>5. ASSUME NEW y \in S, y > x PROVE FALSE
    <2>1. From(y) \in T /\ From(y) \subseteq D /\ From(y) # D
        <3>1. From(y) \in T
            OBVIOUS
        <3>2. From(y) \subseteq From(x)
            <4>1. \A z \in S : z \in Nat
                OBVIOUS
            <4>2. x \in Nat /\ y \in Nat
                BY <4>1
            <4>3. \A z \in S : z >= y => z >= x
                BY <4>1, <4>2, <1>5
            <4> QED BY <4>3
        <3>3. x \in From(x) /\ x \notin From(y)
            BY <1>5
        <3> QED BY <3>1, <3>2, <3>3, <1>4
    <2> QED
        BY <1>2, <1>3, <2>1 DEF StrictSubsetOrdering
<1>6. \A y \in S : y <= x
    BY <1>5
<1> QED
    BY <1>6 DEF Max
LEMMA LargerOfTwo ==
    ASSUME NEW m \in Nat, NEW n \in Nat
    PROVE  /\ Max({m, n}) \in {m, n}
           /\ Max({m, n}) >= m /\ Max({m, n}) >= n
<1>1. \E x \in {m, n} : \A y \in {m, n} : x >= y
    OBVIOUS
<1> QED
    BY <1>1 DEF Max

\* The two logs, entry by entry.
LEMMA TheLogs ==
    ASSUME TypeOK
    PROVE  /\ DOMAIN failures = 1 .. Len(failures) /\ Len(failures) \in Nat
           /\ \A e \in DOMAIN failures :
                 /\ failures[e] \in Failure /\ e \in Nat
                 /\ failures[e].at \in Nat /\ failures[e].known \in BOOLEAN
           /\ DOMAIN ended = 1 .. Len(ended) /\ Len(ended) \in Nat
           /\ \A i \in DOMAIN ended :
                 /\ ended[i] \in EndedSession /\ i \in Nat
                 /\ ended[i].session \in Sessions /\ ended[i].deliberate \in BOOLEAN
<1>1. failures \in Seq(Failure) /\ ended \in Seq(EndedSession)
    BY DEF TypeOK
<1>2. DOMAIN failures = 1 .. Len(failures) /\ Len(failures) \in Nat
    BY <1>1
<1>3. DOMAIN ended = 1 .. Len(ended) /\ Len(ended) \in Nat
    BY <1>1
<1>4. \A e \in 1 .. Len(failures) : failures[e] \in Failure
    BY <1>1
<1>5. \A i \in 1 .. Len(ended) : ended[i] \in EndedSession
    BY <1>1
<1> QED
    BY <1>2, <1>3, <1>4, <1>5 DEF Failure, EndedSession

\* Where a sweep resumes: a day ago, or at the newest refusal with a row.
LEMMA StartingPoint ==
    ASSUME TypeOK
    PROVE  /\ startingPoint \in Nat /\ startingPoint >= aDayAgo
           /\ \A e \in DOMAIN failures : failed[e] > 0 => failures[e].at <= startingPoint
           /\ \/ startingPoint \in {0, aDayAgo}
              \/ \E e \in DOMAIN failures : failed[e] > 0 /\ failures[e].at = startingPoint
<1> DEFINE Written == {e \in DOMAIN failures : failed[e] > 0}
           Stamps == {failures[e].at : e \in Written}
<1>1. DOMAIN failures = 1 .. Len(failures) /\ Len(failures) \in Nat
    BY TheLogs
<1>2. \A e \in DOMAIN failures : failures[e].at \in Nat
    BY TheLogs
<1>3. IsFiniteSet(Stamps)
    <2>1. IsFiniteSet(Written)
        <3>1. IsFiniteSet(1 .. Len(failures))
            BY <1>1, FS_Interval
        <3>2. Written \in SUBSET (1 .. Len(failures))
            BY <1>1
        <3> QED
            BY <3>1, <3>2, FS_Subset
    <2>2. PICK stampOf : stampOf = [e \in Written |-> failures[e].at]
        OBVIOUS
    <2>3. stampOf \in Surjection(Written, Stamps)
        BY <2>2 DEF Surjection
    <2> QED
        BY <2>1, <2>3, FS_Surjection
<1>4. {0} \union Stamps \in SUBSET Nat /\ IsFiniteSet({0} \union Stamps)
    BY <1>2, <1>3, FS_AddElement
<1>5. /\ newestLoginFailure \in {0} \union Stamps
      /\ \A y \in {0} \union Stamps : y <= newestLoginFailure
    BY <1>4, Largest DEF newestLoginFailure
<1>6. newestLoginFailure \in Nat /\ aDayAgo \in Nat
    BY <1>4, <1>5 DEF TypeOK
<1>7. /\ startingPoint \in {newestLoginFailure, aDayAgo}
      /\ startingPoint >= newestLoginFailure /\ startingPoint >= aDayAgo
    BY <1>6, LargerOfTwo DEF startingPoint
<1>8. ASSUME NEW e \in DOMAIN failures, failed[e] > 0
      PROVE  failures[e].at <= startingPoint
    <2>1. failures[e].at <= newestLoginFailure
        BY <1>5, <1>8
    <2> QED
        BY <1>2, <1>6, <1>7, <2>1
<1>9. \/ startingPoint \in {0, aDayAgo}
      \/ \E e \in DOMAIN failures : failed[e] > 0 /\ failures[e].at = startingPoint
    BY <1>5, <1>7
<1> QED
    BY <1>6, <1>7, <1>8, <1>9

-----------------------------------------------------------------------------
(* Types.                                                                  *)

\* Entries on a page are entries of the log.
LEMMA OnThePage ==
    ASSUME TypeOK
    PROVE  /\ PageOf(failures) \subseteq DOMAIN failures
           /\ PageOf(ended) \subseteq DOMAIN ended
BY DEF PageOf

\* The oldest of what is still to be written.
LEMMA TheOldest ==
    ASSUME NEW n \in Nat, NEW entries \in SUBSET (1 .. n), entries # {}
    PROVE  OldestFirst(entries) \in entries /\ \A e \in entries : OldestFirst(entries) <= e
<1>1. IsFiniteSet(entries)
    <2>1. IsFiniteSet(1 .. n)
        BY FS_Interval
    <2> QED
        BY <2>1, FS_Subset
<1>2. entries \in SUBSET Nat
    OBVIOUS
<1> QED
    BY <1>1, <1>2, Smallest DEF OldestFirst

\* What is known of a sweep that has a stage of its own.
LEMMA SweepTyped ==
    ASSUME TypeOK, NEW w \in Sweeps
    PROVE  /\ sweep[w] \in Sweep /\ sweep[w].since \in Nat
           /\ sweep[w].failures \in SUBSET (1 .. MaxFailures)
           /\ sweep[w].sessions \in SUBSET (1 .. MaxEnded)
           /\ MaxFailures \in Nat /\ MaxEnded \in Nat /\ MaxRestarts \in Nat
BY ConstantsAssumption DEF TypeOK, Sweep, Events

\* A sweep goes on to k; whatever else it is, k is a sweep.
LEMMA SweepMoves ==
    ASSUME TypeOK, NEW w \in Sweeps, NEW k \in Sweep, sweep' = [sweep EXCEPT ![w] = k]
    PROVE  /\ sweep' \in [Sweeps -> Sweep]
           /\ sweep'[w] = k /\ \A v \in Sweeps \ {w} : sweep'[v] = sweep[v]
BY DEF TypeOK

LEMMA IdleIsASweep == Idle \in Sweep
BY DEF Idle, Sweep

\* The logs keep to their bounds, and what a sweep holds is in them.
LogsBounded ==
    /\ Len(failures) <= MaxFailures /\ Len(ended) <= MaxEnded
    /\ \A w \in Sweeps : /\ sweep[w].failures \subseteq DOMAIN failures
                         /\ sweep[w].sessions \subseteq DOMAIN ended

Typed == TypeOK /\ LogsBounded

\* Each step of a sweep, as what it goes on to.
LEMMA SweepStep ==
    ASSUME Typed, NEW w \in Sweeps, SweepSteps(w)
    PROVE  \E k \in Sweep : /\ sweep' = [sweep EXCEPT ![w] = k]
                            /\ k.failures \subseteq DOMAIN failures
                            /\ k.sessions \subseteq DOMAIN ended
<1> USE DEF Typed
<1>1. /\ sweep[w] \in Sweep /\ sweep[w].failures \subseteq DOMAIN failures
      /\ sweep[w].sessions \subseteq DOMAIN ended
    BY SweepTyped DEF LogsBounded
<1>2. CASE SweepStarts(w)
    <2>1. CASE watermark = None
        <3>1. PICK k : k = [sweep[w] EXCEPT !.at = "mark"]
            OBVIOUS
        <3>2. k \in Sweep /\ k.failures = sweep[w].failures /\ k.sessions = sweep[w].sessions
            BY <1>1, <3>1 DEF Sweep
        <3>3. sweep' = [sweep EXCEPT ![w] = k]
            BY <1>2, <2>1, <3>1 DEF SweepStarts, At
        <3> QED
            BY <1>1, <3>2, <3>3
    <2>2. CASE watermark # None
        <3>1. PICK k : k = [sweep[w] EXCEPT !.at = "failures", !.since = watermark]
            OBVIOUS
        <3>2. watermark \in Nat
            BY <2>2 DEF TypeOK
        <3>3. k \in Sweep /\ k.failures = sweep[w].failures /\ k.sessions = sweep[w].sessions
            BY <1>1, <3>1, <3>2 DEF Sweep
        <3>4. sweep' = [sweep EXCEPT ![w] = k]
            BY <1>2, <2>2, <3>1 DEF SweepStarts
        <3> QED
            BY <1>1, <3>3, <3>4
    <2> QED
        BY <2>1, <2>2
<1>3. CASE MarkRead(w)
    <2>1. PICK k : k = [sweep[w] EXCEPT !.at = "failures", !.since = startingPoint]
        OBVIOUS
    <2>2. k \in Sweep
        BY <1>1, <2>1, StartingPoint DEF Sweep
    <2>3. sweep' = [sweep EXCEPT ![w] = k]
        BY <1>3, <2>1 DEF MarkRead
    <2>4. k.failures = sweep[w].failures /\ k.sessions = sweep[w].sessions
        BY <1>1, <2>1 DEF Sweep
    <2> QED
        BY <1>1, <2>2, <2>3, <2>4
<1>4. CASE FailuresRead(w)
    <2>1. Fresh(sweep[w].since) \subseteq Events /\ Fresh(sweep[w].since) \subseteq DOMAIN failures
        BY TheLogs, OnThePage, SweepTyped DEF Fresh, Events, LogsBounded
    <2>2. PICK k : k = [sweep[w] EXCEPT !.failures = Fresh(sweep[w].since), !.at = "writing"]
        OBVIOUS
    <2>3. k \in Sweep
        BY <1>1, <2>1, <2>2 DEF Sweep
    <2>4. sweep' = [sweep EXCEPT ![w] = k]
        BY <1>4, <2>2 DEF FailuresRead
    <2>5. k.failures = Fresh(sweep[w].since) /\ k.sessions = sweep[w].sessions
        BY <1>1, <2>2 DEF Sweep
    <2> QED
        BY <1>1, <2>1, <2>3, <2>4, <2>5
<1>5. CASE WriteFailure(w)
    <2>1. PICK k : k = [sweep[w] EXCEPT !.failures = @ \ {OldestFirst(@)}]
        OBVIOUS
    <2>2. k \in Sweep
        BY <1>1, <2>1 DEF Sweep
    <2>3. sweep' = [sweep EXCEPT ![w] = k]
        BY <1>5, <2>1 DEF WriteFailure
    <2>4. k.failures \subseteq sweep[w].failures /\ k.sessions \subseteq sweep[w].sessions
        BY <1>1, <2>1 DEF Sweep
    <2> QED
        BY <1>1, <2>2, <2>3, <2>4
<1>6. CASE WriteNotAnswered(w) \/ FailuresFail(w) \/ FailuresDone(w)
    <2>1. PICK k : k = [Idle EXCEPT !.at = "sessions"]
        OBVIOUS
    <2>2. k \in Sweep
        BY <2>1, IdleIsASweep DEF Sweep
    <2>3. sweep' = [sweep EXCEPT ![w] = k]
        BY <1>6, <2>1 DEF WriteNotAnswered, FailuresFail, FailuresDone, GivesUpFailures
    <2>4. k.failures = {} /\ k.sessions = {}
        BY <2>1 DEF Idle
    <2> QED
        BY <2>2, <2>3, <2>4
<1>7. CASE SessionsRead(w)
    <2>1. PICK new : new = {i \in PageOf(ended) : ended[i].session \notin ToSet(recordedLogouts)}
        OBVIOUS
    <2>2. new \subseteq 1 .. MaxEnded /\ new \subseteq DOMAIN ended
        BY <2>1, TheLogs, OnThePage, SweepTyped DEF LogsBounded
    <2>3. PICK k : k = [sweep[w] EXCEPT !.sessions = new, !.at = "logouts"]
        OBVIOUS
    <2>4. k \in Sweep
        BY <1>1, <2>2, <2>3 DEF Sweep
    <2>5. sweep' = [sweep EXCEPT ![w] = k]
        BY <1>7, <2>1, <2>3 DEF SessionsRead
    <2>6. k.failures = sweep[w].failures /\ k.sessions = new
        BY <1>1, <2>3 DEF Sweep
    <2> QED
        BY <1>1, <2>2, <2>4, <2>5, <2>6
<1>8. CASE WriteLogout(w)
    <2>1. PICK k : k = [sweep[w] EXCEPT !.sessions = @ \ {OldestFirst(@)}]
        OBVIOUS
    <2>2. k \in Sweep
        BY <1>1, <2>1 DEF Sweep
    <2>3. sweep' = [sweep EXCEPT ![w] = k]
        BY <1>8, <2>1 DEF WriteLogout
    <2>4. k.failures \subseteq sweep[w].failures /\ k.sessions \subseteq sweep[w].sessions
        BY <1>1, <2>1 DEF Sweep
    <2> QED
        BY <1>1, <2>2, <2>3, <2>4
<1>9. CASE SessionsFail(w) \/ SweepEnds(w)
    <2>1. sweep' = [sweep EXCEPT ![w] = Idle] /\ Idle.failures = {} /\ Idle.sessions = {}
        BY <1>9 DEF SessionsFail, SweepEnds, Idle
    <2> QED
        BY <2>1, IdleIsASweep
<1> QED
    BY <1>2, <1>3, <1>4, <1>5, <1>6, <1>7, <1>8, <1>9 DEF SweepSteps


LEMMA IsIn ==
    ASSUME NEW S, NEW s \in Seq(S)
    PROVE  (\A i \in 1 .. Len(s) : s[i] \in ToSet(s)) /\ ToSet(s) \subseteq S
BY DEF ToSet

\* The capped memory: it forgets from the front, and gains only s.
LEMMA RememberTyped ==
    ASSUME NEW s \in Sessions, recordedLogouts \in Seq(Sessions),
           Len(recordedLogouts) <= Remembered
    PROVE  /\ remember(s) \in Seq(Sessions) /\ Len(remember(s)) <= Remembered
           /\ ToSet(remember(s)) \subseteq ToSet(recordedLogouts) \union {s}
<1> DEFINE old == recordedLogouts
           half == Remembered \div 2
           room == IF Len(old) >= Remembered THEN SubSeq(old, half + 1, Len(old)) ELSE old
<1>1. /\ Remembered \in Nat /\ half \in Nat /\ half >= 1 /\ half <= Remembered
      /\ Len(old) \in Nat
    BY ConstantsAssumption
<1>2. room \in Seq(Sessions) /\ Len(room) < Remembered
    BY <1>1
<1>3. \A i \in DOMAIN room : room[i] \in ToSet(old)
    <2>1. CASE Len(old) >= Remembered
        <3>1. DOMAIN room = 1 .. (Len(old) - half) /\ \A i \in DOMAIN room : room[i] = old[i + half]
            BY <1>1, <2>1
        <3>2. \A i \in DOMAIN room : i + half \in 1 .. Len(old)
            BY <1>1, <3>1
        <3> QED
            BY <3>1, <3>2, IsIn
    <2>2. CASE ~(Len(old) >= Remembered)
        BY <2>2, IsIn
    <2> QED
        BY <2>1, <2>2
<1>4. remember(s) = IF s \in ToSet(room) THEN room ELSE Append(room, s)
    BY DEF remember
<1>5. DOMAIN room = 1 .. Len(room) /\ ToSet(room) \subseteq ToSet(recordedLogouts)
    <2>1. DOMAIN room = 1 .. Len(room)
        BY <1>2
    <2> QED
        BY <1>3, <2>1 DEF ToSet
<1> HIDE DEF room, old
<1>6. CASE s \in ToSet(room)
    <2>1. Len(room) \in Nat /\ remember(s) = room
        BY <1>2, <1>4, <1>6
    <2> QED
        BY <1>1, <1>2, <1>5, <2>1
<1>7. CASE s \notin ToSet(room)
    <2>1. remember(s) = Append(room, s)
        BY <1>4, <1>7
    <2>2. remember(s) \in Seq(Sessions) /\ Len(remember(s)) = Len(room) + 1
        BY <1>2, <2>1
    <2>3. ToSet(remember(s)) \subseteq ToSet(room) \union {s}
        <3>1. \A i \in 1 .. Len(remember(s)) : IF i \in 1 .. Len(room)
                                              THEN remember(s)[i] = room[i] ELSE remember(s)[i] = s
            BY <1>2, <2>1
        <3>2. \A i \in 1 .. Len(room) : room[i] \in ToSet(room)
            BY <1>2, IsIn
        <3>3. DOMAIN remember(s) = 1 .. Len(remember(s))
            BY <2>2
        <3> QED
            BY <3>1, <3>2, <3>3 DEF ToSet
    <2>4. Len(remember(s)) <= Remembered
        <3>1. Len(room) \in Nat
            BY <1>2
        <3> QED
            BY <1>1, <1>2, <2>2, <3>1
    <2> QED
        BY <1>5, <2>2, <2>3, <2>4
<1> QED
    BY <1>6, <1>7

LEMMA Bounds ==
    /\ MaxFailures \in Nat /\ MaxEnded \in Nat /\ MaxRestarts \in Nat
    /\ Batch \in Nat /\ Batch >= 1
BY ConstantsAssumption

\* A log with one more entry.
LEMMA Appended ==
    ASSUME NEW S, NEW log \in Seq(S), NEW x \in S
    PROVE  /\ Append(log, x) \in Seq(S) /\ Len(log) \in Nat
           /\ DOMAIN log = 1 .. Len(log) /\ DOMAIN Append(log, x) = 1 .. Len(log) + 1
           /\ \A i \in DOMAIN log : Append(log, x)[i] = log[i]
           /\ Append(log, x)[Len(log) + 1] = x
OBVIOUS

\* What a step of the provider's log adds.
LEMMA LoginRefusedTyped ==
    ASSUME Typed, NEW known \in BOOLEAN, LoginRefused(known)
    PROVE  /\ \E f \in Failure : failures' = Append(failures, f) /\ f.known = known
           /\ Newest \in Nat /\ failures' \in Seq(Failure) /\ Len(failures') <= MaxFailures
<1>1. failures \in Seq(Failure) /\ Len(failures) < MaxFailures
    BY DEF Typed, TypeOK, LoginRefused
<1>2. Newest \in Nat
    BY TheLogs DEF Typed, Newest
<1>3. PICK at \in {Newest + 1} \union (IF SameInstant THEN {Newest} \ {0} ELSE {}) :
         failures' = Append(failures, [at |-> at, known |-> known])
    BY DEF LoginRefused
<1>4. at \in Nat
    BY <1>2, <1>3
<1>5. PICK f : f = [at |-> at, known |-> known]
    OBVIOUS
<1>6. f \in Failure /\ f.known = known /\ failures' = Append(failures, f)
    BY <1>3, <1>4, <1>5 DEF Failure
<1> QED
    BY <1>1, <1>2, <1>6, SweepTyped, ConstantsAssumption

LEMMA EndedGrows ==
    ASSUME Typed, NEW s \in Sessions, NEW deliberate \in BOOLEAN, Len(ended) < MaxEnded,
           ended' = Append(ended, [session |-> s, deliberate |-> deliberate])
    PROVE  ended' \in Seq(EndedSession) /\ Len(ended') <= MaxEnded
<1>1. PICK x : x = [session |-> s, deliberate |-> deliberate]
    OBVIOUS
<1>2. x \in EndedSession /\ ended' = Append(ended, x) /\ ended \in Seq(EndedSession)
    BY <1>1 DEF EndedSession, Typed, TypeOK
<1> QED
    BY <1>2, ConstantsAssumption

\* The rows and the mark keep their types through a step of a sweep.
LEMMA SweepKeepsTypes ==
    ASSUME Typed, NEW w \in Sweeps, SweepSteps(w)
    PROVE  Typed'
<1>1. sweep' \in [Sweeps -> Sweep]
    BY SweepStep, SweepMoves DEF Typed
<1>2. /\ UNCHANGED <<failures, aDayAgo, ended, session, loggedIn, restarts>>
    BY DEF SweepSteps, SweepStarts, MarkRead, FailuresRead, WriteFailure, WriteNotAnswered,
           FailuresFail, FailuresDone, SessionsRead, SessionsFail, WriteLogout, SweepEnds,
           provider, page, history
<1>3. failed' \in [Events -> Nat] /\ unsure' \subseteq Events /\ watermark' \in Nat \union {None}
    <2>1. CASE WriteFailure(w) \/ WriteNotAnswered(w)
        <3>1. PICK e : e = OldestFirst(sweep[w].failures)
            OBVIOUS
        <3>2. e \in Events
            BY <2>1, <3>1, SweepTyped, TheOldest DEF Typed, Events, WriteFailure, WriteNotAnswered
        <3>3. CASE WriteFailure(w)
            <4>1. /\ failed' = [failed EXCEPT ![e] = @ + IF failures[e].known THEN 1 ELSE 0]
                  /\ unsure' = unsure /\ watermark' = failures[e].at
                BY <3>1, <3>3 DEF WriteFailure, MarkAfter, history
            <4>2. e \in DOMAIN failures
                BY <3>1, <3>3, SweepTyped, TheOldest DEF Typed, LogsBounded, WriteFailure
            <4>3. failures[e].at \in Nat
                BY <4>2, TheLogs DEF Typed
            <4>4. failed' \in [Events -> Nat]
                <5>1. PICK n \in {0, 1} : failed' = [failed EXCEPT ![e] = @ + n]
                    BY <4>1
                <5>2. failed \in [Events -> Nat]
                    BY DEF Typed, TypeOK
                <5> QED
                    BY <3>2, <5>1, <5>2
            <4> QED
                BY <4>1, <4>3, <4>4 DEF Typed, TypeOK
        <3>4. CASE WriteNotAnswered(w)
            <4>1. /\ failed' = [failed EXCEPT ![e] = @ + 1]
                  /\ unsure' = unsure \union {e} /\ watermark' = watermark
                BY <3>1, <3>4 DEF WriteNotAnswered
            <4>2. failed' \in [Events -> Nat]
                <5>1. failed \in [Events -> Nat]
                    BY DEF Typed, TypeOK
                <5> QED
                    BY <3>2, <4>1, <5>1
            <4> QED
                BY <3>2, <4>1, <4>2 DEF Typed, TypeOK
        <3> QED
            BY <2>1, <3>3, <3>4
    <2>2. CASE MarkRead(w)
        BY <2>2, StartingPoint DEF MarkRead, Typed, TypeOK, page, history
    <2>3. CASE ~(WriteFailure(w) \/ WriteNotAnswered(w) \/ MarkRead(w))
        BY <2>3 DEF SweepSteps, SweepStarts, FailuresRead, FailuresFail, FailuresDone,
           SessionsRead, SessionsFail, WriteLogout, SweepEnds, page, history, Typed, TypeOK
    <2> QED
        BY <2>1, <2>2, <2>3
<1>4. /\ loggedOut' \in [Sessions -> {"none", "logged out", "ended"}] /\ missed' \subseteq Sessions
      /\ recordedLogouts' \in Seq(Sessions) /\ Len(recordedLogouts') <= Remembered
    <2>1. CASE WriteLogout(w)
        <3>1. PICK i : i = OldestFirst(sweep[w].sessions)
            OBVIOUS
        <3>2. i \in DOMAIN ended
            BY <2>1, <3>1, SweepTyped, TheOldest DEF Typed, LogsBounded, WriteLogout
        <3>3. PICK s : s = ended[i].session
            OBVIOUS
        <3>4. s \in Sessions
            BY <3>2, <3>3, TheLogs DEF Typed
        <3>5. recordedLogouts' = remember(s)
            BY <2>1, <3>1, <3>3 DEF WriteLogout
        <3>6. PICK sentence \in {"logged out", "ended"} :
                \/ /\ loggedOut' = LogLogoutEvent(s, sentence)
                   /\ missed' = IF loggedOut'[s] = "none" THEN missed \union {s} ELSE missed
                \/ missed' = missed \union {s} /\ UNCHANGED loggedOut
            BY <2>1, <3>1, <3>3 DEF WriteLogout
        <3>7. missed' \subseteq Sessions
            BY <3>4, <3>6 DEF Typed, TypeOK
        <3>8. loggedOut' \in [Sessions -> {"none", "logged out", "ended"}]
            BY <3>4, <3>6 DEF Typed, TypeOK, LogLogoutEvent
        <3>9. recordedLogouts' \in Seq(Sessions) /\ Len(recordedLogouts') <= Remembered
            BY <3>4, <3>5, RememberTyped DEF Typed, TypeOK
        <3> QED
            BY <3>7, <3>8, <3>9
    <2>2. CASE ~WriteLogout(w)
        BY <2>2 DEF SweepSteps, SweepStarts, MarkRead, FailuresRead, WriteFailure,
           WriteNotAnswered, FailuresFail, FailuresDone,
           SessionsRead, SessionsFail, SweepEnds, page, history, Typed, TypeOK
    <2> QED
        BY <2>1, <2>2
<1>5. LogsBounded'
    <2>1. PICK k \in Sweep : /\ sweep' = [sweep EXCEPT ![w] = k]
                             /\ k.failures \subseteq DOMAIN failures
                             /\ k.sessions \subseteq DOMAIN ended
        BY SweepStep
    <2>2. sweep'[w] = k /\ \A v \in Sweeps \ {w} : sweep'[v] = sweep[v]
        BY <2>1, SweepMoves DEF Typed
    <2> QED
        BY <1>2, <2>1, <2>2 DEF Typed, LogsBounded
<1> QED
    BY <1>1, <1>2, <1>3, <1>4, <1>5 DEF Typed, TypeOK

LEMMA NextKeepsTypes == Typed /\ [Next]_vars => Typed'
<1> SUFFICES ASSUME Typed, [Next]_vars PROVE Typed'
    OBVIOUS
<1> USE DEF Typed
<1>1. ASSUME NEW known \in BOOLEAN, LoginRefused(known) PROVE Typed'
    <2>1. failures' \in Seq(Failure) /\ Len(failures') <= MaxFailures
        BY <1>1, LoginRefusedTyped
    <2>2. DOMAIN failures \subseteq DOMAIN failures'
        <3>1. PICK f \in Failure : failures' = Append(failures, f)
            BY <1>1, LoginRefusedTyped
        <3>2. failures \in Seq(Failure)
            BY DEF TypeOK
        <3> QED
            BY <3>1, <3>2
    <2>3. UNCHANGED <<aDayAgo, ended, session, page, process, history>>
        BY <1>1 DEF LoginRefused
    <2> QED
        BY <2>1, <2>2, <2>3 DEF TypeOK, LogsBounded, page, process, history
<1>2. ASSUME ADayPasses PROVE Typed'
    <2>1. aDayAgo' \in Nat
        <3>1. aDayAgo \in Nat
            BY DEF TypeOK
        <3>2. aDayAgo' = aDayAgo + 1
            BY <1>2 DEF ADayPasses
        <3> QED
            BY <3>1, <3>2
    <2>2. UNCHANGED <<failures, ended, session, page, process, history>>
        BY <1>2 DEF ADayPasses
    <2> QED
        BY <2>1, <2>2 DEF TypeOK, LogsBounded, page, process, history
<1>3. ASSUME NEW s \in Sessions, SessionSteps(s) PROVE Typed'
    <2>1. CASE SessionOpens(s)
        BY <2>1 DEF SessionOpens, TypeOK, LogsBounded, page, process, history
    <2>2. ASSUME NEW deliberate \in BOOLEAN,
                 SessionEnds(s, deliberate) \/ (RefreshRefused(s) /\ deliberate = FALSE)
          PROVE  Typed'
        <3>1. /\ Len(ended) < MaxEnded
              /\ ended' = Append(ended, [session |-> s, deliberate |-> deliberate])
              /\ session' \in [Sessions -> {"none", "live", "ended"}]
              /\ UNCHANGED <<failures, aDayAgo, page, process, history>>
            BY <2>2 DEF SessionEnds, RefreshRefused, TypeOK
        <3>2. ended' \in Seq(EndedSession) /\ Len(ended') <= MaxEnded
            BY <3>1, EndedGrows
        <3>3. DOMAIN ended \subseteq DOMAIN ended'
            <4>1. PICK x \in EndedSession : ended' = Append(ended, x)
                BY <3>1 DEF EndedSession
            <4>2. ended \in Seq(EndedSession)
                BY DEF TypeOK
            <4> QED
                BY <4>1, <4>2
        <3> QED
            BY <3>1, <3>2, <3>3 DEF TypeOK, LogsBounded, page, process, history
    <2>3. CASE recordLogin(s)
        BY <2>3 DEF recordLogin, TypeOK, LogsBounded, provider, process, history
    <2>4. CASE BrowserReportsLogout(s)
        BY <2>4 DEF BrowserReportsLogout, LogLogoutEvent, TypeOK, LogsBounded, provider, process, history
    <2> QED
        BY <1>3, <2>1, <2>2, <2>3, <2>4 DEF SessionSteps
<1>4. ASSUME NEW w \in Sweeps, SweepSteps(w) PROVE Typed'
    BY <1>4, SweepKeepsTypes
<1>5. ASSUME Restart PROVE Typed'
    <2>1. /\ watermark' = None /\ recordedLogouts' = <<>> /\ sweep' = [w \in Sweeps |-> Idle]
          /\ restarts' = restarts + 1 /\ restarts < MaxRestarts
          /\ UNCHANGED <<failures, aDayAgo, ended, session, failed, loggedIn, loggedOut, unsure, missed>>
        BY <1>5 DEF Restart, provider, page, history
    <2>2. sweep' \in [Sweeps -> Sweep]
        BY <2>1, IdleIsASweep
    <2>3. recordedLogouts' \in Seq(Sessions) /\ Len(recordedLogouts') <= Remembered
        BY <2>1, ConstantsAssumption
    <2>4. restarts' \in 0 .. MaxRestarts
        <3>1. restarts \in 0 .. MaxRestarts
            BY DEF TypeOK
        <3> QED
            BY <2>1, <3>1, Bounds
    <2>5. LogsBounded'
        BY <2>1 DEF LogsBounded, Idle
    <2> QED
        BY <2>1, <2>2, <2>3, <2>4, <2>5 DEF TypeOK
<1>6. ASSUME UNCHANGED vars PROVE Typed'
    BY <1>6 DEF vars, provider, page, process, history, TypeOK, LogsBounded
<1> QED
    BY <1>1, <1>2, <1>3, <1>4, <1>5, <1>6 DEF Next

LEMMA InitTyped == Init => Typed
<1> SUFFICES ASSUME Init PROVE Typed
    OBVIOUS
<1>1. sweep \in [Sweeps -> Sweep]
    BY IdleIsASweep DEF Init
<1>2. LogsBounded
    BY ConstantsAssumption DEF Init, LogsBounded, Idle
<1> QED
    BY <1>1, <1>2, ConstantsAssumption DEF Init, Typed, TypeOK

LEMMA AlwaysTyped == Spec => []Typed
BY InitTyped, NextKeepsTypes, PTL DEF Spec

\* The logs, the rows, the mark, the memory and every sweep keep their types.
THEOREM Typing == Spec => []TypeOK
<1>1. Typed => TypeOK
    BY DEF Typed
<1> QED
    BY <1>1, AlwaysTyped, PTL

-----------------------------------------------------------------------------
(* A refused login is written once.                                        *)

\* Nothing that MarkInv is about is touched, unless a sweep is done writing.
LEMMA MarkUndisturbed ==
    ASSUME MarkInv, UNCHANGED <<failures, failed, watermark, unsure>>,
           \A w \in Sweeps :
              sweep'[w] = sweep[w] \/ sweep'[w].at \notin {"failures", "writing"}
    PROVE  MarkInv'
BY DEF MarkInv, StampsRise, InTheLog, ToWrite, BehindTheMark, FailureWrittenOnce

LEMMA RefusalKeepsMark ==
    ASSUME Typed, MarkInv, NEW known \in BOOLEAN, LoginRefused(known)
    PROVE  MarkInv'
<1>1. /\ UNCHANGED <<failed, watermark, unsure, sweep>>
      /\ failures \in Seq(Failure) /\ \A e \in DOMAIN failures : failures[e].at \in Nat
    BY TheLogs DEF LoginRefused, page, process, history, Typed, TypeOK
<1>2. PICK f \in Failure : failures' = Append(failures, f) /\ f.at >= Newest
    <2>1. PICK at \in {Newest + 1} \union (IF SameInstant THEN {Newest} \ {0} ELSE {}) :
             failures' = Append(failures, [at |-> at, known |-> known])
        BY DEF LoginRefused
    <2>2. PICK f : f = [at |-> at, known |-> known]
        OBVIOUS
    <2>3. Newest \in Nat
        BY LoginRefusedTyped
    <2>4. at \in Nat /\ at >= Newest
        BY <2>1, <2>3
    <2> QED
        BY <2>1, <2>2, <2>4 DEF Failure
<1>3. /\ Len(failures) \in Nat /\ DOMAIN failures = 1 .. Len(failures)
      /\ DOMAIN failures' = 1 .. Len(failures) + 1
      /\ \A e \in DOMAIN failures : failures'[e] = failures[e]
      /\ failures'[Len(failures) + 1] = f /\ f.at \in Nat
    BY <1>1, <1>2 DEF Failure
<1>4. \A e \in DOMAIN failures : failures[e].at <= f.at
    <2> SUFFICES ASSUME NEW e \in DOMAIN failures PROVE failures[e].at <= f.at
        OBVIOUS
    <2>1. failures # <<>> /\ Len(failures) \in DOMAIN failures /\ e <= Len(failures)
        BY <1>1, <1>3
    <2>2. Newest = failures[Len(failures)].at
        BY <2>1 DEF Newest
    <2>3. failures[e].at <= failures[Len(failures)].at
        <3>1. CASE e = Len(failures)
            BY <1>1, <2>1, <3>1
        <3>2. CASE e # Len(failures)
            BY <1>3, <2>1, <3>2 DEF MarkInv, StampsRise
        <3> QED
            BY <3>1, <3>2
    <2> QED
        BY <1>1, <1>2, <1>3, <2>1, <2>2, <2>3
<1>5. StampsRise'
    <2> SUFFICES ASSUME NEW d \in DOMAIN failures', NEW e \in DOMAIN failures', d < e
                 PROVE  failures'[d].at <= failures'[e].at
        BY DEF StampsRise
    <2>1. d \in DOMAIN failures
        BY <1>3
    <2>2. CASE e \in DOMAIN failures
        BY <1>3, <2>1, <2>2 DEF MarkInv, StampsRise
    <2>3. CASE e = Len(failures) + 1
        BY <1>3, <1>4, <2>1, <2>3
    <2> QED
        BY <1>3, <2>2, <2>3
<1>6. InTheLog'
    BY <1>1, <1>3 DEF MarkInv, InTheLog
<1>7. ToWrite'
    BY <1>1, <1>3 DEF MarkInv, ToWrite, Typed, LogsBounded
<1>8. BehindTheMark'
    BY <1>1, <1>3 DEF MarkInv, BehindTheMark, InTheLog
<1> QED
    BY <1>1, <1>5, <1>6, <1>7, <1>8 DEF MarkInv, FailureWrittenOnce

\* The steps of a sweep that move the mark, read the log or write a row.
LEMMA SweepKeepsMark ==
    ASSUME Typed, MarkInv, OneSweep, NEW w \in Sweeps, SweepSteps(w)
    PROVE  MarkInv'
<1>1. \A v \in Sweeps : v = w
    BY DEF OneSweep
<1>2. sweep \in [Sweeps -> Sweep] /\ sweep[w] \in Sweep
    BY DEF Typed, TypeOK
<1>3. /\ \A e \in DOMAIN failures : failures[e].at \in Nat /\ e \in Nat
      /\ DOMAIN failures = 1 .. Len(failures) /\ Len(failures) \in Nat
      /\ failed \in [Events -> Nat]
    BY TheLogs DEF Typed, TypeOK
<1>4. \A e \in Events : failed[e] > 0 => e \in DOMAIN failures
    BY DEF MarkInv, InTheLog
<1>5. CASE SweepStarts(w)
    <2>1. CASE watermark = None
        <3>1. sweep'[w].at = "mark" /\ UNCHANGED <<failures, failed, watermark, unsure>>
            BY <1>2, <1>5, <2>1 DEF SweepStarts, At, provider, page, history, Sweep
        <3> QED
            BY <1>1, <3>1, MarkUndisturbed
    <2>2. CASE watermark # None
        <3>1. /\ sweep'[w].at = "failures" /\ sweep'[w].since = watermark
              /\ UNCHANGED <<failures, failed, watermark, unsure>>
            BY <1>2, <1>5, <2>2 DEF SweepStarts, provider, page, history, Sweep
        <3> QED
            BY <1>1, <2>2, <3>1
               DEF MarkInv, StampsRise, InTheLog, ToWrite, BehindTheMark, FailureWrittenOnce
    <2> QED
        BY <2>1, <2>2
<1>6. CASE MarkRead(w)
    <2>1. /\ sweep'[w].at = "failures" /\ sweep'[w].since = startingPoint
          /\ watermark' = startingPoint /\ UNCHANGED <<failures, failed, unsure>>
        BY <1>2, <1>6 DEF MarkRead, provider, page, history, Sweep
    <2>2. startingPoint # None
        BY StartingPoint, ConstantsAssumption DEF Typed
    <2>3. \A e \in Events : failed[e] > 0 => failures[e].at <= startingPoint
        BY <1>4, StartingPoint DEF Typed
    <2> QED
        BY <1>1, <2>1, <2>2, <2>3
           DEF MarkInv, StampsRise, InTheLog, ToWrite, BehindTheMark, FailureWrittenOnce
<1>7. CASE FailuresRead(w)
    <2>1. /\ sweep'[w].at = "writing" /\ sweep'[w].failures = Fresh(sweep[w].since)
          /\ UNCHANGED <<failures, failed, watermark, unsure>>
        BY <1>2, <1>7 DEF FailuresRead, provider, page, history, Sweep
    <2>2. watermark # None /\ sweep[w].since = watermark /\ watermark \in Nat
        BY <1>7 DEF MarkInv, ToWrite, FailuresRead, Typed, TypeOK
    <2>3. \A e \in Fresh(watermark) : e \in DOMAIN failures /\ failures[e].at > watermark
        BY OnThePage DEF Fresh, Typed
    <2>4. \A e \in Fresh(watermark) : failed[e] > 0 => e \in unsure
        <3>1. \A e \in Fresh(watermark) : e \in Events
            BY <1>3, <2>3, Bounds DEF Typed, LogsBounded, Events
        <3> QED
            BY <1>3, <2>2, <2>3, <3>1 DEF MarkInv, BehindTheMark
    <2>5. \A e \in Fresh(watermark) : failures[e].at >= watermark
        BY <1>3, <2>2, <2>3
    <2>6. ToWrite'
        BY <1>1, <2>1, <2>2, <2>4, <2>5 DEF ToWrite
    <2> QED
        BY <2>1, <2>6 DEF MarkInv, StampsRise, InTheLog, BehindTheMark, FailureWrittenOnce
<1>8. CASE WriteFailure(w)
    <2>1. PICK e : e = OldestFirst(sweep[w].failures)
        OBVIOUS
    <2>2. /\ e \in sweep[w].failures /\ \A d \in sweep[w].failures : e <= d
          /\ e \in DOMAIN failures /\ e \in Events
          /\ \A d \in sweep[w].failures : d \in DOMAIN failures /\ d \in Events
        BY <1>8, <2>1, SweepTyped, TheOldest DEF Typed, LogsBounded, Events, WriteFailure
    <2>3. PICK n \in {0, 1} : failed' = [failed EXCEPT ![e] = @ + n]
        BY <1>8, <2>1 DEF WriteFailure
    <2>4. /\ watermark' = failures[e].at /\ UNCHANGED <<failures, unsure>>
          /\ sweep'[w].at = "writing" /\ sweep'[w].failures = sweep[w].failures \ {e}
        BY <1>2, <1>8, <2>1 DEF WriteFailure, MarkAfter, provider, history, Sweep
    <2>5. /\ \A d \in Events \ {e} : failed'[d] = failed[d]
          /\ failed'[e] = failed[e] + n /\ failed[e] \in Nat
        BY <1>3, <2>2, <2>3
    <2>6. /\ watermark # None /\ watermark \in Nat
          /\ \A d \in sweep[w].failures :
                failures[d].at >= watermark /\ (failed[d] > 0 => d \in unsure)
        BY <1>8 DEF MarkInv, ToWrite, WriteFailure, Typed, TypeOK
    <2>7. \A d \in sweep[w].failures : failures[e].at <= failures[d].at
        <3> SUFFICES ASSUME NEW d \in sweep[w].failures PROVE failures[e].at <= failures[d].at
            OBVIOUS
        <3>1. CASE d = e
            BY <1>3, <2>2, <3>1
        <3>2. CASE d # e
            <4>1. e < d
                BY <1>3, <2>2, <3>2
            <4> QED
                BY <2>2, <4>1 DEF MarkInv, StampsRise
        <3> QED
            BY <3>1, <3>2
    <2>8. ToWrite'
        <3>1. watermark' # None
            BY <1>3, <2>2, <2>4, ConstantsAssumption
        <3>2. \A d \in sweep[w].failures \ {e} :
                 failures[d].at >= watermark' /\ (failed'[d] > 0 => d \in unsure)
            BY <1>3, <2>2, <2>4, <2>5, <2>6, <2>7
        <3> QED
            BY <1>1, <2>4, <3>1, <3>2 DEF ToWrite
    <2>9. BehindTheMark'
        <3> SUFFICES ASSUME NEW d \in Events, failed'[d] > 0, d \notin unsure
                     PROVE  failures[d].at <= failures[e].at
            BY <2>4 DEF BehindTheMark
        <3>1. CASE d = e
            BY <1>3, <2>2, <3>1
        <3>2. CASE d # e
            <4>1. failures[d].at <= watermark /\ d \in DOMAIN failures
                BY <1>4, <2>5, <2>6, <3>2 DEF MarkInv, BehindTheMark
            <4> QED
                BY <1>3, <2>2, <2>6, <4>1
        <3> QED
            BY <3>1, <3>2
    <2>10. FailureWrittenOnce'
        BY <2>2, <2>4, <2>5, <2>6 DEF MarkInv, FailureWrittenOnce
    <2>11. StampsRise' /\ InTheLog'
        BY <2>2, <2>4, <2>5 DEF MarkInv, StampsRise, InTheLog
    <2> QED
        BY <2>8, <2>9, <2>10, <2>11 DEF MarkInv
<1>9. CASE WriteNotAnswered(w)
    <2>1. PICK e : e = OldestFirst(sweep[w].failures)
        OBVIOUS
    <2>2. e \in DOMAIN failures /\ e \in Events
        BY <1>9, <2>1, SweepTyped, TheOldest DEF Typed, LogsBounded, Events, WriteNotAnswered
    <2>3. /\ failed' = [failed EXCEPT ![e] = @ + 1] /\ unsure' = unsure \union {e}
          /\ sweep'[w].at = "sessions" /\ UNCHANGED <<failures, watermark>>
        BY <1>2, <1>9, <2>1 DEF WriteNotAnswered, GivesUpFailures, provider, Idle
    <2>4. \A d \in Events \ {e} : failed'[d] = failed[d]
        BY <1>3, <2>3
    <2>5. StampsRise' /\ InTheLog'
        BY <2>2, <2>3, <2>4 DEF MarkInv, StampsRise, InTheLog
    <2>6. ToWrite'
        BY <1>1, <2>3 DEF ToWrite
    <2>7. BehindTheMark' /\ FailureWrittenOnce'
        BY <2>3, <2>4 DEF MarkInv, BehindTheMark, FailureWrittenOnce
    <2> QED
        BY <2>5, <2>6, <2>7 DEF MarkInv
<1>10. CASE FailuresFail(w) \/ FailuresDone(w) \/ SessionsRead(w) \/ SessionsFail(w)
              \/ WriteLogout(w) \/ SweepEnds(w)
    <2>1. UNCHANGED <<failures, failed, watermark, unsure>>
        BY <1>10 DEF FailuresFail, FailuresDone, SessionsRead, SessionsFail, WriteLogout,
           SweepEnds, provider, page, history
    <2>2. sweep'[w].at \notin {"failures", "writing"}
        <3>1. CASE FailuresFail(w) \/ FailuresDone(w) \/ SessionsFail(w) \/ SweepEnds(w)
            BY <1>2, <3>1 DEF FailuresFail, FailuresDone, SessionsFail, SweepEnds,
               GivesUpFailures, Idle
        <3>2. CASE SessionsRead(w)
            BY <1>2, <3>2 DEF SessionsRead, Sweep
        <3>3. CASE WriteLogout(w)
            BY <1>2, <3>3 DEF WriteLogout, Sweep
        <3> QED
            BY <1>10, <3>1, <3>2, <3>3
    <2> QED
        BY <1>1, <2>1, <2>2, MarkUndisturbed
<1> QED
    BY <1>5, <1>6, <1>7, <1>8, <1>9, <1>10 DEF SweepSteps

LEMMA NextKeepsMark == OneSweep /\ Typed /\ MarkInv /\ [Next]_vars => MarkInv'
<1> SUFFICES ASSUME OneSweep, Typed, MarkInv, [Next]_vars PROVE MarkInv'
    OBVIOUS
<1>1. ASSUME NEW known \in BOOLEAN, LoginRefused(known) PROVE MarkInv'
    BY <1>1, RefusalKeepsMark
<1>2. ASSUME ADayPasses \/ (\E s \in Sessions : SessionSteps(s)) \/ UNCHANGED vars PROVE MarkInv'
    <2>1. UNCHANGED <<failures, failed, watermark, unsure, sweep>>
        BY <1>2 DEF ADayPasses, SessionSteps, SessionOpens, SessionEnds, RefreshRefused,
           recordLogin, BrowserReportsLogout, vars, provider, page, process, history
    <2> QED
        BY <2>1, MarkUndisturbed
<1>3. ASSUME NEW w \in Sweeps, SweepSteps(w) PROVE MarkInv'
    BY <1>3, SweepKeepsMark
<1>4. ASSUME Restart PROVE MarkInv'
    <2>1. /\ watermark' = None /\ \A w \in Sweeps : sweep'[w].at = "idle"
          /\ UNCHANGED <<failures, failed, unsure>>
        BY <1>4 DEF Restart, provider, page, history, Idle
    <2> QED
        BY <2>1 DEF MarkInv, StampsRise, InTheLog, ToWrite, BehindTheMark, FailureWrittenOnce
<1> QED
    BY <1>1, <1>2, <1>3, <1>4 DEF Next

LEMMA InitMark == Init => MarkInv
BY DEF Init, MarkInv, StampsRise, InTheLog, ToWrite, BehindTheMark, FailureWrittenOnce, Idle

LEMMA AlwaysMark == ASSUME OneSweep PROVE Spec => []MarkInv
BY InitMark, InitTyped, NextKeepsTypes, NextKeepsMark, PTL DEF Spec

\* "Ten attempts are ten rows": as long as a sweep is over before the next
\* begins, a refusal has one row through restarts and halves that fail, even
\* when two carry the same stamp, unless a committed write went unanswered.
THEOREM RefusalsAreWrittenOnce == ASSUME OneSweep PROVE Spec => []FailureWrittenOnce
<1>1. MarkInv => FailureWrittenOnce
    BY DEF MarkInv
<1> QED
    BY <1>1, AlwaysMark, PTL

-----------------------------------------------------------------------------
(* Nothing is left behind the mark.                                        *)

\* No stamp is past the newest; an entry with a smaller one came before.
LEMMA StampsInOrder ==
    ASSUME TypeOK, StampsDiffer
    PROVE  /\ Newest \in Nat
           /\ \A e \in DOMAIN failures : failures[e].at <= Newest
           /\ \A d, e \in DOMAIN failures : failures[d].at <= failures[e].at => d <= e
<1>1. /\ DOMAIN failures = 1 .. Len(failures) /\ Len(failures) \in Nat
      /\ \A e \in DOMAIN failures : failures[e].at \in Nat
    BY TheLogs
<1>2. \A d, e \in DOMAIN failures : d < e => failures[d].at < failures[e].at
    BY DEF StampsDiffer
<1>3. \A d, e \in DOMAIN failures : failures[d].at <= failures[e].at => d <= e
    <2> SUFFICES ASSUME NEW d \in DOMAIN failures, NEW e \in DOMAIN failures, e < d
                 PROVE  ~(failures[d].at <= failures[e].at)
        BY <1>1
    <2>1. failures[e].at < failures[d].at
        BY <1>2
    <2>2. failures[d].at \in Nat /\ failures[e].at \in Nat
        BY <1>1
    <2> QED
        BY <2>1, <2>2
<1>4. CASE failures = <<>>
    BY <1>1, <1>3, <1>4 DEF Newest
<1>5. CASE failures # <<>>
    <2>1. Len(failures) \in DOMAIN failures /\ Newest = failures[Len(failures)].at
        <3>1. failures \in Seq(Failure)
            BY DEF TypeOK
        <3>2. Len(failures) \in 1 .. Len(failures)
            BY <1>5, <3>1
        <3> QED
            BY <1>1, <1>5, <3>2 DEF Newest
    <2>2. \A e \in DOMAIN failures : e = Len(failures) \/ e < Len(failures)
        BY <1>1
    <2> QED
        BY <1>1, <1>2, <1>3, <2>1, <2>2
<1> QED
    BY <1>4, <1>5

LEMMA GapUndisturbed ==
    ASSUME GapInv, UNCHANGED <<failures, failed, watermark, aDayAgo>>,
           \A w \in Sweeps : sweep'[w] = sweep[w] \/ sweep'[w].at # "writing"
    PROVE  GapInv'
BY DEF GapInv, StampsDiffer, PastTheMark, NoneSkipped, NoGap, NothingBehindTheMark, Newest

LEMMA RefusalKeepsGap ==
    ASSUME Typed, MarkInv, GapInv, ~SameInstant, NEW known \in BOOLEAN, LoginRefused(known)
    PROVE  GapInv'
<1>1. UNCHANGED <<failed, watermark, sweep, aDayAgo>> /\ failures \in Seq(Failure)
    BY DEF LoginRefused, page, process, history, Typed, TypeOK
<1>2. Newest \in Nat /\ \A e \in DOMAIN failures : failures[e].at <= Newest
    BY StampsInOrder DEF Typed, GapInv
<1>3. PICK f \in Failure : failures' = Append(failures, f) /\ f.at = Newest + 1
    <2>1. failures' = Append(failures, [at |-> Newest + 1, known |-> known])
        BY DEF LoginRefused
    <2>2. PICK f : f = [at |-> Newest + 1, known |-> known]
        OBVIOUS
    <2> QED
        BY <1>2, <2>1, <2>2 DEF Failure
<1>4. /\ Len(failures) \in Nat /\ DOMAIN failures = 1 .. Len(failures)
      /\ DOMAIN failures' = 1 .. Len(failures) + 1 /\ Len(failures') = Len(failures) + 1
      /\ \A e \in DOMAIN failures : failures'[e] = failures[e] /\ failures[e].at \in Nat
      /\ failures'[Len(failures) + 1] = f /\ failures' # <<>>
    <2>1. \A e \in DOMAIN failures : failures[e].at \in Nat
        BY TheLogs DEF Typed
    <2> QED
        BY <1>1, <1>3, <2>1
<1>5. Newest' = Newest + 1
    BY <1>3, <1>4 DEF Newest
<1>6. \A d, e \in DOMAIN failures' : d < e => d \in DOMAIN failures
    BY <1>4
<1>7. StampsDiffer'
    <2>1. \A d, e \in DOMAIN failures' : d < e => failures'[d].at < failures'[e].at
        <3> SUFFICES ASSUME NEW d \in DOMAIN failures', NEW e \in DOMAIN failures', d < e
                     PROVE  failures'[d].at < failures'[e].at
            OBVIOUS
        <3>1. CASE e \in DOMAIN failures
            BY <1>4, <1>6, <3>1 DEF GapInv, StampsDiffer
        <3>2. CASE e = Len(failures) + 1
            <4>1. failures'[d].at <= Newest /\ failures'[d].at \in Nat
                BY <1>2, <1>4, <1>6
            <4> QED
                BY <1>2, <1>3, <1>4, <3>2, <4>1
        <3> QED
            BY <1>4, <3>1, <3>2
    <2>2. aDayAgo \in Nat /\ watermark \in Nat \union {None} /\ aDayAgo <= Newest
          /\ (watermark # None => watermark <= Newest)
        BY DEF Typed, TypeOK, GapInv, StampsDiffer
    <2> QED
        BY <1>1, <1>2, <1>5, <2>1, <2>2 DEF StampsDiffer
<1>8. PastTheMark'
    BY <1>1, <1>4 DEF GapInv, PastTheMark, Typed, LogsBounded
<1>9. NoneSkipped'
    BY <1>1, <1>4, <1>6 DEF GapInv, NoneSkipped, Typed, LogsBounded
<1>10. \A e \in DOMAIN failures' : failed[e] > 0 => e \in DOMAIN failures
    <2>1. DOMAIN failures' \subseteq Events
        BY <1>4, LoginRefusedTyped, Bounds DEF Events
    <2> QED
        BY <2>1 DEF MarkInv, InTheLog
<1>11. NoGap'
    BY <1>1, <1>4, <1>6, <1>10 DEF GapInv, NoGap
<1>12. NothingBehindTheMark'
    <2> SUFFICES ASSUME watermark # None, NEW e \in DOMAIN failures',
                        failures'[e].known, failures'[e].at > aDayAgo,
                        failures'[e].at <= watermark
                 PROVE  failed[e] > 0
        BY <1>1 DEF NothingBehindTheMark
    <2>1. CASE e \in DOMAIN failures
        BY <1>4, <2>1 DEF GapInv, NothingBehindTheMark
    <2>2. CASE e = Len(failures) + 1
        <3>1. watermark \in Nat /\ watermark <= Newest
            BY DEF Typed, TypeOK, GapInv, StampsDiffer
        <3> QED
            BY <1>2, <1>3, <1>4, <2>2, <3>1
    <2> QED
        BY <1>4, <2>1, <2>2
<1> QED
    BY <1>7, <1>8, <1>9, <1>11, <1>12 DEF GapInv

\* Before the oldest of what is to be written, everything of the last day has
\* its row.
LEMMA WrittenBefore ==
    ASSUME Typed, MarkInv, GapInv, NEW w \in Sweeps, sweep[w].at = "writing",
           NEW e \in sweep[w].failures, \A d \in sweep[w].failures : e <= d
    PROVE  \A d \in DOMAIN failures :
              d < e /\ failures[d].known /\ failures[d].at > aDayAgo => failed[d] > 0
<1> SUFFICES ASSUME NEW d \in DOMAIN failures, d < e,
                    failures[d].known, failures[d].at > aDayAgo
             PROVE  failed[d] > 0
    OBVIOUS
<1>1. e \in Nat /\ d \in Nat /\ failures[d].at \in Nat
    BY TheLogs DEF Typed, LogsBounded
<1>2. d \notin sweep[w].failures
    BY <1>1
<1>3. watermark # None /\ watermark \in Nat
    BY DEF MarkInv, ToWrite, Typed, TypeOK
<1>4. failures[d].at <= watermark
    BY <1>1, <1>2, <1>3 DEF GapInv, NoneSkipped
<1> QED
    BY <1>3, <1>4 DEF GapInv, NothingBehindTheMark

LEMMA SweepKeepsGap ==
    ASSUME Typed, MarkInv, GapInv, OneSweep, Batch >= MaxFailures,
           NEW w \in Sweeps, SweepSteps(w)
    PROVE  GapInv'
<1>1. \A v \in Sweeps : v = w
    BY DEF OneSweep
<1>2. sweep \in [Sweeps -> Sweep] /\ sweep[w] \in Sweep
    BY DEF Typed, TypeOK
<1>3. /\ \A e \in DOMAIN failures : failures[e].at \in Nat /\ e \in Nat
      /\ DOMAIN failures = 1 .. Len(failures) /\ Len(failures) \in Nat
      /\ failed \in [Events -> Nat] /\ DOMAIN failures \subseteq Events /\ aDayAgo \in Nat
    <2>1. failed \in [Events -> Nat] /\ aDayAgo \in Nat /\ Len(failures) <= MaxFailures
        BY DEF Typed, TypeOK, LogsBounded
    <2>2. /\ \A e \in DOMAIN failures : failures[e].at \in Nat /\ e \in Nat
          /\ DOMAIN failures = 1 .. Len(failures) /\ Len(failures) \in Nat
        BY TheLogs DEF Typed
    <2> QED
        BY <2>1, <2>2, Bounds DEF Events
<1>4. /\ Newest \in Nat /\ \A e \in DOMAIN failures : failures[e].at <= Newest
      /\ \A d, e \in DOMAIN failures : failures[d].at <= failures[e].at => d <= e
      /\ \A d, e \in DOMAIN failures : d < e => failures[d].at < failures[e].at
    BY StampsInOrder DEF Typed, GapInv, StampsDiffer
<1>5. CASE MarkRead(w)
    <2>1. /\ sweep'[w].at = "failures" /\ watermark' = startingPoint
          /\ UNCHANGED <<failures, failed, aDayAgo>>
        BY <1>2, <1>5 DEF MarkRead, provider, page, Sweep
    <2>2. startingPoint <= Newest
        BY <1>3, <1>4, StartingPoint DEF Typed, GapInv, StampsDiffer
    <2>3. StampsDiffer'
        BY <2>1, <2>2 DEF GapInv, StampsDiffer, Newest
    <2>4. PastTheMark' /\ NoneSkipped' /\ NoGap'
        BY <1>1, <2>1 DEF GapInv, PastTheMark, NoneSkipped, NoGap
    <2>5. NothingBehindTheMark'
        <3> SUFFICES ASSUME NEW e \in DOMAIN failures, failures[e].known,
                            failures[e].at > aDayAgo, failures[e].at <= startingPoint
                     PROVE  failed[e] > 0
            BY <2>1 DEF NothingBehindTheMark
        <3>1. startingPoint \notin {0, aDayAgo}
            BY <1>3
        <3>2. PICK f \in DOMAIN failures : failed[f] > 0 /\ failures[f].at = startingPoint
            BY <3>1, StartingPoint DEF Typed
        <3>3. e = f \/ e < f
            BY <1>3, <1>4, <3>2
        <3> QED
            BY <3>2, <3>3 DEF GapInv, NoGap
    <2> QED
        BY <2>3, <2>4, <2>5 DEF GapInv
<1>6. CASE FailuresRead(w)
    <2>1. /\ sweep'[w].at = "writing" /\ sweep'[w].failures = Fresh(sweep[w].since)
          /\ UNCHANGED <<failures, failed, watermark, aDayAgo>>
        BY <1>2, <1>6 DEF FailuresRead, provider, page, Sweep
    <2>2. watermark # None /\ sweep[w].since = watermark /\ watermark \in Nat
        BY <1>6 DEF MarkInv, ToWrite, FailuresRead, Typed, TypeOK
    <2>3. PageOf(failures) = DOMAIN failures
        <3>1. Len(failures) <= MaxFailures
            BY DEF Typed, LogsBounded
        <3> QED
            BY <1>3, <3>1, Bounds DEF PageOf
    <2>4. Fresh(watermark) = {e \in DOMAIN failures : failures[e].at > watermark}
        BY <2>3 DEF Fresh
    <2>5. PastTheMark' /\ NoneSkipped'
        BY <1>1, <2>1, <2>2, <2>4 DEF PastTheMark, NoneSkipped
    <2> QED
        BY <2>1, <2>5 DEF GapInv, StampsDiffer, NoGap, NothingBehindTheMark, Newest
<1>7. CASE WriteFailure(w) \/ WriteNotAnswered(w)
    <2>1. PICK e : e = OldestFirst(sweep[w].failures)
        OBVIOUS
    <2>2. /\ e \in sweep[w].failures /\ \A d \in sweep[w].failures : e <= d
          /\ e \in DOMAIN failures /\ e \in Events
          /\ \A d \in sweep[w].failures : d \in DOMAIN failures
        BY <1>3, <1>7, <2>1, SweepTyped, TheOldest
           DEF Typed, LogsBounded, WriteFailure, WriteNotAnswered
    <2>3. PICK n \in {0, 1} : failed' = [failed EXCEPT ![e] = @ + n]
                              /\ (n = 0 => ~failures[e].known)
        BY <1>7, <2>1 DEF WriteFailure, WriteNotAnswered
    <2>4. /\ UNCHANGED <<failures, aDayAgo>> /\ sweep[w].at = "writing"
          /\ \A d \in Events \ {e} : failed'[d] = failed[d]
          /\ failed'[e] = failed[e] + n /\ failed[e] \in Nat
        BY <1>3, <1>7, <2>2, <2>3 DEF WriteFailure, WriteNotAnswered, provider
    <2>5. \A d \in DOMAIN failures :
             d < e /\ failures[d].known /\ failures[d].at > aDayAgo => failed[d] > 0
        BY <2>2, <2>4, WrittenBefore
    <2>6. NoGap'
        <3> SUFFICES ASSUME NEW d \in DOMAIN failures, NEW f \in DOMAIN failures,
                            d < f, failed'[f] > 0, failures[d].known, failures[d].at > aDayAgo
                     PROVE  failed'[d] > 0
            BY <2>4 DEF NoGap
        <3>1. CASE f = e
            BY <1>3, <2>4, <2>5, <3>1
        <3>2. CASE f # e
            <4>1. failed[d] > 0
                BY <1>3, <2>4, <3>2 DEF GapInv, NoGap
            <4> QED
                BY <1>3, <2>2, <2>4, <4>1
        <3> QED
            BY <3>1, <3>2
    <2>7. CASE WriteNotAnswered(w)
        <3>1. sweep'[w].at = "sessions" /\ watermark' = watermark
            BY <1>2, <2>7 DEF WriteNotAnswered, GivesUpFailures, Idle
        <3>2. NothingBehindTheMark'
            BY <1>3, <2>2, <2>4, <3>1 DEF GapInv, NothingBehindTheMark
        <3>3. StampsDiffer' /\ PastTheMark' /\ NoneSkipped'
            BY <1>1, <2>4, <3>1 DEF GapInv, StampsDiffer, PastTheMark, NoneSkipped, Newest
        <3> QED
            BY <2>6, <3>2, <3>3 DEF GapInv
    <2>8. CASE WriteFailure(w)
        <3>1. /\ watermark' = failures[e].at
              /\ sweep'[w].at = "writing" /\ sweep'[w].failures = sweep[w].failures \ {e}
            BY <1>2, <2>1, <2>8 DEF WriteFailure, MarkAfter, Sweep
        <3>2. StampsDiffer'
            BY <1>4, <2>2, <2>4, <3>1 DEF GapInv, StampsDiffer, Newest
        <3>3. \A d \in sweep[w].failures \ {e} : e < d
            BY <1>3, <2>2
        <3>4. PastTheMark'
            BY <1>1, <1>3, <1>4, <2>2, <2>4, <3>1, <3>3 DEF PastTheMark
        <3>5. NoneSkipped'
            <4> SUFFICES ASSUME NEW c \in sweep[w].failures \ {e}, NEW d \in DOMAIN failures,
                                d < c, failures[d].at > failures[e].at
                         PROVE  d \in sweep[w].failures \ {e}
                BY <1>1, <2>4, <3>1 DEF NoneSkipped
            <4>1. watermark \in Nat /\ failures[e].at > watermark
                <5>1. watermark # None
                    BY <2>4 DEF MarkInv, ToWrite
                <5> QED
                    BY <2>2, <2>4, <5>1 DEF GapInv, PastTheMark, Typed, TypeOK
            <4>2. failures[d].at > watermark /\ d # e
                BY <1>3, <2>2, <4>1
            <4> QED
                BY <2>4, <4>2 DEF GapInv, NoneSkipped
        <3>6. NothingBehindTheMark'
            <4> SUFFICES ASSUME NEW d \in DOMAIN failures, failures[d].known,
                                failures[d].at > aDayAgo, failures[d].at <= failures[e].at
                         PROVE  failed'[d] > 0
                BY <2>4, <3>1 DEF NothingBehindTheMark
            <4>1. CASE d = e
                BY <2>3, <2>4, <4>1
            <4>2. CASE d # e
                <5>1. d < e
                    BY <1>3, <1>4, <2>2, <4>2
                <5> QED
                    BY <1>3, <2>4, <2>5, <4>2, <5>1
            <4> QED
                BY <4>1, <4>2
        <3> QED
            BY <2>6, <3>2, <3>4, <3>5, <3>6 DEF GapInv
    <2> QED
        BY <1>7, <2>7, <2>8
<1>8. CASE SweepStarts(w) \/ FailuresFail(w) \/ FailuresDone(w) \/ SessionsRead(w)
              \/ SessionsFail(w) \/ WriteLogout(w) \/ SweepEnds(w)
    <2>1. UNCHANGED <<failures, failed, watermark, aDayAgo>>
        BY <1>8 DEF SweepStarts, FailuresFail, FailuresDone, SessionsRead, SessionsFail,
           WriteLogout, SweepEnds, provider, page
    <2>2. sweep'[w].at # "writing"
        <3>1. CASE FailuresFail(w) \/ FailuresDone(w) \/ SessionsFail(w) \/ SweepEnds(w)
            BY <1>2, <3>1 DEF FailuresFail, FailuresDone, SessionsFail, SweepEnds,
               GivesUpFailures, Idle
        <3>2. CASE SessionsRead(w)
            BY <1>2, <3>2 DEF SessionsRead, Sweep
        <3>3. CASE WriteLogout(w)
            BY <1>2, <3>3 DEF WriteLogout, Sweep
        <3>4. CASE SweepStarts(w)
            BY <1>2, <3>4 DEF SweepStarts, At, Sweep
        <3> QED
            BY <1>8, <3>1, <3>2, <3>3, <3>4
    <2> QED
        BY <1>1, <2>1, <2>2, GapUndisturbed
<1> QED
    BY <1>5, <1>6, <1>7, <1>8 DEF SweepSteps

LEMMA NextKeepsGap ==
    ASSUME OneSweep, ~SameInstant, Batch >= MaxFailures
    PROVE  Typed /\ MarkInv /\ GapInv /\ [Next]_vars => GapInv'
<1> SUFFICES ASSUME Typed, MarkInv, GapInv, [Next]_vars PROVE GapInv'
    OBVIOUS
<1>1. ASSUME NEW known \in BOOLEAN, LoginRefused(known) PROVE GapInv'
    BY <1>1, RefusalKeepsGap
<1>2. ASSUME ADayPasses PROVE GapInv'
    <2>1. aDayAgo < Newest /\ aDayAgo' = aDayAgo + 1
          /\ UNCHANGED <<failures, failed, watermark, sweep>>
        BY <1>2 DEF ADayPasses, page, process
    <2>2. /\ Newest \in Nat /\ aDayAgo \in Nat /\ Newest' = Newest
          /\ \A e \in DOMAIN failures : failures[e].at \in Nat
        BY <2>1, StampsInOrder, TheLogs DEF Typed, TypeOK, GapInv, Newest
    <2>3. \A e \in DOMAIN failures : failures[e].at > aDayAgo' => failures[e].at > aDayAgo
        BY <2>1, <2>2
    <2>4. aDayAgo' <= Newest'
        BY <2>1, <2>2
    <2> QED
        BY <2>1, <2>2, <2>3, <2>4
           DEF GapInv, StampsDiffer, PastTheMark, NoneSkipped, NoGap, NothingBehindTheMark
<1>3. ASSUME (\E s \in Sessions : SessionSteps(s)) \/ UNCHANGED vars PROVE GapInv'
    <2>1. UNCHANGED <<failures, failed, watermark, aDayAgo, sweep>>
        BY <1>3 DEF SessionSteps, SessionOpens, SessionEnds, RefreshRefused,
           recordLogin, BrowserReportsLogout, vars, provider, page, process
    <2> QED
        BY <2>1, GapUndisturbed
<1>4. ASSUME NEW w \in Sweeps, SweepSteps(w) PROVE GapInv'
    BY <1>4, SweepKeepsGap
<1>5. ASSUME Restart PROVE GapInv'
    <2>1. /\ watermark' = None /\ \A w \in Sweeps : sweep'[w].at = "idle"
          /\ UNCHANGED <<failures, failed, aDayAgo>>
        BY <1>5 DEF Restart, provider, page, Idle
    <2> QED
        BY <2>1
           DEF GapInv, StampsDiffer, PastTheMark, NoneSkipped, NoGap, NothingBehindTheMark, Newest
<1> QED
    BY <1>1, <1>2, <1>3, <1>4, <1>5 DEF Next

LEMMA InitGap == Init => GapInv
BY DEF Init, GapInv, StampsDiffer, PastTheMark, NoneSkipped, NoGap, NothingBehindTheMark,
       Newest, Idle

\* "The mark only ever moves over a row that was really written": with one
\* sweep at a time, no two refusals in a millisecond and a page that holds the
\* log, a refusal of the last day that is at or behind the mark is on the page,
\* through sweeps that fail half way and restarts that resume from the rows.
THEOREM NothingIsLeftBehind ==
    ASSUME OneSweep, ~SameInstant, Batch >= MaxFailures
    PROVE  Spec => []NothingBehindTheMark
<1>1. GapInv => NothingBehindTheMark
    BY DEF GapInv
<1>2. Spec => []MarkInv
    BY AlwaysMark
<1> QED
    BY <1>1, <1>2, InitGap, AlwaysTyped, NextKeepsGap, PTL DEF Spec

-----------------------------------------------------------------------------
(* A logout keeps its sentence.                                            *)

\* The sentence on a row stays, and nothing that was settled opens again.
RowsStay ==
    /\ missed \subseteq missed'
    /\ \A s \in Sessions : loggedOut[s] # "none" => loggedOut'[s] = loggedOut[s]

\* The log of ended sessions only grows.
EndedStays ==
    /\ Len(ended) <= Len(ended')
    /\ \A i \in DOMAIN ended : i \in DOMAIN ended' /\ ended'[i] = ended[i]

LEMMA SettledStays ==
    ASSUME RowsStay, NEW s \in Sessions, Settled(s) PROVE Settled(s)'
BY DEF RowsStay, Settled

\* What was said rightly is still said rightly.
LEMMA SaidStays ==
    ASSUME Typed, EndedStays, NEW s,
           \E i \in DOMAIN ended :
              /\ ended[i] = [session |-> s, deliberate |-> FALSE]
              /\ \A j \in 1 .. i : ended[j].session = s => ~ended[j].deliberate
    PROVE  \E i \in DOMAIN ended' :
              /\ ended'[i] = [session |-> s, deliberate |-> FALSE]
              /\ \A j \in 1 .. i : ended'[j].session = s => ~ended'[j].deliberate
<1>1. DOMAIN ended = 1 .. Len(ended) /\ Len(ended) \in Nat
    BY TheLogs DEF Typed
<1>2. \A i \in DOMAIN ended : 1 .. i \subseteq DOMAIN ended
    BY <1>1
<1> QED
    BY <1>2 DEF EndedStays

\* Only the provider's log grows, or only a row is reported.
LEMMA SessionKeepsLogout ==
    ASSUME Typed, LogoutInv, NEW s \in Sessions, SessionSteps(s)
    PROVE  LogoutInv'
<1>1. UNCHANGED <<sweep, recordedLogouts, missed>>
    BY DEF SessionSteps, SessionOpens, SessionEnds, RefreshRefused, recordLogin,
       BrowserReportsLogout, process, history
<1>2. /\ loggedOut \in [Sessions -> {"none", "logged out", "ended"}]
      /\ recordedLogouts \in Seq(Sessions) /\ ended \in Seq(EndedSession)
    BY DEF Typed, TypeOK
<1>3. CASE UNCHANGED ended
    <2>1. /\ RowsStay
          /\ \A r \in Sessions : loggedOut'[r] = "ended" => loggedOut[r] = "ended"
        <3>1. loggedOut' \in {loggedOut, LogLogoutEvent(s, "logged out")}
            BY DEF SessionSteps, SessionOpens, SessionEnds, RefreshRefused, recordLogin,
               BrowserReportsLogout, page
        <3> QED
            BY <1>1, <1>2, <3>1 DEF RowsStay, LogLogoutEvent
    <2>2. RememberedAreSettled'
        BY <1>1, <1>2, <2>1, SettledStays, IsIn DEF LogoutInv, RememberedAreSettled
    <2>3. InOrder'
        <3>1. \A i \in DOMAIN ended : ended[i].session \in Sessions
            BY TheLogs DEF Typed
        <3> QED
            BY <1>1, <1>3, <2>1, <3>1, SettledStays DEF LogoutInv, InOrder, Settled
    <2>4. LogoutSaysSo'
        BY <1>1, <1>3, <2>1 DEF LogoutInv, LogoutSaysSo
    <2> QED
        BY <2>2, <2>3, <2>4 DEF LogoutInv
<1>4. CASE ended' # ended
    <2>1. UNCHANGED <<loggedOut, loggedIn, failed>>
        BY <1>4 DEF SessionSteps, SessionOpens, SessionEnds, RefreshRefused, recordLogin,
           BrowserReportsLogout, provider, page
    <2>2. PICK x \in EndedSession : ended' = Append(ended, x)
        <3>1. PICK deliberate \in BOOLEAN :
                 ended' = Append(ended, [session |-> s, deliberate |-> deliberate])
            BY <1>4 DEF SessionSteps, SessionOpens, SessionEnds, RefreshRefused, recordLogin,
               BrowserReportsLogout, provider, page
        <3> QED
            BY <3>1 DEF EndedSession
    <2>3. /\ DOMAIN ended = 1 .. Len(ended) /\ Len(ended) \in Nat
          /\ DOMAIN ended' = 1 .. Len(ended) + 1 /\ Len(ended') = Len(ended) + 1
          /\ \A i \in DOMAIN ended : ended'[i] = ended[i]
        <3>1. ended \in Seq(EndedSession)
            BY <1>2
        <3> QED
            BY <2>2, <3>1
    <2>4. EndedStays
        BY <2>3 DEF EndedStays
    <2>5. RememberedAreSettled'
        BY <1>1, <2>1 DEF LogoutInv, RememberedAreSettled, Settled
    <2>6. InOrder'
        <3> SUFFICES ASSUME NEW w \in Sweeps, sweep[w].at = "logouts"
                     PROVE  /\ sweep[w].sessions \subseteq DOMAIN ended'
                            /\ \A i \in sweep[w].sessions, j \in DOMAIN ended' :
                                  j < i /\ ended'[j].session = ended'[i].session =>
                                     \/ j \in sweep[w].sessions
                                     \/ ended'[i].session \in missed
                                     \/ loggedOut[ended'[i].session] # "none"
            BY <1>1, <2>1 DEF InOrder, Settled
        <3>1. sweep[w].sessions \subseteq DOMAIN ended
            BY DEF LogoutInv, InOrder
        <3>2. \A i \in sweep[w].sessions, j \in DOMAIN ended' : j < i => j \in DOMAIN ended
            BY <2>3, <3>1
        <3> QED
            BY <2>3, <3>1, <3>2 DEF LogoutInv, InOrder, Settled
    <2>7. LogoutSaysSo'
        BY <1>1, <2>1, <2>4, SaidStays DEF LogoutInv, LogoutSaysSo
    <2> QED
        BY <2>5, <2>6, <2>7 DEF LogoutInv
<1> QED
    BY <1>3, <1>4

LEMMA LogoutUndisturbed ==
    ASSUME LogoutInv, UNCHANGED <<ended, loggedOut, recordedLogouts, missed>>,
           \A w \in Sweeps : sweep'[w] = sweep[w] \/ sweep'[w].at # "logouts"
    PROVE  LogoutInv'
BY DEF LogoutInv, RememberedAreSettled, InOrder, LogoutSaysSo, Settled

\* A page that holds the log: what a sweep leaves out is remembered.
LEMMA ReadKeepsLogout ==
    ASSUME Typed, LogoutInv, Batch >= MaxEnded, NEW w \in Sweeps, SessionsRead(w)
    PROVE  LogoutInv'
<1>1. UNCHANGED <<ended, loggedOut, recordedLogouts, missed>>
    BY DEF SessionsRead, provider, page, history
<1>2. PageOf(ended) = DOMAIN ended
    <2>1. Len(ended) <= MaxEnded
        BY DEF Typed, LogsBounded
    <2> QED
        BY <2>1, TheLogs, Bounds DEF PageOf, Typed
<1>3. /\ sweep'[w].at = "logouts"
      /\ sweep'[w].sessions = {i \in DOMAIN ended : ended[i].session \notin ToSet(recordedLogouts)}
      /\ \A v \in Sweeps \ {w} : sweep'[v] = sweep[v]
    BY <1>2 DEF SessionsRead, Typed, TypeOK, Sweep
<1>4. InOrder'
    <2> SUFFICES ASSUME NEW v \in Sweeps, sweep'[v].at = "logouts"
                 PROVE  /\ sweep'[v].sessions \subseteq DOMAIN ended
                        /\ \A i \in sweep'[v].sessions, j \in DOMAIN ended :
                              j < i /\ ended[j].session = ended[i].session =>
                                 j \in sweep'[v].sessions \/ Settled(ended[i].session)
        BY <1>1 DEF InOrder, Settled
    <2>1. CASE v = w
        BY <1>3, <2>1
    <2>2. CASE v # w
        BY <1>3, <2>2 DEF LogoutInv, InOrder
    <2> QED
        BY <2>1, <2>2
<1> QED
    BY <1>1, <1>4 DEF LogoutInv, RememberedAreSettled, LogoutSaysSo, Settled

\* One logout is written, or the write does nothing.
LEMMA WriteKeepsLogout ==
    ASSUME Typed, LogoutInv, NEW w \in Sweeps, WriteLogout(w)
    PROVE  LogoutInv'
<1>1. PICK i : i = OldestFirst(sweep[w].sessions)
    OBVIOUS
<1>2. i \in sweep[w].sessions /\ (\A c \in sweep[w].sessions : i <= c) /\ i \in DOMAIN ended
    BY <1>1, SweepTyped, TheOldest DEF Typed, LogsBounded, WriteLogout
<1>3. PICK s : s = ended[i].session
    OBVIOUS
<1>4. /\ DOMAIN ended = 1 .. Len(ended) /\ Len(ended) \in Nat
      /\ \A j \in DOMAIN ended :
            ended[j] \in EndedSession /\ ended[j].session \in Sessions /\ j \in Nat
      /\ s \in Sessions /\ loggedOut \in [Sessions -> {"none", "logged out", "ended"}]
    BY <1>2, <1>3, TheLogs DEF Typed, TypeOK
<1>5. /\ recordedLogouts' = remember(s) /\ UNCHANGED ended
      /\ \/ /\ loggedOut' = LogLogoutEvent(s, IF ended[i].deliberate THEN "logged out" ELSE "ended")
            /\ missed' = IF loggedOut'[s] = "none" THEN missed \union {s} ELSE missed
         \/ missed' = missed \union {s} /\ UNCHANGED loggedOut
    BY <1>1, <1>3 DEF WriteLogout, provider
<1>6. /\ sweep[w].at = "logouts" /\ sweep'[w].sessions = sweep[w].sessions \ {i}
      /\ \A v \in Sweeps \ {w} : sweep'[v] = sweep[v]
    BY <1>1 DEF WriteLogout, Typed, TypeOK, Sweep
<1>7. RowsStay /\ Settled(s)'
    BY <1>4, <1>5 DEF RowsStay, Settled, LogLogoutEvent
<1>8. RememberedAreSettled'
    <2>1. ToSet(recordedLogouts') \subseteq ToSet(recordedLogouts) \union {s}
        BY <1>4, <1>5, RememberTyped DEF Typed, TypeOK
    <2>2. ToSet(recordedLogouts) \subseteq Sessions
        BY IsIn DEF Typed, TypeOK
    <2> QED
        BY <1>7, <2>1, <2>2, SettledStays DEF LogoutInv, RememberedAreSettled, Settled
<1>9. InOrder'
    <2> SUFFICES ASSUME NEW v \in Sweeps, sweep'[v].at = "logouts"
                 PROVE  /\ sweep'[v].sessions \subseteq DOMAIN ended
                        /\ \A c \in sweep'[v].sessions, j \in DOMAIN ended :
                              j < c /\ ended[j].session = ended[c].session =>
                                 j \in sweep'[v].sessions \/ Settled(ended[c].session)'
        BY <1>5 DEF InOrder, Settled
    <2>1. /\ sweep[v].at = "logouts" /\ sweep[v].sessions \subseteq DOMAIN ended
          /\ sweep'[v].sessions \subseteq sweep[v].sessions
        BY <1>6 DEF LogoutInv, InOrder
    <2>2. ASSUME NEW c \in sweep'[v].sessions, NEW j \in DOMAIN ended,
                 j < c, ended[j].session = ended[c].session
          PROVE  j \in sweep'[v].sessions \/ Settled(ended[c].session)'
        <3>1. j \in sweep[v].sessions \/ Settled(ended[c].session)
            BY <2>1, <2>2 DEF LogoutInv, InOrder
        <3>2. PICK r : r = ended[c].session
            OBVIOUS
        <3>3. r \in Sessions /\ (Settled(r) => Settled(r)')
            BY <1>4, <1>7, <2>1, <3>2, SettledStays
        <3>4. Settled(r) => Settled(ended[c].session)'
            BY <1>5, <3>2, <3>3 DEF Settled
        <3>5. v = w /\ j = i => Settled(ended[c].session)'
            BY <1>3, <1>5, <1>7, <2>2 DEF Settled
        <3> QED
            BY <1>6, <3>1, <3>2, <3>4, <3>5
    <2> QED
        BY <2>1, <2>2
<1>10. LogoutSaysSo'
    <2> SUFFICES ASSUME NEW r \in Sessions \ missed', loggedOut'[r] = "ended"
                 PROVE  \E c \in DOMAIN ended :
                           /\ ended[c] = [session |-> r, deliberate |-> FALSE]
                           /\ \A j \in 1 .. c : ended[j].session = r => ~ended[j].deliberate
        BY <1>5 DEF LogoutSaysSo
    <2>1. r \notin missed
        BY <1>7 DEF RowsStay
    <2>2. CASE loggedOut[r] # "none"
        BY <1>7, <2>1, <2>2 DEF RowsStay, LogoutInv, LogoutSaysSo
    <2>3. CASE loggedOut[r] = "none"
        <3>1. r = s /\ ~ended[i].deliberate
            BY <1>4, <1>5, <2>3 DEF LogLogoutEvent
        <3>2. ended[i] = [session |-> r, deliberate |-> FALSE]
            BY <1>2, <1>3, <1>4, <3>1 DEF EndedSession
        <3>3. \A j \in 1 .. i : ended[j].session = r => ~ended[j].deliberate
            <4> SUFFICES ASSUME NEW j \in 1 .. i, ended[j].session = r PROVE ~ended[j].deliberate
                OBVIOUS
            <4>1. CASE j = i
                BY <3>1, <4>1
            <4>2. CASE j # i
                <5>1. i \in Nat /\ j \in Nat /\ j < i /\ j \in DOMAIN ended
                    <6>1. i \in 1 .. Len(ended)
                        BY <1>2, <1>4
                    <6>2. Len(ended) \in Nat /\ DOMAIN ended = 1 .. Len(ended)
                        BY <1>4
                    <6>3. i \in Nat /\ i <= Len(ended)
                        BY <6>1, <6>2
                    <6>4. j \in Nat /\ j < i /\ j \in 1 .. Len(ended)
                        BY <4>2, <6>2, <6>3
                    <6> QED
                        BY <6>2, <6>3, <6>4
                <5>2. j \notin sweep[w].sessions
                    BY <1>2, <5>1
                <5>3. Settled(r)
                    BY <1>2, <1>3, <1>6, <3>1, <5>1, <5>2 DEF LogoutInv, InOrder
                <5> QED
                    BY <2>1, <2>3, <5>3 DEF Settled
            <4> QED
                BY <4>1, <4>2
        <3> QED
            BY <1>2, <3>2, <3>3
    <2> QED
        BY <2>2, <2>3
<1> QED
    BY <1>8, <1>9, <1>10 DEF LogoutInv

LEMMA NextKeepsLogout ==
    ASSUME Batch >= MaxEnded PROVE Typed /\ LogoutInv /\ [Next]_vars => LogoutInv'
<1> SUFFICES ASSUME Typed, LogoutInv, [Next]_vars PROVE LogoutInv'
    OBVIOUS
<1>1. ASSUME (\E known \in BOOLEAN : LoginRefused(known)) \/ ADayPasses \/ UNCHANGED vars
      PROVE  LogoutInv'
    <2>1. UNCHANGED <<ended, loggedOut, recordedLogouts, missed, sweep>>
        BY <1>1 DEF LoginRefused, ADayPasses, vars, provider, page, process, history
    <2> QED
        BY <2>1, LogoutUndisturbed
<1>2. ASSUME NEW s \in Sessions, SessionSteps(s) PROVE LogoutInv'
    BY <1>2, SessionKeepsLogout
<1>3. ASSUME NEW w \in Sweeps, SweepSteps(w) PROVE LogoutInv'
    <2>1. CASE SessionsRead(w)
        BY <2>1, ReadKeepsLogout
    <2>2. CASE WriteLogout(w)
        BY <2>2, WriteKeepsLogout
    <2>3. CASE ~SessionsRead(w) /\ ~WriteLogout(w)
        <3>1. UNCHANGED <<ended, loggedOut, recordedLogouts, missed>>
            BY <1>3, <2>3 DEF SweepSteps, SweepStarts, MarkRead, FailuresRead, WriteFailure,
               WriteNotAnswered, FailuresFail, FailuresDone, SessionsFail, SweepEnds,
               provider, page, history
        <3>2. sweep \in [Sweeps -> Sweep]
            BY DEF Typed, TypeOK
        <3>3. \A v \in Sweeps \ {w} : sweep'[v] = sweep[v]
            BY <1>3, SweepStep, SweepMoves DEF Typed
        <3>4. sweep'[w].at # "logouts"
            <4>1. CASE SweepStarts(w) \/ MarkRead(w) \/ FailuresRead(w)
                BY <3>2, <4>1 DEF SweepStarts, At, MarkRead, FailuresRead, Sweep
            <4>2. CASE WriteFailure(w)
                BY <3>2, <4>2 DEF WriteFailure, Sweep
            <4>3. CASE WriteNotAnswered(w) \/ FailuresFail(w) \/ FailuresDone(w)
                         \/ SessionsFail(w) \/ SweepEnds(w)
                BY <3>2, <4>3 DEF WriteNotAnswered, FailuresFail, FailuresDone, SessionsFail,
                   SweepEnds, GivesUpFailures, Idle
            <4> QED
                BY <1>3, <2>3, <4>1, <4>2, <4>3 DEF SweepSteps
        <3> QED
            BY <3>1, <3>3, <3>4, LogoutUndisturbed
    <2> QED
        BY <2>1, <2>2, <2>3
<1>4. ASSUME Restart PROVE LogoutInv'
    <2>1. /\ recordedLogouts' = <<>> /\ \A w \in Sweeps : sweep'[w].at = "idle"
          /\ UNCHANGED <<ended, loggedOut, missed>>
        BY <1>4 DEF Restart, provider, page, history, Idle
    <2>2. ToSet(<<>>) = {}
        BY DEF ToSet
    <2> QED
        BY <2>1, <2>2 DEF LogoutInv, RememberedAreSettled, InOrder, LogoutSaysSo
<1> QED
    BY <1>1, <1>2, <1>3, <1>4 DEF Next

LEMMA InitLogout == Init => LogoutInv
<1>1. ToSet(<<>>) = {}
    BY DEF ToSet
<1> QED
    BY <1>1 DEF Init, LogoutInv, RememberedAreSettled, InOrder, LogoutSaysSo, Idle

\* However many sweeps are under way, a page that holds the log keeps a logout
\* from being shown as a session that ran out: the row of a session says
\* "ended" only if a refused refresh of it came before any logout, unless a
\* write about the session did nothing.
THEOREM LogoutKeepsItsSentence == ASSUME Batch >= MaxEnded PROVE Spec => []LogoutSaysSo
<1>1. LogoutInv => LogoutSaysSo
    BY DEF LogoutInv
<1> QED
    BY <1>1, InitLogout, AlwaysTyped, NextKeepsLogout, PTL DEF Spec

=============================================================================

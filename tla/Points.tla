------------------------------- MODULE Points -------------------------------
(***************************************************************************)
(* The points of one organization in one currency: the ledger of           *)
(* dbo.UserPoints, the tally that a trigger derives from it, and the       *)
(* transfers and redemptions that an owner settles.                        *)
(*                                                                         *)
(* A call is one transaction: it reads, inserts, and after an insert the   *)
(* trigger calculates the tally of each row's user from a snapshot of its  *)
(* own.  Nothing is locked but the tally row that is written, until the    *)
(* end of the transaction.                                                 *)
(***************************************************************************)
EXTENDS FiniteSets, Functions, Integers, Sequences

CONSTANTS
    Sessions,       \* calls being served at the same time
    Users,          \* members of the organization
    NoOne,          \* the receiver of a redemption
    Awards,         \* amounts an owner may grant (positive) or take (negative)
    Amounts,        \* amounts a member may ask to send or spend
    Day, Month,     \* lengths in ticks
    DailyLimit,     \* UserTallies.DailyTransferLimit, the same for everybody
    MonthlyLimit,
    Never,          \* a point row that does not expire
    MaxRows,        \* bound: ledger rows
    MaxAsks,        \* bound: transfers and redemptions
    MaxTime         \* bound: ticks

ASSUME ConstantsAssumption ==
    /\ IsFiniteSet(Sessions)
    /\ NoOne \notin Users
    /\ Awards \subseteq Int \ {0} /\ Amounts \subseteq Nat \ {0}
    /\ {Day, Month} \subseteq Nat \ {0}
    /\ {DailyLimit, MonthlyLimit, MaxRows, MaxAsks, MaxTime} \subseteq Nat
    /\ Never > MaxTime

VARIABLES
    clock,
    ledger,     \* dbo.UserPoints, in the order of the commits
    tally,      \* dbo.UserTallies.Amount
    asks,       \* dbo.PointTransfers and dbo.PointRedemptions
    call,       \* what each session is in the middle of
    calm,       \* history: no two transactions have overlapped so far
    talliedAt   \* history: when each tally was last calculated

books == <<ledger, tally, asks>>
history == <<calm, talliedAt>>
vars == <<clock, books, call, history>>

-----------------------------------------------------------------------------
Times == 0 .. MaxTime
NoTally == [amount |-> 0, exists |-> FALSE]

\* "undoes" is the row a reversal is for, and "ask" the settled request.
Row == [of : Users, amount : Int, until : Times \union {Never},
        undoes : 0 .. MaxRows, ask : 0 .. MaxAsks]

NewRow(u, amount, until, undoes, ask) ==
    [of |-> u, amount |-> amount, until |-> until, undoes |-> undoes, ask |-> ask]

\* A redemption is sent to no one.  "done" is Completed or Approved.
Ask == [from : Users, to : Users \union {NoOne}, amount : Amounts,
        status : {"pending", "done", "refused"}, at : Times]

Idle == [op |-> "idle"]

\* Rows inserted, and the sums that the trigger has calculated for them.
PostCall == [op : {"post"}, at : Times, rows : Seq(Row), sums : Seq(Int),
             ask : 0 .. MaxAsks]
AskCall == [op : {"ask"}, new : Ask]
RefuseCall == [op : {"refuse"}, ask : 1 .. MaxAsks]
Calls == {Idle} \union PostCall \union AskCall \union RefuseCall

TypeOK ==
    /\ clock \in Times
    /\ ledger \in Seq(Row) /\ Len(ledger) <= MaxRows
    /\ tally \in [Users -> [amount : Int, exists : BOOLEAN]]
    /\ asks \in Seq(Ask) /\ Len(asks) <= MaxAsks
    /\ call \in [Sessions -> Calls]
    /\ calm \in BOOLEAN /\ talliedAt \in [Users -> Times]

Init ==
    /\ clock = 0
    /\ ledger = <<>> /\ asks = <<>>
    /\ tally = [u \in Users |-> NoTally]
    /\ call = [s \in Sessions |-> Idle]
    /\ calm = TRUE /\ talliedAt = [u \in Users |-> 0]

-----------------------------------------------------------------------------
Starts(s, c) == call[s] = Idle /\ call' = [call EXCEPT ![s] = c]
Ends(s) == call' = [call EXCEPT ![s] = Idle]
Begins == calm' = (calm /\ \A s \in Sessions : call[s] = Idle)

\* The rows of u that have not expired, and their sum.
Counted(rows, u, now) ==
    {i \in DOMAIN rows : rows[i].of = u /\ (rows[i].until = Never \/ rows[i].until >= now)}
Worth(rows, u, now) == SumFunction([i \in Counted(rows, u, now) |-> rows[i].amount])

Tick ==
    /\ clock < MaxTime
    /\ clock' = clock + 1
    /\ UNCHANGED <<books, call, history>>

-----------------------------------------------------------------------------
(* Posting rows: the insert, the trigger for each row, the commit.         *)

Posting(s) == call[s].op = "post"
Posted(s) == Posting(s) /\ Len(call[s].sums) = Len(call[s].rows)

\* Rows in flight, which others do not see, count against the bound.
InFlight == SumFunction([s \in Sessions |-> IF Posting(s) THEN Len(call[s].rows) ELSE 0])

Post(s, rows, ask) ==
    /\ Len(ledger) + InFlight + Len(rows) <= MaxRows
    /\ Starts(s, [op |-> "post", at |-> clock, rows |-> rows, sums |-> <<>>, ask |-> ask])
    /\ Begins
    /\ UNCHANGED <<clock, books, talliedAt>>

\* The users whose tallies the session has written and holds.
Holds(s) == IF Posting(s) THEN {call[s].rows[i].of : i \in DOMAIN call[s].sums} ELSE {}

\* The trigger: one that inserts a tally waits for another that is doing so,
\* one that finds it there sums by its own snapshot and then waits.
calculate_tallies(s) ==
    /\ Posting(s) /\ ~Posted(s)
    /\ LET c == call[s]
           u == c.rows[Len(c.sums) + 1].of
       IN  /\ ~tally[u].exists => \A t \in Sessions \ {s} : u \notin Holds(t)
           /\ call' = [call EXCEPT ![s].sums =
                          Append(@, Worth(ledger \o c.rows, u, c.at))]
    /\ UNCHANGED <<clock, books, history>>

\* Mutant: the request stays pending.
SettledAskStillPending(c) == asks

SettledAsk(c) ==
    IF c.ask = 0 THEN asks
    ELSE [asks EXCEPT ![c.ask].status = "done", ![c.ask].at = c.at]

\* Mutant: the UPDATE has no WHERE, as an earlier version's.
TalliesWithoutWhere(c) ==
    [u \in Users |-> [amount |-> c.sums[Len(c.sums)], exists |-> TRUE]]

Tallies(c) ==
    [u \in Users |->
        IF \E i \in DOMAIN c.rows : c.rows[i].of = u
        THEN [amount |-> c.sums[CHOOSE i \in DOMAIN c.rows : c.rows[i].of = u],
              exists |-> TRUE]
        ELSE tally[u]]

PostCommit(s) ==
    /\ Posted(s)
    /\ LET c == call[s]
       IN  /\ ledger' = ledger \o c.rows
           /\ tally' = Tallies(c)
           /\ asks' = SettledAsk(c)
           /\ talliedAt' = [u \in Users |-> IF u \in Holds(s) THEN c.at ELSE talliedAt[u]]
    /\ Ends(s)
    /\ UNCHANGED <<clock, calm>>

\* An owner gives points, or takes some.
AddUserPoints(s, u, amount, until) ==
    Post(s, <<NewRow(u, amount, until, 0, 0)>>, 0)

\* Mutant: the row is only looked up.
MayReverseAgain(i) == ledger[i].undoes = 0

\* "ReversesUserPointUUID" is unique, so that the insert waits for one that is
\* under way.
MayReverse(i) ==
    /\ ledger[i].undoes = 0
    /\ \A j \in DOMAIN ledger : ledger[j].undoes # i
    /\ \A s \in Sessions : Posting(s) => call[s].rows[1].undoes # i

ReverseUserPoints(s, i) ==
    /\ MayReverse(i)
    /\ Post(s, <<NewRow(ledger[i].of, -ledger[i].amount, Never, i, 0)>>, 0)

-----------------------------------------------------------------------------
(* Asking.                                                                 *)

\* What a member has sent since a moment, by the transfers done.
SentSince(u, moment) ==
    SumFunction([k \in {k \in DOMAIN asks : /\ asks[k].from = u /\ asks[k].to # NoOne
                                            /\ asks[k].status = "done" /\ asks[k].at >= moment}
                    |-> asks[k].amount])

StartOf(length) == (clock \div length) * length

\* Without a tally there is no limit, and no balance either.
CheckPointTransferLimit(u, amount) ==
    /\ SentSince(u, StartOf(Day)) + amount <= DailyLimit
    /\ SentSince(u, StartOf(Month)) + amount <= MonthlyLimit

Affords(u, amount) == tally[u].amount >= amount

\* RequestPointTransfer to another member, RequestPointRedemption to no one.
Request(s, from, to, amount) ==
    /\ to # from
    /\ Affords(from, amount)
    /\ to # NoOne => CheckPointTransferLimit(from, amount)
    /\ Starts(s, [op |-> "ask", new |-> [from |-> from, to |-> to, amount |-> amount,
                                         status |-> "pending", at |-> 0]])
    /\ Begins
    /\ UNCHANGED <<clock, books, talliedAt>>

RequestCommit(s) ==
    /\ call[s].op = "ask" /\ Len(asks) < MaxAsks
    /\ asks' = Append(asks, call[s].new)
    /\ Ends(s)
    /\ UNCHANGED <<clock, ledger, tally, history>>

-----------------------------------------------------------------------------
(* Settling.                                                               *)

\* Mutant: what a member could afford when asking is enough.
CoveredOnceAsked(k) == TRUE

Covered(k) == Affords(asks[k].from, asks[k].amount)

\* A matching pair for a transfer, the deduction alone for a redemption.
RowsOf(k) ==
    LET a == asks[k]
        out == <<NewRow(a.from, -a.amount, Never, 0, k)>>
    IN  IF a.to = NoOne THEN out ELSE out \o <<NewRow(a.to, a.amount, Never, 0, k)>>

\* SettlePointTransfer and SettlePointRedemption, approving.
Approve(s, k) ==
    /\ asks[k].status = "pending"
    /\ Covered(k)
    /\ Post(s, RowsOf(k), k)

\* The same, not approving.  The row is then written by its key.
Reject(s, k) ==
    /\ asks[k].status = "pending"
    /\ Starts(s, [op |-> "refuse", ask |-> k])
    /\ Begins
    /\ UNCHANGED <<clock, books, talliedAt>>

RejectCommit(s) ==
    /\ call[s].op = "refuse"
    /\ asks' = [asks EXCEPT ![call[s].ask].status = "refused"]
    /\ Ends(s)
    /\ UNCHANGED <<clock, ledger, tally, history>>

\* A statement fails, or is the victim of a deadlock: all is undone.
RollsBack(s) ==
    /\ call[s] # Idle
    /\ Ends(s)
    /\ UNCHANGED <<clock, books, history>>

-----------------------------------------------------------------------------
SessionSteps(s) ==
    \/ \E u \in Users, amount \in Awards, until \in {clock, Never} :
          AddUserPoints(s, u, amount, until)
    \/ \E i \in DOMAIN ledger : ReverseUserPoints(s, i)
    \/ calculate_tallies(s) \/ PostCommit(s)
    \/ \E from \in Users, to \in Users \union {NoOne}, amount \in Amounts :
          Request(s, from, to, amount)
    \/ RequestCommit(s)
    \/ \E k \in DOMAIN asks : Approve(s, k) \/ Reject(s, k)
    \/ RejectCommit(s) \/ RollsBack(s)

Next == Tick \/ \E s \in Sessions : SessionSteps(s)

Spec == Init /\ [][Next]_vars

-----------------------------------------------------------------------------
(* Properties.                                                             *)

\* "Two hand-maintained copies of a balance is how they drift apart": until
\* transactions overlap a tally is what its user's rows came to when the last
\* of them was posted.
TallyIsTheLedger ==
    calm => \A u \in Users : tally[u].amount = Worth(ledger, u, talliedAt[u])

RowsFor(k) == {i \in DOMAIN ledger : ledger[i].ask = k}

\* A request moves points if it was approved and then once: until transactions
\* overlap, the ledger holds a request's rows, both sides of them side by side,
\* exactly if its status says that it is done.
SettledOnce ==
    calm => \A k \in DOMAIN asks :
        IF asks[k].status = "done"
        THEN \E i, j \in DOMAIN ledger : RowsFor(k) = i .. j /\ SubSeq(ledger, i, j) = RowsOf(k)
        ELSE RowsFor(k) = {}

\* In any interleaving a row is undone once, and what undoes it stays.
ReversedOnce ==
    \A i, j \in DOMAIN ledger :
        /\ ledger[i].undoes # 0 => ledger[ledger[i].undoes].undoes = 0
        /\ i # j /\ ledger[i].undoes # 0 => ledger[j].undoes # ledger[i].undoes

\* Nothing moves points twice: neither a settlement nor a reversal.
MovedOnce == SettledOnce /\ ReversedOnce

\* "The sender can no longer afford this transfer": until transactions
\* overlap, a settlement takes no more than the rows of the one who pays came
\* to when they were last summed.
SettledWithinWorth ==
    [][calm' => \A k \in DOMAIN asks :
         (asks[k].status # "done" /\ asks'[k].status = "done") =>
            Worth(ledger, asks[k].from, talliedAt[asks[k].from]) >= asks[k].amount]_vars

\* "Most they may send in a day": the transfers done on a day keep within the
\* sender's limit.
DailyLimitKept ==
    \A u \in Users, d \in 0 .. MaxTime \div Day :
        SumFunction([k \in {k \in DOMAIN asks : /\ asks[k].from = u /\ asks[k].to # NoOne
                                                /\ asks[k].status = "done"
                                                /\ asks[k].at \div Day = d}
                        |-> asks[k].amount])
          <= DailyLimit
=============================================================================

---------------------------- MODULE Points_proofs ----------------------------
(***************************************************************************)
(* The ledger, the tallies derived from it and the requests, for any       *)
(* members, calls and bounds: what is posted is undone once in any         *)
(* interleaving; until two transactions overlap, tallies are what the      *)
(* ledger comes to and a request is settled once, within what the payer    *)
(* has.                                                                    *)
(***************************************************************************)
EXTENDS Points, FiniteSetTheorems, WellFoundedInduction, TLAPS

-----------------------------------------------------------------------------
(* The inductive invariant.                                                *)

RowsPosted == Len(ledger) + InFlight <= MaxRows

\* Rows are for requests there are, and undo rows there are.
RefersBack ==
    \A i \in DOMAIN ledger :
        ledger[i].ask \in 0 .. Len(asks) /\ ledger[i].undoes \in 0 .. Len(ledger)

\* What the rows in flight are for; a row that undoes another goes alone.
WellPosted(c) ==
    /\ c.rows # <<>> /\ Len(c.sums) <= Len(c.rows)
    /\ c.ask \in 0 .. Len(asks)
    /\ \A i \in DOMAIN c.rows : c.rows[i].ask = c.ask
    /\ \A i \in DOMAIN c.rows : c.rows[i].undoes # 0 => i = 1 /\ Len(c.rows) = 1

\* The row that is being undone was not undone, and undoes none.
UndoesOne(c) ==
    c.rows[1].undoes # 0 =>
        /\ c.rows[1].undoes \in DOMAIN ledger /\ ledger[c.rows[1].undoes].undoes = 0
        /\ \A j \in DOMAIN ledger : ledger[j].undoes # c.rows[1].undoes

CallsOK ==
    /\ \A s \in Sessions : Posting(s) => WellPosted(call[s]) /\ UndoesOne(call[s])
    /\ \A s \in Sessions : call[s].op = "refuse" => call[s].ask \in DOMAIN asks
    /\ \A s, t \in Sessions : (s # t /\ Posting(s) /\ Posting(t) /\ call[s].rows[1].undoes # 0)
                                => call[t].rows[1].undoes # call[s].rows[1].undoes

LedgerInv == TypeOK /\ RowsPosted /\ RefersBack /\ CallsOK /\ ReversedOnce

\* No one sends to himself.
SentToOthers ==
    /\ \A k \in DOMAIN asks : asks[k].to # asks[k].from
    /\ \A s \in Sessions : call[s].op = "ask" => call[s].new.to # call[s].new.from

\* Until two transactions overlap.
OneCall == \A s, t \in Sessions : s = t \/ call[s] = Idle \/ call[t] = Idle

\* The trigger has summed what the ledger will be, one sum for each user.
SumsAhead(c) ==
    /\ \A i, j \in DOMAIN c.rows : c.rows[i].of = c.rows[j].of => i = j
    /\ \A i \in DOMAIN c.sums : c.sums[i] = Worth(ledger \o c.rows, c.rows[i].of, c.at)

\* The request being settled waits still, and is covered.
SettlesOne(c) ==
    c.ask # 0 => asks[c.ask].status = "pending" /\ c.rows = RowsOf(c.ask) /\ Covered(c.ask)

CalmCalls ==
    /\ OneCall
    /\ \A s \in Sessions : Posting(s) => SumsAhead(call[s]) /\ SettlesOne(call[s])
    /\ \A s \in Sessions : call[s].op = "refuse" => asks[call[s].ask].status = "pending"
    /\ \A s \in Sessions : call[s].op = "ask" => call[s].new.status = "pending"

CalmInv == (calm => CalmCalls) /\ TallyIsTheLedger /\ SettledOnce

-----------------------------------------------------------------------------
(* Sums.  SumFunctionOnSet is a fold over the subsets of its indices, each  *)
(* time of a chosen one; what it comes to does not depend on the choice.    *)

\* Among sets of parts of a finite set one has no part among them.
LEMMA Least ==
    ASSUME NEW S, IsFiniteSet(S), NEW T \in SUBSET (SUBSET S), T # {}
    PROVE  \E D \in T : \A E \in T : E \subseteq D => E = D
<1>1. IsWellFoundedOn(StrictSubsetOrdering(S), SUBSET S)
    BY FS_StrictSubsetOrderingWellFounded, FS_FiniteSubsetsOfFinite
<1>2. PICK D \in T : \A E \in T : <<E, D>> \notin StrictSubsetOrdering(S)
    BY <1>1, WFMin
<1>3. ASSUME NEW E \in T, E \subseteq D, E # D PROVE FALSE
    BY <1>2, <1>3 DEF StrictSubsetOrdering
<1> QED
    BY <1>3

First(s) == CHOOSE x \in s : TRUE
Rest(s) == s \ {First(s)}
Adds(f, g, S) == g = [s \in SUBSET S |-> IF s = {} THEN 0 ELSE f[First(s)] + g[Rest(s)]]

LEMMA RestIsSmaller ==
    ASSUME NEW s, s # {}
    PROVE  First(s) \in s /\ Rest(s) \subseteq s /\ Rest(s) # s
BY DEF First, Rest

\* Whatever adds f up over some indices agrees on the finite sets of them.
LEMMA AddsAgree ==
    ASSUME NEW f, NEW S, NEW T, NEW g, NEW h, Adds(f, g, S), Adds(f, h, T),
           NEW U, U \subseteq S, U \subseteq T, IsFiniteSet(U)
    PROVE  g[U] = h[U]
<1> DEFINE B == {s \in SUBSET U : g[s] # h[s]}
<1>1. ASSUME B # {} PROVE FALSE
    <2>1. PICK D \in B : \A E \in B : E \subseteq D => E = D
        <3> HIDE DEF B
        <3>1. B \in SUBSET (SUBSET U)
            BY DEF B
        <3> QED
            BY <1>1, <3>1, Least
    <2>2. D \subseteq U /\ D \in SUBSET S /\ D \in SUBSET T /\ g[D] # h[D]
        OBVIOUS
    <2>3. /\ g[D] = IF D = {} THEN 0 ELSE f[First(D)] + g[Rest(D)]
          /\ h[D] = IF D = {} THEN 0 ELSE f[First(D)] + h[Rest(D)]
        BY <2>2 DEF Adds
    <2>4. D # {} /\ g[Rest(D)] # h[Rest(D)]
        BY <2>2, <2>3
    <2>5. Rest(D) \in B /\ Rest(D) \subseteq D /\ Rest(D) # D
        BY <2>2, <2>4, RestIsSmaller
    <2> QED
        BY <2>1, <2>5
<1> QED
    BY <1>1

LEMMA AddsExist ==
    ASSUME NEW f, NEW S, IsFiniteSet(S)
    PROVE  \E g : Adds(f, g, S)
<1> DEFINE B == {T \in SUBSET S : ~ \E g : Adds(f, g, T)}
<1>1. ASSUME B # {} PROVE FALSE
    <2>1. PICK D \in B : \A E \in B : E \subseteq D => E = D
        <3> HIDE DEF B
        <3>1. B \in SUBSET (SUBSET S)
            BY DEF B
        <3> QED
            BY <1>1, <3>1, Least
    <2>2. D \subseteq S /\ IsFiniteSet(D) /\ ~ \E g : Adds(f, g, D)
        BY FS_Subset
    <2>3. \A E \in SUBSET D : E # D => \E g : Adds(f, g, E)
        BY <2>1, <2>2
    <2> DEFINE G == [E \in SUBSET D |-> CHOOSE g : Adds(f, g, E)]
    <2>4. \A E \in SUBSET D : E # D => Adds(f, G[E], E)
        BY <2>3
    <2> DEFINE h == [s \in SUBSET D |-> IF s = {} THEN 0 ELSE f[First(s)] + G[Rest(s)][Rest(s)]]
    <2> HIDE DEF G, B
    <2>5. ASSUME NEW s \in SUBSET D, s # {}
          PROVE  h[Rest(s)] = G[Rest(s)][Rest(s)]
        <3>1. Rest(s) \in SUBSET D /\ Rest(s) # D /\ IsFiniteSet(Rest(s))
            BY <2>2, <2>5, RestIsSmaller, FS_Subset
        <3>2. PICK r : r = Rest(s)
            OBVIOUS
        <3>3. Adds(f, G[r], r)
            BY <2>4, <3>1, <3>2
        <3>4. G[r][r] = IF r = {} THEN 0 ELSE f[First(r)] + G[r][Rest(r)]
            BY <3>3 DEF Adds
        <3>5. CASE r = {}
            BY <3>1, <3>2, <3>4, <3>5
        <3>6. CASE r # {}
            <4>1. Rest(r) \subseteq r /\ Rest(r) # r
                BY <3>6, RestIsSmaller
            <4>2. Rest(r) \in SUBSET D /\ Rest(r) # D /\ IsFiniteSet(Rest(r))
                BY <3>1, <3>2, <4>1, FS_Subset
            <4>3. Adds(f, G[Rest(r)], Rest(r))
                BY <2>4, <4>2
            <4>4. G[r][Rest(r)] = G[Rest(r)][Rest(r)]
                BY <3>3, <4>1, <4>2, <4>3, AddsAgree
            <4> QED
                BY <3>1, <3>2, <3>4, <3>6, <4>4
        <3> QED
            BY <3>5, <3>6
    <2>6. h = [s \in SUBSET D |-> IF s = {} THEN 0 ELSE f[First(s)] + h[Rest(s)]]
        <3> DEFINE k == [s \in SUBSET D |-> IF s = {} THEN 0 ELSE f[First(s)] + h[Rest(s)]]
        <3>1. \A s \in SUBSET D : h[s] = k[s]
            BY <2>5
        <3> QED
            BY <3>1
    <2> HIDE DEF h
    <2>7. Adds(f, h, D)
        BY <2>6 DEF Adds
    <2> QED
        BY <2>2, <2>7
<1> QED
    BY <1>1

\* What the fold comes to.
LEMMA SumIsAdded ==
    ASSUME NEW f, NEW S, IsFiniteSet(S)
    PROVE  \E g : Adds(f, g, S) /\ SumFunctionOnSet(f, S) = g[S]
<1>1. PICK g : g = CHOOSE iter : iter = [s \in SUBSET S |->
                      IF s = {} THEN 0 ELSE f[CHOOSE x \in s : TRUE] + iter[s \ {CHOOSE x \in s : TRUE}]]
    OBVIOUS
<1>2. SumFunctionOnSet(f, S) = g[S]
    BY <1>1, Zenon DEF SumFunctionOnSet, FoldFunctionOnSet, MapThenFoldSet
<1>3. \E iter : iter = [s \in SUBSET S |->
                      IF s = {} THEN 0 ELSE f[CHOOSE x \in s : TRUE] + iter[s \ {CHOOSE x \in s : TRUE}]]
    <2>1. PICK k : Adds(f, k, S)
        BY AddsExist
    <2>2. k = [s \in SUBSET S |->
                  IF s = {} THEN 0 ELSE f[CHOOSE x \in s : TRUE] + k[s \ {CHOOSE x \in s : TRUE}]]
        BY <2>1, Zenon DEF Adds, First, Rest
    <2> QED
        BY <2>2, Zenon
<1>4. g = [s \in SUBSET S |->
              IF s = {} THEN 0 ELSE f[CHOOSE x \in s : TRUE] + g[s \ {CHOOSE x \in s : TRUE}]]
    BY <1>1, <1>3, Zenon
<1>5. Adds(f, g, S)
    BY <1>4, Zenon DEF Adds, First, Rest
<1> QED
    BY <1>2, <1>5

LEMMA SumEmpty == ASSUME NEW f PROVE SumFunctionOnSet(f, {}) = 0
<1>1. PICK g : Adds(f, g, {}) /\ SumFunctionOnSet(f, {}) = g[{}]
    BY SumIsAdded, FS_EmptySet
<1> QED
    BY <1>1 DEF Adds

LEMMA SumFirst ==
    ASSUME NEW f, NEW S, IsFiniteSet(S), S # {}
    PROVE  SumFunctionOnSet(f, S) = f[First(S)] + SumFunctionOnSet(f, Rest(S))
<1>1. PICK g : Adds(f, g, S) /\ SumFunctionOnSet(f, S) = g[S]
    BY SumIsAdded
<1>2. First(S) \in S /\ Rest(S) \subseteq S /\ IsFiniteSet(Rest(S))
    BY RestIsSmaller, FS_Subset
<1>3. PICK h : Adds(f, h, Rest(S)) /\ SumFunctionOnSet(f, Rest(S)) = h[Rest(S)]
    BY <1>2, SumIsAdded
<1>4. g[Rest(S)] = h[Rest(S)]
    BY <1>1, <1>2, <1>3, AddsAgree
<1>5. g[S] = f[First(S)] + g[Rest(S)]
    BY <1>1 DEF Adds
<1> QED
    BY <1>1, <1>3, <1>4, <1>5

\* A sum of whole numbers is one, and of numbers from 0 is none below it.
LEMMA SumTyped ==
    ASSUME NEW f, NEW S, IsFiniteSet(S), \A x \in S : f[x] \in Int
    PROVE  SumFunctionOnSet(f, S) \in Int
<1> DEFINE B == {T \in SUBSET S : SumFunctionOnSet(f, T) \notin Int}
<1>1. ASSUME B # {} PROVE FALSE
    <2>1. PICK D \in B : \A E \in B : E \subseteq D => E = D
        <3> HIDE DEF B
        <3>1. B \in SUBSET (SUBSET S)
            BY DEF B
        <3> QED
            BY <1>1, <3>1, Least
    <2>2. D \subseteq S /\ SumFunctionOnSet(f, D) \notin Int /\ IsFiniteSet(D)
        BY FS_Subset
    <2>3. D # {}
        BY <2>2, SumEmpty
    <2>4. First(D) \in D /\ Rest(D) \subseteq D /\ Rest(D) # D
        BY <2>3, RestIsSmaller
    <2>5. SumFunctionOnSet(f, D) = f[First(D)] + SumFunctionOnSet(f, Rest(D))
        BY <2>2, <2>3, SumFirst
    <2>6. SumFunctionOnSet(f, Rest(D)) \in Int
        BY <2>1, <2>2, <2>4
    <2> QED
        BY <2>2, <2>4, <2>5, <2>6
<1> QED
    BY <1>1

\* Any of the indices may be taken out first.
LEMMA SumAny ==
    ASSUME NEW f, NEW S, IsFiniteSet(S), \A x \in S : f[x] \in Int, NEW y \in S
    PROVE  SumFunctionOnSet(f, S) = f[y] + SumFunctionOnSet(f, S \ {y})
<1> DEFINE B == {T \in SUBSET S : \E x \in T :
                    SumFunctionOnSet(f, T) # f[x] + SumFunctionOnSet(f, T \ {x})}
<1>1. ASSUME B # {} PROVE FALSE
    <2>1. PICK D \in B : \A E \in B : E \subseteq D => E = D
        <3> HIDE DEF B
        <3>1. B \in SUBSET (SUBSET S)
            BY DEF B
        <3> QED
            BY <1>1, <3>1, Least
    <2>2. PICK x \in D : SumFunctionOnSet(f, D) # f[x] + SumFunctionOnSet(f, D \ {x})
        OBVIOUS
    <2>3. D \subseteq S /\ IsFiniteSet(D)
        BY FS_Subset
    <2>4. PICK c : c = First(D)
        OBVIOUS
    <2>5. c \in D /\ Rest(D) = D \ {c} /\ SumFunctionOnSet(f, D) = f[c] + SumFunctionOnSet(f, D \ {c})
        BY <2>3, <2>4, RestIsSmaller, SumFirst DEF Rest
    <2>6. x # c
        BY <2>2, <2>5
    <2> HIDE DEF B
    <2>7. \A E \in SUBSET D : E # D => \A z \in E :
              SumFunctionOnSet(f, E) = f[z] + SumFunctionOnSet(f, E \ {z})
        BY <2>1, <2>3 DEF B
    <2>8. SumFunctionOnSet(f, D \ {c}) = f[x] + SumFunctionOnSet(f, (D \ {c}) \ {x})
        BY <2>5, <2>6, <2>7
    <2>9. SumFunctionOnSet(f, D \ {x}) = f[c] + SumFunctionOnSet(f, (D \ {x}) \ {c})
        BY <2>5, <2>6, <2>7
    <2>10. (D \ {c}) \ {x} = (D \ {x}) \ {c}
        OBVIOUS
    <2>11. f[x] \in Int /\ f[c] \in Int /\ SumFunctionOnSet(f, (D \ {c}) \ {x}) \in Int
        <3>1. IsFiniteSet((D \ {c}) \ {x}) /\ (D \ {c}) \ {x} \subseteq S
            BY <2>3, FS_Subset
        <3> QED
            BY <2>3, <2>5, <3>1, SumTyped
    <2> DEFINE rest == SumFunctionOnSet(f, (D \ {c}) \ {x})
    <2>12. SumFunctionOnSet(f, D) = f[c] + (f[x] + rest)
        BY <2>5, <2>8
    <2>13. SumFunctionOnSet(f, D \ {x}) = f[c] + rest
        BY <2>9, <2>10
    <2>14. f[c] + (f[x] + rest) = f[x] + (f[c] + rest)
        BY <2>11
    <2> QED
        BY <2>2, <2>12, <2>13, <2>14
<1> QED
    BY <1>1

\* Two functions with the same values have the same sum.
LEMMA SumSame ==
    ASSUME NEW f, NEW g, NEW S, IsFiniteSet(S), \A x \in S : f[x] = g[x]
    PROVE  SumFunctionOnSet(f, S) = SumFunctionOnSet(g, S)
<1> DEFINE B == {T \in SUBSET S : SumFunctionOnSet(f, T) # SumFunctionOnSet(g, T)}
<1>1. ASSUME B # {} PROVE FALSE
    <2>1. PICK D \in B : \A E \in B : E \subseteq D => E = D
        <3> HIDE DEF B
        <3>1. B \in SUBSET (SUBSET S)
            BY DEF B
        <3> QED
            BY <1>1, <3>1, Least
    <2>2. D \subseteq S /\ SumFunctionOnSet(f, D) # SumFunctionOnSet(g, D) /\ IsFiniteSet(D)
        BY FS_Subset
    <2>3. D # {}
        BY <2>2, SumEmpty
    <2>4. First(D) \in D /\ Rest(D) \subseteq D /\ Rest(D) # D
        BY <2>3, RestIsSmaller
    <2>5. /\ SumFunctionOnSet(f, D) = f[First(D)] + SumFunctionOnSet(f, Rest(D))
          /\ SumFunctionOnSet(g, D) = g[First(D)] + SumFunctionOnSet(g, Rest(D))
        BY <2>2, <2>3, SumFirst
    <2>6. SumFunctionOnSet(f, Rest(D)) = SumFunctionOnSet(g, Rest(D))
        BY <2>1, <2>2, <2>4
    <2> QED
        BY <2>2, <2>4, <2>5, <2>6
<1> QED
    BY <1>1

LEMMA SumFromZero ==
    ASSUME NEW f, NEW S, IsFiniteSet(S), \A x \in S : f[x] \in Nat
    PROVE  SumFunctionOnSet(f, S) \in Nat
<1> DEFINE B == {T \in SUBSET S : SumFunctionOnSet(f, T) \notin Nat}
<1>1. ASSUME B # {} PROVE FALSE
    <2>1. PICK D \in B : \A E \in B : E \subseteq D => E = D
        <3> HIDE DEF B
        <3>1. B \in SUBSET (SUBSET S)
            BY DEF B
        <3> QED
            BY <1>1, <3>1, Least
    <2>2. D \subseteq S /\ SumFunctionOnSet(f, D) \notin Nat /\ IsFiniteSet(D)
        BY FS_Subset
    <2>3. D # {}
        BY <2>2, SumEmpty
    <2>4. First(D) \in D /\ Rest(D) \subseteq D /\ Rest(D) # D
        BY <2>3, RestIsSmaller
    <2>5. SumFunctionOnSet(f, D) = f[First(D)] + SumFunctionOnSet(f, Rest(D))
        BY <2>2, <2>3, SumFirst
    <2>6. SumFunctionOnSet(f, Rest(D)) \in Nat
        BY <2>1, <2>2, <2>4
    <2> QED
        BY <2>2, <2>4, <2>5, <2>6
<1> QED
    BY <1>1

LEMMA SumOfNothing ==
    ASSUME NEW f, NEW S, IsFiniteSet(S), \A x \in S : f[x] = 0
    PROVE  SumFunctionOnSet(f, S) = 0
<1> DEFINE B == {T \in SUBSET S : SumFunctionOnSet(f, T) # 0}
<1>1. ASSUME B # {} PROVE FALSE
    <2>1. PICK D \in B : \A E \in B : E \subseteq D => E = D
        <3> HIDE DEF B
        <3>1. B \in SUBSET (SUBSET S)
            BY DEF B
        <3> QED
            BY <1>1, <3>1, Least
    <2>2. D \subseteq S /\ SumFunctionOnSet(f, D) # 0 /\ IsFiniteSet(D)
        BY FS_Subset
    <2>3. D # {}
        BY <2>2, SumEmpty
    <2>4. First(D) \in D /\ Rest(D) \subseteq D /\ Rest(D) # D
        BY <2>3, RestIsSmaller
    <2>5. SumFunctionOnSet(f, D) = f[First(D)] + SumFunctionOnSet(f, Rest(D))
        BY <2>2, <2>3, SumFirst
    <2>6. SumFunctionOnSet(f, Rest(D)) = 0
        BY <2>1, <2>2, <2>4
    <2> QED
        BY <2>2, <2>4, <2>5, <2>6
<1> QED
    BY <1>1

\* With one value changed the sum changes by as much.
LEMMA SumChanges ==
    ASSUME NEW f, NEW g, NEW S, IsFiniteSet(S), \A x \in S : f[x] \in Int /\ g[x] \in Int,
           NEW y \in S, \A x \in S : x # y => f[x] = g[x]
    PROVE  /\ SumFunctionOnSet(f, S) \in Int /\ SumFunctionOnSet(g, S) \in Int
           /\ SumFunctionOnSet(g, S) = SumFunctionOnSet(f, S) + (g[y] - f[y])
<1>1. IsFiniteSet(S \ {y}) /\ S \ {y} \subseteq S
    BY FS_Subset
<1>2. SumFunctionOnSet(f, S \ {y}) = SumFunctionOnSet(g, S \ {y})
    BY <1>1, SumSame
<1>3. SumFunctionOnSet(f, S \ {y}) \in Int
    BY <1>1, SumTyped
<1>4. SumFunctionOnSet(f, S) = f[y] + SumFunctionOnSet(f, S \ {y})
    BY SumAny
<1>5. SumFunctionOnSet(g, S) = g[y] + SumFunctionOnSet(f, S \ {y})
    BY <1>2, SumAny
<1>6. f[y] \in Int /\ g[y] \in Int
    OBVIOUS
<1> QED
    BY <1>3, <1>4, <1>5, <1>6

-----------------------------------------------------------------------------
(* Worth, and the rows in flight.                                          *)

LEMMA CountedRows ==
    ASSUME NEW rows \in Seq(Row), NEW u, NEW now
    PROVE  Counted(rows, u, now) \subseteq DOMAIN rows /\ IsFiniteSet(Counted(rows, u, now))
<1>1. Counted(rows, u, now) \subseteq 1 .. Len(rows)
    BY DEF Counted
<1> QED
    BY <1>1, FS_Interval, FS_Subset

LEMMA WorthTyped ==
    ASSUME NEW rows \in Seq(Row), NEW u, NEW now
    PROVE  Worth(rows, u, now) \in Int
<1> DEFINE f == [i \in Counted(rows, u, now) |-> rows[i].amount]
<1>1. ASSUME NEW i \in Counted(rows, u, now) PROVE f[i] \in Int
    <2>1. rows[i] \in Row
        BY CountedRows
    <2> QED
        BY <2>1 DEF Row
<1>2. SumFunctionOnSet(f, Counted(rows, u, now)) \in Int
    BY <1>1, CountedRows, SumTyped
<1> QED
    BY <1>2 DEF Worth, SumFunction

\* The rows of others change nothing.
LEMMA WorthWithOthers ==
    ASSUME NEW rows \in Seq(Row), NEW more \in Seq(Row), NEW u, NEW now,
           \A i \in DOMAIN more : more[i].of # u
    PROVE  Worth(rows \o more, u, now) = Worth(rows, u, now)
<1>1. Counted(rows \o more, u, now) = Counted(rows, u, now)
    <2>1. ASSUME NEW i \in Counted(rows \o more, u, now) PROVE i \in Counted(rows, u, now)
        <3>1. i \in 1 .. Len(rows) + Len(more) /\ (rows \o more)[i].of = u
            BY DEF Counted
        <3>2. ASSUME i > Len(rows) PROVE FALSE
            <4>1. i - Len(rows) \in DOMAIN more /\ (rows \o more)[i] = more[i - Len(rows)]
                BY <3>1, <3>2
            <4> QED
                BY <3>1, <4>1
        <3>3. i \in DOMAIN rows /\ (rows \o more)[i] = rows[i]
            BY <3>1, <3>2
        <3> QED
            BY <3>3 DEF Counted
    <2>2. ASSUME NEW i \in Counted(rows, u, now) PROVE i \in Counted(rows \o more, u, now)
        <3>1. i \in DOMAIN rows /\ i \in DOMAIN (rows \o more) /\ (rows \o more)[i] = rows[i]
            BY DEF Counted
        <3> QED
            BY <3>1 DEF Counted
    <2> QED
        BY <2>1, <2>2
<1>2. ASSUME NEW i \in Counted(rows, u, now) PROVE (rows \o more)[i] = rows[i]
    BY CountedRows
<1>3. [i \in Counted(rows \o more, u, now) |-> (rows \o more)[i].amount]
        = [i \in Counted(rows, u, now) |-> rows[i].amount]
    BY <1>1, <1>2
<1> QED
    BY <1>3 DEF Worth

\* Rows in flight, by what the sessions are in the middle of.
Weight(c) == IF c.op = "post" THEN Len(c.rows) ELSE 0
Weights == [s \in Sessions |-> Weight(call[s])]

LEMMA InFlightIsWeight ==
    /\ InFlight = SumFunctionOnSet(Weights, Sessions)
    /\ InFlight' = SumFunctionOnSet(Weights', Sessions)
<1>1. Weights = [s \in Sessions |-> IF Posting(s) THEN Len(call[s].rows) ELSE 0]
    BY DEF Weights, Weight, Posting
<1>2. Weights' = [s \in Sessions |-> IF Posting(s)' THEN Len(call'[s].rows) ELSE 0]
    BY DEF Weights, Weight, Posting
<1> QED
    BY <1>1, <1>2 DEF InFlight, SumFunction, Weights

-----------------------------------------------------------------------------
(* Types.                                                                  *)

LEMMA Bounds ==
    /\ IsFiniteSet(Sessions) /\ MaxRows \in Nat /\ MaxAsks \in Nat /\ MaxTime \in Nat
    /\ Awards \subseteq Int /\ Amounts \subseteq Int /\ Amounts \subseteq Nat
    /\ 0 \in Times /\ Times \subseteq Nat
BY ConstantsAssumption DEF Times

LEMMA NewRowTyped ==
    ASSUME NEW u \in Users, NEW amount \in Int, NEW until \in Times \union {Never},
           NEW undoes \in 0 .. MaxRows, NEW ask \in 0 .. MaxAsks,
           NEW r, r = NewRow(u, amount, until, undoes, ask)
    PROVE  r \in Row /\ r.of = u /\ r.undoes = undoes /\ r.ask = ask
BY DEF NewRow, Row

LEMMA CallTyped ==
    ASSUME NEW c \in Calls
    PROVE  /\ c.op = "post" => c \in PostCall
           /\ c.op = "ask" => c \in AskCall
           /\ c.op = "refuse" => c \in RefuseCall
           /\ c = Idle <=> c.op = "idle"
           /\ Idle \in Calls /\ Idle.op = "idle"
BY DEF Calls, PostCall, AskCall, RefuseCall, Idle

LEMMA PostTyped ==
    ASSUME NEW c \in Calls, c.op = "post"
    PROVE  /\ c \in PostCall /\ c.rows \in Seq(Row) /\ c.sums \in Seq(Int)
           /\ c.at \in Times /\ c.ask \in 0 .. MaxAsks
           /\ Len(c.rows) \in Nat /\ Len(c.sums) \in Nat
           /\ c.rows # <<>> => 1 \in DOMAIN c.rows
<1>1. c \in PostCall
    BY CallTyped
<1>2. c.rows \in Seq(Row) /\ c.sums \in Seq(Int) /\ c.at \in Times /\ c.ask \in 0 .. MaxAsks
    BY <1>1 DEF PostCall
<1> QED
    BY <1>1, <1>2

LEMMA Weighed == ASSUME NEW c \in Calls PROVE Weight(c) \in Nat
BY PostTyped DEF Weight

LEMMA InFlightTyped == ASSUME TypeOK PROVE InFlight \in Nat
<1>1. \A s \in Sessions : Weights[s] \in Nat
    BY Weighed DEF TypeOK, Weights
<1> QED
    BY <1>1, Bounds, SumFromZero, InFlightIsWeight

\* A session goes on to be in the middle of c.
LEMMA CallMoves ==
    ASSUME TypeOK, NEW s \in Sessions, NEW c \in Calls, call' = [call EXCEPT ![s] = c]
    PROVE  /\ call' \in [Sessions -> Calls] /\ call'[s] = c
           /\ \A t \in Sessions : t # s => call'[t] = call[t]
           /\ InFlight \in Nat /\ InFlight' \in Nat
           /\ InFlight' = InFlight + (Weight(c) - Weight(call[s]))
<1>1. /\ call' \in [Sessions -> Calls] /\ call'[s] = c
      /\ \A t \in Sessions : t # s => call'[t] = call[t]
    BY DEF TypeOK
<1>2. PICK f : f = Weights
    OBVIOUS
<1>3. PICK g : g = Weights'
    OBVIOUS
<1>4. /\ \A t \in Sessions : f[t] = Weight(call[t]) /\ f[t] \in Nat
      /\ \A t \in Sessions : g[t] = Weight(call'[t]) /\ g[t] \in Nat
    BY <1>1, <1>2, <1>3, Weighed DEF TypeOK, Weights
<1>5. InFlight = SumFunctionOnSet(f, Sessions) /\ InFlight' = SumFunctionOnSet(g, Sessions)
    BY <1>2, <1>3, InFlightIsWeight
<1>6. SumFunctionOnSet(g, Sessions) = SumFunctionOnSet(f, Sessions) + (g[s] - f[s])
    <2>1. \A t \in Sessions : f[t] \in Int /\ g[t] \in Int
        BY <1>4
    <2>2. \A t \in Sessions : t # s => f[t] = g[t]
        BY <1>1, <1>4
    <2> QED
        BY <2>1, <2>2, Bounds, SumChanges
<1>7. SumFunctionOnSet(f, Sessions) \in Nat /\ SumFunctionOnSet(g, Sessions) \in Nat
    BY <1>4, Bounds, SumFromZero
<1> QED
    BY <1>1, <1>4, <1>5, <1>6, <1>7

\* Without a post the rows in flight are as they were.
LEMMA CallPasses ==
    ASSUME TypeOK, NEW s \in Sessions, NEW c \in Calls, call' = [call EXCEPT ![s] = c],
           c.op # "post"
    PROVE  InFlight' <= InFlight /\ (~Posting(s) => InFlight' = InFlight)
<1>1. call[s] \in Calls
    BY DEF TypeOK
<1>2. Weight(c) = 0 /\ Weight(call[s]) \in Nat /\ (~Posting(s) => Weight(call[s]) = 0)
    BY <1>1, Weighed DEF Weight, Posting
<1>3. InFlight \in Nat /\ InFlight' = InFlight + (Weight(c) - Weight(call[s]))
    BY CallMoves
<1> QED
    BY <1>2, <1>3

LEMMA AskTyped ==
    ASSUME TypeOK, NEW k \in DOMAIN asks
    PROVE  /\ asks[k] \in Ask /\ asks[k].from \in Users /\ asks[k].to \in Users \union {NoOne}
           /\ asks[k].amount \in Amounts /\ asks[k].amount \in Int /\ -asks[k].amount \in Int
           /\ k \in 1 .. Len(asks) /\ k \in 1 .. MaxAsks /\ Len(asks) \in Nat
<1>1. asks[k] \in Ask /\ k \in 1 .. Len(asks) /\ Len(asks) \in Nat /\ Len(asks) <= MaxAsks
    BY DEF TypeOK
<1>2. asks[k].amount \in Amounts /\ asks[k].from \in Users /\ asks[k].to \in Users \union {NoOne}
    BY <1>1 DEF Ask
<1>3. \A n \in Nat : n \in Int /\ -n \in Int
    OBVIOUS
<1>4. MaxAsks \in Nat /\ asks[k].amount \in Nat
    BY <1>2, Bounds
<1> QED
    BY <1>1, <1>2, <1>3, <1>4

\* What an approved request posts.
LEMMA RowsOfTyped ==
    ASSUME TypeOK, NEW k \in DOMAIN asks
    PROVE  /\ RowsOf(k) \in Seq(Row) /\ RowsOf(k) # <<>> /\ Len(RowsOf(k)) \in 1 .. 2
           /\ \A i \in DOMAIN RowsOf(k) : RowsOf(k)[i].ask = k /\ RowsOf(k)[i].undoes = 0
           /\ RowsOf(k)[1].of = asks[k].from
           /\ Len(RowsOf(k)) = 2 => RowsOf(k)[2].of = asks[k].to /\ asks[k].to # NoOne
<1>1. PICK a : a = asks[k]
    OBVIOUS
<1>2. /\ a.from \in Users /\ -a.amount \in Int /\ a.amount \in Int /\ k \in 0 .. MaxAsks
      /\ Never \in Times \union {Never} /\ 0 \in 0 .. MaxRows
    BY <1>1, AskTyped, Bounds
<1>3. PICK r : r = NewRow(a.from, -a.amount, Never, 0, k)
    OBVIOUS
<1>4. r \in Row /\ r.ask = k /\ r.undoes = 0 /\ r.of = a.from
    BY <1>2, <1>3 DEF NewRow, Row
<1>5. CASE a.to = NoOne
    <2>1. RowsOf(k) = <<r>>
        BY <1>1, <1>3, <1>5 DEF RowsOf
    <2> QED
        BY <1>1, <1>4, <2>1
<1>6. CASE a.to # NoOne
    <2>1. PICK q : q = NewRow(a.to, a.amount, Never, 0, k)
        OBVIOUS
    <2>2. q \in Row /\ q.ask = k /\ q.undoes = 0 /\ q.of = a.to
        BY <1>1, <1>2, <1>6, <2>1, AskTyped DEF NewRow, Row
    <2>3. RowsOf(k) = <<r>> \o <<q>>
        BY <1>1, <1>3, <1>6, <2>1 DEF RowsOf
    <2>4. /\ RowsOf(k) \in Seq(Row) /\ Len(RowsOf(k)) = 2
          /\ RowsOf(k)[1] = r /\ RowsOf(k)[2] = q
        BY <1>4, <2>2, <2>3
    <2> QED
        BY <1>1, <1>4, <1>6, <2>2, <2>4
<1> QED
    BY <1>5, <1>6

-----------------------------------------------------------------------------
(* In any interleaving: a row is undone once.                              *)

\* A session goes on to be in the middle of c, which fits the ledger and the
\* other calls; requests may be added.
LEMMA CallFits ==
    ASSUME LedgerInv, NEW s \in Sessions, NEW c \in Calls, call' = [call EXCEPT ![s] = c],
           ledger' = ledger, asks' \in Seq(Ask), Len(asks) <= Len(asks'),
           c.op = "post" => /\ WellPosted(c) /\ UndoesOne(c)
                            /\ \A t \in Sessions : (t # s /\ Posting(t) /\ c.rows[1].undoes # 0)
                                 => call[t].rows[1].undoes # c.rows[1].undoes,
           c.op = "refuse" => c.ask \in DOMAIN asks
    PROVE  CallsOK' /\ RefersBack' /\ ReversedOnce'
<1>1. /\ call' \in [Sessions -> Calls] /\ call'[s] = c
      /\ \A t \in Sessions : t # s => call'[t] = call[t]
    BY CallMoves DEF LedgerInv
<1>2. /\ asks \in Seq(Ask) /\ DOMAIN asks = 1 .. Len(asks) /\ Len(asks) \in Nat
      /\ \A n \in 0 .. Len(asks) : n \in 0 .. Len(asks')
    BY DEF LedgerInv, TypeOK
<1>3. ASSUME NEW d, WellPosted(d) PROVE WellPosted(d)'
    BY <1>2, <1>3 DEF WellPosted
<1>4. ASSUME NEW d, UndoesOne(d) PROVE UndoesOne(d)'
    BY <1>4 DEF UndoesOne
<1>5. ASSUME NEW t \in Sessions, Posting(t)' PROVE (WellPosted(call[t]) /\ UndoesOne(call[t]))'
    <2>1. PICK d : d = call'[t]
        OBVIOUS
    <2>2. WellPosted(d) /\ UndoesOne(d)
        <3>1. CASE t = s
            BY <1>1, <1>5, <2>1, <3>1 DEF Posting
        <3>2. CASE t # s
            BY <1>1, <1>5, <2>1, <3>2 DEF Posting, LedgerInv, CallsOK
        <3> QED
            BY <3>1, <3>2
    <2> QED
        BY <1>3, <1>4, <2>1, <2>2 DEF WellPosted, UndoesOne
<1>6. ASSUME NEW t \in Sessions, call'[t].op = "refuse" PROVE call'[t].ask \in DOMAIN asks
    BY <1>1, <1>6 DEF LedgerInv, CallsOK
<1>7. ASSUME NEW t \in Sessions, NEW u \in Sessions, t # u, Posting(t)', Posting(u)',
             call'[t].rows[1].undoes # 0
      PROVE  call'[u].rows[1].undoes # call'[t].rows[1].undoes
    <2>1. CASE t # s /\ u # s
        BY <1>1, <1>7, <2>1 DEF Posting, LedgerInv, CallsOK
    <2>2. CASE t = s
        BY <1>1, <1>7, <2>2 DEF Posting
    <2>3. CASE u = s
        BY <1>1, <1>7, <2>3 DEF Posting
    <2> QED
        BY <2>1, <2>2, <2>3
<1>8. RefersBack' /\ ReversedOnce'
    BY <1>2 DEF LedgerInv, RefersBack, ReversedOnce
<1>9. DOMAIN asks \subseteq DOMAIN asks'
    BY <1>2
<1> QED
    BY <1>5, <1>6, <1>7, <1>8, <1>9 DEF CallsOK

\* A call that is over, or asks, leaves the rest as it was.
LEMMA CallEnds ==
    ASSUME LedgerInv, NEW s \in Sessions, NEW c \in Calls, call' = [call EXCEPT ![s] = c],
           c.op = "refuse" => c.ask \in DOMAIN asks, c.op # "post",
           UNCHANGED <<ledger, tally, talliedAt, clock>>, calm' \in BOOLEAN,
           asks' \in Seq(Ask), Len(asks) <= Len(asks'), Len(asks') <= MaxAsks
    PROVE  LedgerInv'
<1>1. CallsOK' /\ RefersBack' /\ ReversedOnce'
    BY CallFits
<1>2. call' \in [Sessions -> Calls]
    BY CallMoves DEF LedgerInv
<1>3. InFlight \in Nat /\ InFlight' \in Nat /\ InFlight' <= InFlight
    BY CallPasses, CallMoves DEF LedgerInv
<1>4. RowsPosted'
    BY <1>3, Bounds DEF LedgerInv, TypeOK, RowsPosted
<1>5. TypeOK'
    BY <1>2 DEF LedgerInv, TypeOK
<1> QED
    BY <1>1, <1>4, <1>5 DEF LedgerInv

\* A post begins.
NewPost(rows, ask) == [op |-> "post", at |-> clock, rows |-> rows, sums |-> <<>>, ask |-> ask]

LEMMA PostBegins ==
    ASSUME LedgerInv, NEW s \in Sessions, NEW rows \in Seq(Row), NEW ask \in 0 .. Len(asks),
           Post(s, rows, ask), rows # <<>>, \A i \in DOMAIN rows : rows[i].ask = ask,
           \A i \in DOMAIN rows : rows[i].undoes # 0 => i = 1 /\ Len(rows) = 1,
           rows[1].undoes # 0 => rows[1].undoes \in DOMAIN ledger /\ MayReverse(rows[1].undoes)
    PROVE  LedgerInv'
<1>1. PICK c : c = NewPost(rows, ask)
    OBVIOUS
<1>2. /\ c \in PostCall /\ c \in Calls /\ c.op = "post" /\ c.rows = rows /\ c.sums = <<>>
      /\ c.ask = ask
    <2>1. ask \in 0 .. MaxAsks
        BY Bounds DEF LedgerInv, TypeOK
    <2> QED
        BY <1>1, <2>1 DEF LedgerInv, TypeOK, NewPost, PostCall, Calls
<1>3. /\ call' = [call EXCEPT ![s] = c] /\ call[s] = Idle /\ calm' \in BOOLEAN
      /\ UNCHANGED <<clock, ledger, tally, asks, talliedAt>>
      /\ Len(ledger) + InFlight + Len(rows) <= MaxRows
    BY <1>1 DEF Post, Starts, Begins, books, NewPost, LedgerInv, TypeOK
<1>4. WellPosted(c) /\ UndoesOne(c)
    BY <1>2 DEF WellPosted, UndoesOne, MayReverse
<1>5. ASSUME NEW t \in Sessions, t # s, Posting(t), c.rows[1].undoes # 0
      PROVE  call[t].rows[1].undoes # c.rows[1].undoes
    BY <1>2, <1>5 DEF MayReverse
<1>6. CallsOK' /\ RefersBack' /\ ReversedOnce'
    <2>1. asks' \in Seq(Ask) /\ Len(asks) <= Len(asks') /\ c.op # "refuse"
        BY <1>2, <1>3 DEF LedgerInv, TypeOK
    <2>2. \A t \in Sessions : (t # s /\ Posting(t) /\ c.rows[1].undoes # 0)
              => call[t].rows[1].undoes # c.rows[1].undoes
        BY <1>5
    <2> QED
        BY <1>2, <1>3, <1>4, <2>1, <2>2, CallFits
<1>7. call' \in [Sessions -> Calls] /\ InFlight' = InFlight + (Weight(c) - Weight(call[s]))
    BY <1>2, <1>3, CallMoves DEF LedgerInv
<1>8. Weight(c) = Len(rows) /\ Weight(call[s]) = 0
    BY <1>2, <1>3 DEF Weight, Idle
<1>9. InFlight \in Nat /\ Len(rows) \in Nat /\ Len(ledger) \in Nat
    BY InFlightTyped DEF LedgerInv, TypeOK
<1>10. RowsPosted'
    BY <1>3, <1>7, <1>8, <1>9, Bounds DEF RowsPosted
<1>11. TypeOK'
    BY <1>3, <1>7 DEF LedgerInv, TypeOK
<1> QED
    BY <1>6, <1>10, <1>11 DEF LedgerInv

LEMMA AddUserPointsSafe ==
    ASSUME LedgerInv, NEW s \in Sessions, NEW u \in Users, NEW amount \in Awards,
           NEW until \in {clock, Never}, AddUserPoints(s, u, amount, until)
    PROVE  LedgerInv'
<1>1. PICK r : r = NewRow(u, amount, until, 0, 0)
    OBVIOUS
<1>2. r \in Row /\ r.undoes = 0 /\ r.ask = 0
    BY <1>1, Bounds DEF NewRow, Row, LedgerInv, TypeOK
<1>3. PICK rows : rows = <<r>>
    OBVIOUS
<1>4. /\ rows \in Seq(Row) /\ rows # <<>> /\ DOMAIN rows = {1} /\ Len(rows) = 1 /\ rows[1] = r
    BY <1>2, <1>3
<1>5. Post(s, rows, 0) /\ 0 \in 0 .. Len(asks)
    BY <1>1, <1>3 DEF AddUserPoints, LedgerInv, TypeOK
<1> QED
    BY <1>2, <1>4, <1>5, PostBegins

LEMMA ReverseUserPointsSafe ==
    ASSUME LedgerInv, NEW s \in Sessions, NEW i \in DOMAIN ledger, ReverseUserPoints(s, i)
    PROVE  LedgerInv'
<1>1. PICK r : r = NewRow(ledger[i].of, -ledger[i].amount, Never, i, 0)
    OBVIOUS
<1>2. ledger[i] \in Row /\ i \in 0 .. MaxRows
    BY Bounds DEF LedgerInv, TypeOK
<1>3. r \in Row /\ r.undoes = i /\ r.ask = 0
    BY <1>1, <1>2, Bounds DEF NewRow, Row
<1>4. PICK rows : rows = <<r>>
    OBVIOUS
<1>5. /\ rows \in Seq(Row) /\ rows # <<>> /\ DOMAIN rows = {1} /\ Len(rows) = 1 /\ rows[1] = r
    BY <1>3, <1>4
<1>6. Post(s, rows, 0) /\ 0 \in 0 .. Len(asks) /\ MayReverse(i)
    BY <1>1, <1>4 DEF ReverseUserPoints, LedgerInv, TypeOK
<1> QED
    BY <1>3, <1>5, <1>6, PostBegins

LEMMA ApproveSafe ==
    ASSUME LedgerInv, NEW s \in Sessions, NEW k \in DOMAIN asks, Approve(s, k)
    PROVE  LedgerInv'
<1>1. PICK rows : rows = RowsOf(k)
    OBVIOUS
<1>2. /\ rows \in Seq(Row) /\ rows # <<>> /\ 1 \in DOMAIN rows
      /\ \A i \in DOMAIN rows : rows[i].ask = k /\ rows[i].undoes = 0
    BY <1>1, RowsOfTyped DEF LedgerInv
<1>3. Post(s, rows, k) /\ k \in 0 .. Len(asks)
    BY <1>1, AskTyped DEF Approve, LedgerInv
<1> QED
    BY <1>2, <1>3, PostBegins

LEMMA CalculateSafe ==
    ASSUME LedgerInv, NEW s \in Sessions, calculate_tallies(s)
    PROVE  LedgerInv'
<1>1. PICK c : c = call[s]
    OBVIOUS
<1>2. c \in Calls /\ c.op = "post" /\ WellPosted(c) /\ UndoesOne(c) /\ Len(c.sums) # Len(c.rows)
    BY <1>1 DEF calculate_tallies, Posting, Posted, LedgerInv, TypeOK, CallsOK
<1>3. PICK w : w = Worth(ledger \o c.rows, c.rows[Len(c.sums) + 1].of, c.at)
    OBVIOUS
<1>4. PICK d : d = [c EXCEPT !.sums = Append(c.sums, w)]
    OBVIOUS
<1>5. w \in Int
    <2>1. ledger \in Seq(Row) /\ c.rows \in Seq(Row)
        BY <1>2, PostTyped DEF LedgerInv, TypeOK
    <2>2. ledger \o c.rows \in Seq(Row)
        BY <2>1
    <2> QED
        BY <1>3, <2>2, WorthTyped
<1>6. c \in PostCall /\ Len(c.rows) \in Nat /\ Len(c.sums) \in Nat /\ c.sums \in Seq(Int)
    BY <1>2, PostTyped
<1>7. /\ d \in PostCall /\ d \in Calls /\ d.op = "post" /\ d.rows = c.rows /\ d.ask = c.ask
      /\ d.sums = Append(c.sums, w) /\ Len(d.sums) = Len(c.sums) + 1
    <2>1. Append(c.sums, w) \in Seq(Int) /\ Len(Append(c.sums, w)) = Len(c.sums) + 1
        BY <1>5, <1>6
    <2>2. /\ d.op = c.op /\ d.at = c.at /\ d.rows = c.rows /\ d.ask = c.ask
          /\ d.sums = Append(c.sums, w)
        BY <1>4, <1>6 DEF PostCall
    <2>3. d \in PostCall
        BY <1>4, <1>6, <2>1 DEF PostCall
    <2> QED
        BY <1>2, <2>1, <2>2, <2>3 DEF Calls
<1>8. /\ call' = [call EXCEPT ![s] = d] /\ UNCHANGED <<clock, ledger, tally, asks, calm, talliedAt>>
    BY <1>1, <1>3, <1>4 DEF calculate_tallies, books, history, LedgerInv, TypeOK
<1>9. WellPosted(d) /\ UndoesOne(d)
    BY <1>2, <1>6, <1>7 DEF WellPosted, UndoesOne
<1>10. ASSUME NEW t \in Sessions, t # s, Posting(t), d.rows[1].undoes # 0
       PROVE  call[t].rows[1].undoes # d.rows[1].undoes
    BY <1>1, <1>2, <1>7, <1>10 DEF LedgerInv, CallsOK, Posting
<1>11. CallsOK' /\ RefersBack' /\ ReversedOnce'
    <2>1. asks' \in Seq(Ask) /\ Len(asks) <= Len(asks') /\ d.op # "refuse"
        BY <1>7, <1>8 DEF LedgerInv, TypeOK
    <2>2. \A t \in Sessions : (t # s /\ Posting(t) /\ d.rows[1].undoes # 0)
              => call[t].rows[1].undoes # d.rows[1].undoes
        BY <1>10
    <2> QED
        BY <1>7, <1>8, <1>9, <2>1, <2>2, CallFits
<1>12. call' \in [Sessions -> Calls] /\ InFlight' = InFlight + (Weight(d) - Weight(call[s]))
    BY <1>7, <1>8, CallMoves DEF LedgerInv
<1>13. Weight(d) = Len(c.rows) /\ Weight(call[s]) = Len(c.rows)
    BY <1>1, <1>2, <1>7 DEF Weight
<1>14. InFlight \in Nat /\ InFlight' = InFlight
    BY <1>6, <1>12, <1>13, InFlightTyped DEF LedgerInv
<1>15. TypeOK' /\ RowsPosted'
    BY <1>8, <1>12, <1>14 DEF LedgerInv, TypeOK, RowsPosted
<1> QED
    BY <1>11, <1>15 DEF LedgerInv

\* Rows are added at the end.
LEMMA Joined ==
    ASSUME NEW rows \in Seq(Row), NEW more \in Seq(Row), NEW both, both = rows \o more
    PROVE  /\ both \in Seq(Row) /\ Len(both) = Len(rows) + Len(more)
           /\ Len(rows) \in Nat /\ Len(more) \in Nat /\ DOMAIN rows \subseteq DOMAIN both
           /\ \A i \in DOMAIN rows : both[i] = rows[i] /\ i \in 1 .. Len(rows)
           /\ \A i \in DOMAIN both : i \notin DOMAIN rows =>
                 i - Len(rows) \in DOMAIN more /\ both[i] = more[i - Len(rows)]
           /\ \A i \in DOMAIN more :
                 Len(rows) + i \in DOMAIN both /\ both[Len(rows) + i] = more[i]
OBVIOUS

LEMMA PartOfRows ==
    ASSUME NEW rows \in Seq(Row), NEW i \in DOMAIN rows, NEW j \in DOMAIN rows
    PROVE  SubSeq(rows, i, j) = [m \in 1 .. (1 + j - i) |-> rows[m + i - 1]]
OBVIOUS

LEMMA SettledAskTyped ==
    ASSUME TypeOK, NEW c \in PostCall, c.ask \in 0 .. Len(asks), NEW q, q = SettledAsk(c)
    PROVE  /\ q \in Seq(Ask) /\ Len(q) = Len(asks) /\ DOMAIN q = DOMAIN asks
           /\ \A k \in DOMAIN asks : k # c.ask => q[k] = asks[k]
           /\ c.ask # 0 => c.ask \in DOMAIN asks /\ q[c.ask].status = "done"
           /\ \A k \in DOMAIN asks : /\ q[k].from = asks[k].from /\ q[k].to = asks[k].to
                                     /\ q[k].amount = asks[k].amount
<1>1. CASE c.ask = 0
    BY <1>1 DEF SettledAsk, TypeOK
<1>2. CASE c.ask # 0
    <2>1. asks \in Seq(Ask) /\ c.ask \in DOMAIN asks /\ asks[c.ask] \in Ask /\ c.at \in Times
        BY <1>2 DEF TypeOK, PostCall
    <2>2. PICK a : a = [asks[c.ask] EXCEPT !.status = "done", !.at = c.at]
        OBVIOUS
    <2>3. /\ a \in Ask /\ a.status = "done" /\ a.from = asks[c.ask].from /\ a.to = asks[c.ask].to
          /\ a.amount = asks[c.ask].amount
        BY <2>1, <2>2 DEF Ask
    <2>4. q = [asks EXCEPT ![c.ask] = a]
        BY <1>2, <2>1, <2>2 DEF SettledAsk
    <2> QED
        BY <1>2, <2>1, <2>3, <2>4
<1> QED
    BY <1>1, <1>2

LEMMA TalliesTyped ==
    ASSUME TypeOK, NEW c \in PostCall, Len(c.sums) = Len(c.rows)
    PROVE  Tallies(c) \in [Users -> [amount : Int, exists : BOOLEAN]]
<1>1. c.rows \in Seq(Row) /\ c.sums \in Seq(Int)
    BY DEF PostCall
<1>2. ASSUME NEW u \in Users
      PROVE  (IF \E i \in DOMAIN c.rows : c.rows[i].of = u
              THEN [amount |-> c.sums[CHOOSE i \in DOMAIN c.rows : c.rows[i].of = u],
                    exists |-> TRUE]
              ELSE tally[u]) \in [amount : Int, exists : BOOLEAN]
    <2>1. CASE \E i \in DOMAIN c.rows : c.rows[i].of = u
        <3>1. PICK i : i = CHOOSE j \in DOMAIN c.rows : c.rows[j].of = u
            OBVIOUS
        <3>2. i \in DOMAIN c.rows
            BY <2>1, <3>1
        <3>3. c.sums[i] \in Int
            BY <1>1, <3>2
        <3> QED
            BY <2>1, <3>1, <3>3
    <2>2. CASE ~ \E i \in DOMAIN c.rows : c.rows[i].of = u
        BY <2>2 DEF TypeOK
    <2> QED
        BY <2>1, <2>2
<1> QED
    BY <1>2 DEF Tallies

LEMMA PostCommitSafe ==
    ASSUME LedgerInv, NEW s \in Sessions, PostCommit(s)
    PROVE  LedgerInv'
<1>1. PICK c : c = call[s]
    OBVIOUS
<1>2. PICK n : n = Len(ledger)
    OBVIOUS
<1>3. c \in Calls /\ c.op = "post" /\ WellPosted(c) /\ UndoesOne(c) /\ Len(c.sums) = Len(c.rows)
    BY <1>1 DEF PostCommit, Posting, Posted, LedgerInv, TypeOK, CallsOK
<1>4. /\ c \in PostCall /\ c.rows \in Seq(Row) /\ c.at \in Times /\ 1 \in DOMAIN c.rows
      /\ Len(c.rows) \in Nat /\ ledger \in Seq(Row) /\ n \in Nat /\ Idle \in Calls
      /\ DOMAIN ledger = 1 .. n
    BY <1>2, <1>3, PostTyped, CallTyped DEF LedgerInv, TypeOK, WellPosted
<1>5. /\ ledger' = ledger \o c.rows /\ tally' = Tallies(c) /\ asks' = SettledAsk(c)
      /\ talliedAt' = [u \in Users |-> IF u \in Holds(s) THEN c.at ELSE talliedAt[u]]
      /\ call' = [call EXCEPT ![s] = Idle] /\ UNCHANGED <<clock, calm>>
    BY <1>1 DEF PostCommit, Ends
<1>6. /\ ledger' \in Seq(Row) /\ Len(ledger') = n + Len(c.rows)
      /\ DOMAIN ledger \subseteq DOMAIN ledger'
      /\ DOMAIN ledger' = 1 .. n + Len(c.rows)
      /\ \A i \in DOMAIN ledger : ledger'[i] = ledger[i]
      /\ \A i \in DOMAIN ledger' : i \notin DOMAIN ledger =>
             i - n \in DOMAIN c.rows /\ ledger'[i] = c.rows[i - n]
    BY <1>2, <1>4, <1>5, Joined
<1>7. asks' \in Seq(Ask) /\ Len(asks') = Len(asks) /\ DOMAIN asks' = DOMAIN asks
    BY <1>3, <1>4, <1>5, SettledAskTyped DEF LedgerInv, WellPosted
<1>8. /\ call' \in [Sessions -> Calls] /\ call'[s] = Idle
      /\ \A t \in Sessions : t # s => call'[t] = call[t]
      /\ InFlight \in Nat /\ InFlight' \in Nat
      /\ InFlight' = InFlight + (Weight(Idle) - Weight(call[s]))
    BY <1>4, <1>5, CallMoves DEF LedgerInv
<1>9. Weight(Idle) = 0 /\ Weight(call[s]) = Len(c.rows)
    BY <1>1, <1>3 DEF Weight, Idle
<1>10. RowsPosted' /\ Len(ledger') <= MaxRows
    BY <1>2, <1>4, <1>6, <1>8, <1>9, Bounds DEF LedgerInv, RowsPosted
<1>11. talliedAt' \in [Users -> Times] /\ tally' \in [Users -> [amount : Int, exists : BOOLEAN]]
    BY <1>3, <1>4, <1>5, TalliesTyped DEF LedgerInv, TypeOK
<1>12. TypeOK'
    BY <1>5, <1>6, <1>7, <1>8, <1>10, <1>11 DEF LedgerInv, TypeOK
\* What a new row undoes is there, not undone, and undoes none.
<1>13. ASSUME NEW i \in DOMAIN ledger', i \notin DOMAIN ledger, ledger'[i].undoes # 0
       PROVE  /\ i = n + 1 /\ ledger'[i].undoes = c.rows[1].undoes
              /\ c.rows[1].undoes \in DOMAIN ledger /\ ledger[c.rows[1].undoes].undoes = 0
              /\ \A j \in DOMAIN ledger : ledger[j].undoes # c.rows[1].undoes
    <2>1. i - n \in DOMAIN c.rows /\ ledger'[i] = c.rows[i - n]
        BY <1>6, <1>13
    <2>2. i - n = 1
        BY <1>3, <1>13, <2>1 DEF WellPosted
    <2>3. i = n + 1
        BY <1>4, <1>6, <2>2
    <2> QED
        BY <1>3, <1>13, <2>1, <2>2, <2>3 DEF UndoesOne
<1>14. RefersBack'
    <2>1. ASSUME NEW i \in DOMAIN ledger'
          PROVE  ledger'[i].ask \in 0 .. Len(asks') /\ ledger'[i].undoes \in 0 .. Len(ledger')
        <3>1. CASE i \in DOMAIN ledger
            BY <1>2, <1>4, <1>6, <1>7, <3>1 DEF LedgerInv, RefersBack
        <3>2. CASE i \notin DOMAIN ledger
            <4>1. ledger'[i].ask \in 0 .. Len(asks')
                BY <1>3, <1>6, <1>7, <3>2 DEF WellPosted
            <4>2. ledger'[i].undoes = 0 \/ ledger'[i].undoes \in DOMAIN ledger
                BY <1>13, <3>2
            <4>3. ledger'[i].undoes \in 0 .. Len(ledger')
                BY <1>4, <1>6, <4>2
            <4> QED
                BY <4>1, <4>3
        <3> QED
            BY <3>1, <3>2
    <2> QED
        BY <2>1 DEF RefersBack
<1>15. ReversedOnce'
    <2>1. ASSUME NEW i \in DOMAIN ledger, ledger[i].undoes # 0
          PROVE  ledger[i].undoes \in DOMAIN ledger /\ ledger[ledger[i].undoes].undoes = 0
        BY <1>2, <1>4, <2>1 DEF LedgerInv, RefersBack, ReversedOnce
    <2>2. ASSUME NEW i \in DOMAIN ledger', ledger'[i].undoes # 0
          PROVE  ledger'[ledger'[i].undoes].undoes = 0
        <3>1. CASE i \in DOMAIN ledger
            BY <1>6, <2>1, <2>2, <3>1
        <3>2. CASE i \notin DOMAIN ledger
            BY <1>6, <1>13, <2>2, <3>2
        <3> QED
            BY <3>1, <3>2
    <2>3. ASSUME NEW i \in DOMAIN ledger', NEW j \in DOMAIN ledger', i # j, ledger'[i].undoes # 0
          PROVE  ledger'[j].undoes # ledger'[i].undoes
        <3>1. CASE i \in DOMAIN ledger /\ j \in DOMAIN ledger
            BY <1>6, <2>3, <3>1 DEF LedgerInv, ReversedOnce
        <3>2. CASE i \notin DOMAIN ledger
            BY <1>6, <1>13, <2>3, <3>2
        <3>3. CASE i \in DOMAIN ledger /\ j \notin DOMAIN ledger
            BY <1>6, <1>13, <2>3, <3>3
        <3> QED
            BY <3>1, <3>2, <3>3
    <2> QED
        BY <2>2, <2>3 DEF ReversedOnce
<1>16. CallsOK'
    <2>1. ASSUME NEW t \in Sessions, Posting(t)' PROVE (WellPosted(call[t]) /\ UndoesOne(call[t]))'
        <3>1. t # s /\ call'[t] = call[t] /\ Posting(t)
            BY <1>8, <2>1 DEF Posting, Idle
        <3>2. PICK d : d = call[t]
            OBVIOUS
        <3>3. WellPosted(d) /\ UndoesOne(d)
            BY <3>1, <3>2 DEF LedgerInv, CallsOK
        <3>4. WellPosted(d)'
            BY <1>7, <3>3 DEF WellPosted
        <3>5. ASSUME d.rows[1].undoes # 0, NEW j \in DOMAIN ledger'
              PROVE  ledger'[j].undoes # d.rows[1].undoes
            <4>1. CASE j \in DOMAIN ledger
                BY <1>6, <3>3, <3>5, <4>1 DEF UndoesOne
            <4>2. CASE j \notin DOMAIN ledger
                <5>1. c.rows[1].undoes # d.rows[1].undoes
                    BY <1>1, <1>3, <3>1, <3>2, <3>5 DEF LedgerInv, CallsOK, Posting
                <5> QED
                    BY <1>13, <3>5, <4>2, <5>1
            <4> QED
                BY <4>1, <4>2
        <3>6. UndoesOne(d)'
            BY <1>6, <3>3, <3>5 DEF UndoesOne
        <3> QED
            BY <3>1, <3>2, <3>4, <3>6 DEF WellPosted, UndoesOne
    <2>2. ASSUME NEW t \in Sessions, call'[t].op = "refuse" PROVE call'[t].ask \in DOMAIN asks'
        BY <1>7, <1>8, <2>2 DEF LedgerInv, CallsOK, Idle
    <2>3. ASSUME NEW t \in Sessions, NEW u \in Sessions, t # u, Posting(t)', Posting(u)',
                 call'[t].rows[1].undoes # 0
          PROVE  call'[u].rows[1].undoes # call'[t].rows[1].undoes
        <3>1. t # s /\ u # s
            BY <1>8, <2>3 DEF Posting, Idle
        <3> QED
            BY <1>8, <2>3, <3>1 DEF Posting, LedgerInv, CallsOK
    <2> QED
        BY <2>1, <2>2, <2>3 DEF CallsOK
<1> QED
    BY <1>10, <1>12, <1>14, <1>15, <1>16 DEF LedgerInv

LEMMA RequestSafe ==
    ASSUME LedgerInv, NEW s \in Sessions, NEW from \in Users, NEW to \in Users \union {NoOne},
           NEW amount \in Amounts, Request(s, from, to, amount)
    PROVE  LedgerInv'
<1>1. PICK c : c = [op |-> "ask", new |-> [from |-> from, to |-> to, amount |-> amount,
                                          status |-> "pending", at |-> 0]]
    OBVIOUS
<1>2. c \in AskCall /\ c \in Calls /\ c.op = "ask"
    BY <1>1, Bounds DEF AskCall, Calls, Ask
<1>3. call' = [call EXCEPT ![s] = c] /\ calm' \in BOOLEAN /\ UNCHANGED <<clock, books, talliedAt>>
    BY <1>1 DEF Request, Starts, Begins, LedgerInv, TypeOK
<1>4. /\ asks' \in Seq(Ask) /\ Len(asks) <= Len(asks') /\ Len(asks') <= MaxAsks
      /\ UNCHANGED <<ledger, tally, talliedAt, clock>> /\ calm' \in BOOLEAN
    BY <1>3, Bounds DEF LedgerInv, TypeOK, books
<1> QED
    BY <1>2, <1>3, <1>4, CallEnds

LEMMA RequestCommitSafe ==
    ASSUME LedgerInv, NEW s \in Sessions, RequestCommit(s)
    PROVE  LedgerInv'
<1>1. PICK c : c = call[s]
    OBVIOUS
<1>2. c \in AskCall /\ c.new \in Ask /\ Idle \in Calls /\ Idle.op = "idle"
    <2>1. c \in Calls /\ c.op = "ask"
        BY <1>1 DEF RequestCommit, LedgerInv, TypeOK
    <2> QED
        BY <2>1, CallTyped DEF AskCall
<1>3. /\ asks' = Append(asks, c.new) /\ Len(asks) < MaxAsks /\ call' = [call EXCEPT ![s] = Idle]
      /\ UNCHANGED <<clock, ledger, tally, calm, talliedAt>>
    BY <1>1 DEF RequestCommit, Ends, history
<1>4. asks' \in Seq(Ask) /\ Len(asks') = Len(asks) + 1 /\ Len(asks) \in Nat
    BY <1>2, <1>3 DEF LedgerInv, TypeOK
<1>5. Len(asks) <= Len(asks') /\ Len(asks') <= MaxAsks /\ calm' \in BOOLEAN
    BY <1>3, <1>4, Bounds DEF LedgerInv, TypeOK
<1> QED
    BY <1>2, <1>3, <1>4, <1>5, CallEnds

LEMMA RejectSafe ==
    ASSUME LedgerInv, NEW s \in Sessions, NEW k \in DOMAIN asks, Reject(s, k)
    PROVE  LedgerInv'
<1>1. PICK c : c = [op |-> "refuse", ask |-> k]
    OBVIOUS
<1>2. c \in Calls /\ c.op = "refuse" /\ c.ask = k
    BY <1>1, AskTyped DEF RefuseCall, Calls, LedgerInv
<1>3. call' = [call EXCEPT ![s] = c] /\ calm' \in BOOLEAN /\ UNCHANGED <<clock, books, talliedAt>>
    BY <1>1 DEF Reject, Starts, Begins, LedgerInv, TypeOK
<1>4. /\ asks' \in Seq(Ask) /\ Len(asks) <= Len(asks') /\ Len(asks') <= MaxAsks
      /\ UNCHANGED <<ledger, tally, talliedAt, clock>> /\ calm' \in BOOLEAN
    BY <1>3, Bounds DEF LedgerInv, TypeOK, books
<1> QED
    BY <1>2, <1>3, <1>4, CallEnds

\* A request that is refused is otherwise the same.
LEMMA RefusedAskTyped ==
    ASSUME TypeOK, NEW k \in DOMAIN asks, NEW q, q = [asks EXCEPT ![k].status = "refused"]
    PROVE  /\ q \in Seq(Ask) /\ Len(q) = Len(asks) /\ DOMAIN q = DOMAIN asks
           /\ \A j \in DOMAIN asks : j # k => q[j] = asks[j]
           /\ q[k].status = "refused"
           /\ \A j \in DOMAIN asks : /\ q[j].from = asks[j].from /\ q[j].to = asks[j].to
                                     /\ q[j].amount = asks[j].amount
<1>1. asks \in Seq(Ask) /\ asks[k] \in Ask
    BY DEF TypeOK
<1>2. PICK a : a = [asks[k] EXCEPT !.status = "refused"]
    OBVIOUS
<1>3. /\ a \in Ask /\ a.status = "refused" /\ a.from = asks[k].from /\ a.to = asks[k].to
      /\ a.amount = asks[k].amount
    BY <1>1, <1>2 DEF Ask
<1>4. q = [asks EXCEPT ![k] = a]
    BY <1>1, <1>2
<1> QED
    BY <1>1, <1>3, <1>4

LEMMA RejectCommitSafe ==
    ASSUME LedgerInv, NEW s \in Sessions, RejectCommit(s)
    PROVE  LedgerInv'
<1>1. PICK k : k = call[s].ask
    OBVIOUS
<1>2. k \in DOMAIN asks /\ Idle \in Calls /\ Idle.op = "idle"
    <2>1. call[s] \in Calls /\ call[s].op = "refuse"
        BY DEF RejectCommit, LedgerInv, TypeOK
    <2> QED
        BY <1>1, <2>1, CallTyped DEF LedgerInv, CallsOK
<1>3. /\ asks' = [asks EXCEPT ![k].status = "refused"] /\ call' = [call EXCEPT ![s] = Idle]
      /\ UNCHANGED <<clock, ledger, tally, calm, talliedAt>>
    BY <1>1 DEF RejectCommit, Ends, history
<1>4. asks' \in Seq(Ask) /\ Len(asks') = Len(asks)
    BY <1>2, <1>3, RefusedAskTyped DEF LedgerInv
<1>5. Len(asks) <= Len(asks') /\ Len(asks') <= MaxAsks /\ calm' \in BOOLEAN
    BY <1>3, <1>4, Bounds DEF LedgerInv, TypeOK
<1> QED
    BY <1>2, <1>3, <1>4, <1>5, CallEnds

LEMMA RollsBackSafe ==
    ASSUME LedgerInv, NEW s \in Sessions, RollsBack(s)
    PROVE  LedgerInv'
<1>1. call[s] \in Calls /\ Idle \in Calls /\ Idle.op = "idle"
    BY CallTyped DEF LedgerInv, TypeOK
<1>2. call' = [call EXCEPT ![s] = Idle] /\ UNCHANGED <<clock, books, history>>
    BY DEF RollsBack, Ends
<1>3. /\ asks' \in Seq(Ask) /\ Len(asks) <= Len(asks') /\ Len(asks') <= MaxAsks
      /\ UNCHANGED <<ledger, tally, talliedAt, clock>> /\ calm' \in BOOLEAN
    BY <1>2, Bounds DEF LedgerInv, TypeOK, books, history
<1> QED
    BY <1>1, <1>2, <1>3, CallEnds

\* A moment passes, or nothing happens.
LEMMA StillSafe ==
    ASSUME LedgerInv, UNCHANGED <<books, call, history>>, clock' \in Times
    PROVE  LedgerInv'
<1>1. TypeOK'
    BY DEF LedgerInv, TypeOK, books, history
<1>2. InFlight' = InFlight
    BY DEF InFlight, Posting
<1>3. RowsPosted' /\ RefersBack' /\ ReversedOnce'
    BY <1>2 DEF LedgerInv, RowsPosted, RefersBack, ReversedOnce, books
<1>4. CallsOK'
    BY DEF LedgerInv, CallsOK, Posting, WellPosted, UndoesOne, books
<1> QED
    BY <1>1, <1>3, <1>4 DEF LedgerInv

LEMMA LedgerInit == Init => LedgerInv
<1> SUFFICES ASSUME Init PROVE LedgerInv
    OBVIOUS
<1>1. TypeOK
    BY Bounds DEF Init, TypeOK, Calls, NoTally
<1>2. \A s \in Sessions : call[s].op = "idle" /\ ~Posting(s)
    BY DEF Init, Idle, Posting
<1>3. InFlight = 0
    <2>1. PICK w : w = Weights
        OBVIOUS
    <2>2. \A s \in Sessions : w[s] = 0
        BY <1>2, <2>1 DEF Weights, Weight
    <2>3. SumFunctionOnSet(w, Sessions) = 0
        BY <2>2, Bounds, SumOfNothing
    <2> QED
        BY <2>1, <2>3, InFlightIsWeight
<1>4. Len(ledger) = 0 /\ DOMAIN ledger = {}
    BY DEF Init
<1>5. RowsPosted /\ RefersBack /\ CallsOK /\ ReversedOnce
    BY <1>2, <1>3, <1>4, Bounds DEF RowsPosted, RefersBack, CallsOK, ReversedOnce
<1> QED
    BY <1>1, <1>5 DEF LedgerInv

LEMMA LedgerStep == LedgerInv /\ [Next]_vars => LedgerInv'
<1> SUFFICES ASSUME LedgerInv, [Next]_vars PROVE LedgerInv'
    OBVIOUS
<1>1. CASE Tick
    <2>1. clock' \in Times /\ UNCHANGED <<books, call, history>>
        BY <1>1, Bounds DEF Tick, LedgerInv, TypeOK, Times
    <2> QED
        BY <2>1, StillSafe
<1>2. ASSUME NEW s \in Sessions, SessionSteps(s) PROVE LedgerInv'
    <2>1. ASSUME NEW u \in Users, NEW amount \in Awards, NEW until \in {clock, Never},
                 AddUserPoints(s, u, amount, until)
          PROVE  LedgerInv'
        BY <2>1, AddUserPointsSafe
    <2>2. ASSUME NEW i \in DOMAIN ledger, ReverseUserPoints(s, i) PROVE LedgerInv'
        BY <2>2, ReverseUserPointsSafe
    <2>3. CASE calculate_tallies(s)
        BY <2>3, CalculateSafe
    <2>4. CASE PostCommit(s)
        BY <2>4, PostCommitSafe
    <2>5. ASSUME NEW from \in Users, NEW to \in Users \union {NoOne}, NEW amount \in Amounts,
                 Request(s, from, to, amount)
          PROVE  LedgerInv'
        BY <2>5, RequestSafe
    <2>6. CASE RequestCommit(s)
        BY <2>6, RequestCommitSafe
    <2>7. ASSUME NEW k \in DOMAIN asks, Approve(s, k) \/ Reject(s, k) PROVE LedgerInv'
        BY <2>7, ApproveSafe, RejectSafe
    <2>8. CASE RejectCommit(s)
        BY <2>8, RejectCommitSafe
    <2>9. CASE RollsBack(s)
        BY <2>9, RollsBackSafe
    <2> QED
        BY <1>2, <2>1, <2>2, <2>3, <2>4, <2>5, <2>6, <2>7, <2>8, <2>9 DEF SessionSteps
<1>3. CASE UNCHANGED vars
    BY <1>3, StillSafe DEF vars, LedgerInv, TypeOK
<1> QED
    BY <1>1, <1>2, <1>3 DEF Next

\* Whatever calls overlap, the ledger and the calls keep to their types, no
\* more rows are posted than there is room for, and a row is undone once.
THEOREM LedgerKept == Spec => [](TypeOK /\ ReversedOnce)
<1>1. LedgerInv => TypeOK /\ ReversedOnce
    BY DEF LedgerInv
<1> QED
    BY <1>1, LedgerInit, LedgerStep, PTL DEF Spec

-----------------------------------------------------------------------------
(* Until two transactions overlap.                                         *)

\* The books are as they were.
LEMMA BooksStay ==
    ASSUME CalmInv, calm' => calm, UNCHANGED <<ledger, tally, asks, talliedAt>>
    PROVE  TallyIsTheLedger' /\ SettledOnce'
<1>1. TallyIsTheLedger'
    BY DEF CalmInv, TallyIsTheLedger
<1>2. SettledOnce'
    <2>1. ASSUME NEW k PROVE RowsFor(k)' = RowsFor(k) /\ RowsOf(k)' = RowsOf(k)
        BY DEF RowsFor, RowsOf
    <2>2. ASSUME calm', NEW k \in DOMAIN asks'
          PROVE  (IF asks[k].status = "done"
                  THEN \E i, j \in DOMAIN ledger :
                          RowsFor(k) = i .. j /\ SubSeq(ledger, i, j) = RowsOf(k)
                  ELSE RowsFor(k) = {})'
        <3>1. IF asks[k].status = "done"
              THEN \E i, j \in DOMAIN ledger :
                      RowsFor(k) = i .. j /\ SubSeq(ledger, i, j) = RowsOf(k)
              ELSE RowsFor(k) = {}
            BY <2>2 DEF CalmInv, SettledOnce
        <3>2. PICK before, rows : before = RowsFor(k) /\ rows = RowsOf(k)
            OBVIOUS
        <3>3. before = RowsFor(k)' /\ rows = RowsOf(k)'
            BY <2>1, <3>2
        <3> QED
            BY <3>1, <3>2, <3>3
    <2> QED
        BY <2>2 DEF SettledOnce
<1> QED
    BY <1>1, <1>2

\* The only call goes on to be c.
LEMMA OnlyCall ==
    ASSUME LedgerInv, NEW s \in Sessions, NEW c \in Calls, call' = [call EXCEPT ![s] = c],
           \A t \in Sessions : t # s => call[t] = Idle, UNCHANGED <<ledger, tally, asks>>,
           c.op = "post" => SumsAhead(c) /\ SettlesOne(c),
           c.op = "refuse" => asks[c.ask].status = "pending",
           c.op = "ask" => c.new.status = "pending"
    PROVE  CalmCalls'
<1>1. call'[s] = c /\ \A t \in Sessions : t # s => call'[t] = Idle /\ call'[t].op = "idle"
    <2>1. Idle.op = "idle"
        BY DEF Idle
    <2> QED
        BY <2>1, CallMoves DEF LedgerInv
<1>2. OneCall'
    BY <1>1 DEF OneCall
<1>3. ASSUME NEW t \in Sessions, Posting(t)' PROVE (SumsAhead(call[t]) /\ SettlesOne(call[t]))'
    <2>1. t = s /\ call'[t] = c /\ c.op = "post"
        BY <1>1, <1>3 DEF Posting
    <2>2. SumsAhead(c)' /\ SettlesOne(c)'
        BY <2>1 DEF SumsAhead, SettlesOne, RowsOf, Covered, Affords
    <2> QED
        BY <2>1, <2>2 DEF SumsAhead, SettlesOne, RowsOf, Covered, Affords
<1>4. ASSUME NEW t \in Sessions, call'[t].op = "refuse"
      PROVE  asks'[call'[t].ask].status = "pending"
    BY <1>1, <1>4
<1>5. ASSUME NEW t \in Sessions, call'[t].op = "ask" PROVE call'[t].new.status = "pending"
    BY <1>1, <1>5
<1> QED
    BY <1>2, <1>3, <1>4, <1>5 DEF CalmCalls

\* There is no call any more.
LEMMA NoCall ==
    ASSUME LedgerInv, NEW s \in Sessions, call' = [call EXCEPT ![s] = Idle],
           \A t \in Sessions : t # s => call[t] = Idle
    PROVE  CalmCalls'
<1>1. \A t \in Sessions : call'[t] = Idle /\ call'[t].op = "idle"
    <2>1. Idle \in Calls /\ Idle.op = "idle"
        BY DEF Calls, Idle
    <2>2. call'[s] = Idle /\ \A t \in Sessions : t # s => call'[t] = call[t]
        BY <2>1, CallMoves DEF LedgerInv
    <2> QED
        BY <2>1, <2>2
<1> QED
    BY <1>1 DEF CalmCalls, OneCall, Posting

LEMMA OthersIdle ==
    ASSUME CalmCalls, NEW s \in Sessions, call[s] # Idle, NEW t \in Sessions, t # s
    PROVE  call[t] = Idle
BY DEF CalmCalls, OneCall

\* The first of the calls begins.
LEMMA PostBeginsCalm ==
    ASSUME LedgerInv, CalmInv, calm', NEW s \in Sessions, NEW rows \in Seq(Row),
           NEW ask \in 0 .. Len(asks), Post(s, rows, ask),
           \A i, j \in DOMAIN rows : rows[i].of = rows[j].of => i = j,
           ask # 0 => asks[ask].status = "pending" /\ rows = RowsOf(ask) /\ Covered(ask)
    PROVE  CalmInv'
<1>1. PICK c : c = NewPost(rows, ask)
    OBVIOUS
<1>2. c \in Calls /\ c.op = "post" /\ c.rows = rows /\ c.sums = <<>> /\ c.ask = ask
    <2>1. ask \in 0 .. MaxAsks
        BY Bounds DEF LedgerInv, TypeOK
    <2> QED
        BY <1>1, <2>1 DEF LedgerInv, TypeOK, NewPost, PostCall, Calls
<1>3. /\ call' = [call EXCEPT ![s] = c] /\ calm /\ \A t \in Sessions : call[t] = Idle
      /\ UNCHANGED <<ledger, tally, asks, talliedAt>>
    BY <1>1 DEF Post, Starts, Begins, books, NewPost
<1>4. SumsAhead(c) /\ SettlesOne(c)
    BY <1>2 DEF SumsAhead, SettlesOne
<1>5. CalmCalls'
    BY <1>2, <1>3, <1>4, OnlyCall
<1> QED
    BY <1>3, <1>5, BooksStay DEF CalmInv

LEMMA AddUserPointsCalm ==
    ASSUME LedgerInv, CalmInv, calm', NEW s \in Sessions, NEW u \in Users, NEW amount \in Awards,
           NEW until \in {clock, Never}, AddUserPoints(s, u, amount, until)
    PROVE  CalmInv'
<1>1. PICK rows : rows = <<NewRow(u, amount, until, 0, 0)>>
    OBVIOUS
<1>2. NewRow(u, amount, until, 0, 0) \in Row
    BY Bounds DEF NewRow, Row, LedgerInv, TypeOK
<1>3. rows \in Seq(Row) /\ DOMAIN rows = {1}
    BY <1>1, <1>2
<1>4. Post(s, rows, 0) /\ 0 \in 0 .. Len(asks)
    BY <1>1 DEF AddUserPoints, LedgerInv, TypeOK
<1> QED
    BY <1>3, <1>4, PostBeginsCalm

LEMMA ReverseUserPointsCalm ==
    ASSUME LedgerInv, CalmInv, calm', NEW s \in Sessions, NEW i \in DOMAIN ledger,
           ReverseUserPoints(s, i)
    PROVE  CalmInv'
<1>1. PICK rows : rows = <<NewRow(ledger[i].of, -ledger[i].amount, Never, i, 0)>>
    OBVIOUS
<1>2. ledger[i] \in Row /\ i \in 0 .. MaxRows
    BY Bounds DEF LedgerInv, TypeOK
<1>3. NewRow(ledger[i].of, -ledger[i].amount, Never, i, 0) \in Row
    BY <1>2, Bounds DEF NewRow, Row
<1>4. rows \in Seq(Row) /\ DOMAIN rows = {1}
    BY <1>1, <1>3
<1>5. Post(s, rows, 0) /\ 0 \in 0 .. Len(asks)
    BY <1>1 DEF ReverseUserPoints, LedgerInv, TypeOK
<1> QED
    BY <1>4, <1>5, PostBeginsCalm

\* A post has one row for each user.
LEMMA ApproveCalm ==
    ASSUME LedgerInv, SentToOthers, CalmInv, calm', NEW s \in Sessions, NEW k \in DOMAIN asks,
           Approve(s, k)
    PROVE  CalmInv'
<1>1. PICK rows : rows = RowsOf(k)
    OBVIOUS
<1>2. /\ rows \in Seq(Row) /\ Len(rows) \in 1 .. 2 /\ rows[1].of = asks[k].from
      /\ Len(rows) = 2 => rows[2].of = asks[k].to
    BY <1>1, RowsOfTyped DEF LedgerInv
<1>3. asks[k].to # asks[k].from
    BY DEF SentToOthers
<1>4. ASSUME NEW i \in DOMAIN rows, NEW j \in DOMAIN rows, rows[i].of = rows[j].of PROVE i = j
    <2>1. i \in {1, 2} /\ j \in {1, 2} /\ (i # j => Len(rows) = 2)
        BY <1>2
    <2> QED
        BY <1>2, <1>3, <1>4, <2>1
<1>5. Post(s, rows, k) /\ k \in 0 .. Len(asks) /\ asks[k].status = "pending" /\ Covered(k)
    BY <1>1, AskTyped DEF Approve, LedgerInv
<1> QED
    BY <1>1, <1>2, <1>4, <1>5, PostBeginsCalm

LEMMA CalculateCalm ==
    ASSUME LedgerInv, CalmInv, calm', NEW s \in Sessions, calculate_tallies(s)
    PROVE  CalmInv'
<1>1. PICK c : c = call[s]
    OBVIOUS
<1>2. /\ c \in Calls /\ c.op = "post" /\ WellPosted(c) /\ Len(c.sums) # Len(c.rows)
      /\ calm /\ CalmCalls /\ SumsAhead(c) /\ SettlesOne(c)
    BY <1>1 DEF calculate_tallies, Posting, Posted, history, LedgerInv, TypeOK, CallsOK,
                CalmInv, CalmCalls
<1>3. PICK w : w = Worth(ledger \o c.rows, c.rows[Len(c.sums) + 1].of, c.at)
    OBVIOUS
<1>4. PICK d : d = [c EXCEPT !.sums = Append(c.sums, w)]
    OBVIOUS
<1>5. c \in PostCall /\ Len(c.rows) \in Nat /\ Len(c.sums) \in Nat /\ c.sums \in Seq(Int)
    BY <1>2, PostTyped
<1>6. w \in Int
    <2>1. ledger \in Seq(Row) /\ c.rows \in Seq(Row)
        BY <1>2, PostTyped DEF LedgerInv, TypeOK
    <2>2. ledger \o c.rows \in Seq(Row)
        BY <2>1
    <2> QED
        BY <1>3, <2>2, WorthTyped
<1>7. Append(c.sums, w) \in Seq(Int) /\ Len(Append(c.sums, w)) = Len(c.sums) + 1
    BY <1>5, <1>6
<1>8. /\ d.op = "post" /\ d.at = c.at /\ d.rows = c.rows /\ d.ask = c.ask
      /\ d.sums = Append(c.sums, w)
    BY <1>2, <1>4, <1>5 DEF PostCall
<1>9. d \in Calls
    BY <1>4, <1>5, <1>7 DEF PostCall, Calls
<1>10. /\ call' = [call EXCEPT ![s] = d] /\ UNCHANGED <<ledger, tally, asks, talliedAt>>
       /\ call[s] # Idle
    BY <1>1, <1>2, <1>3, <1>4 DEF calculate_tallies, books, history, LedgerInv, TypeOK, Idle
<1>11. SumsAhead(d)
    <2>1. ASSUME NEW i \in DOMAIN d.sums
          PROVE  d.sums[i] = Worth(ledger \o d.rows, d.rows[i].of, d.at)
        <3>1. CASE i \in DOMAIN c.sums
            <4>1. d.sums[i] = c.sums[i]
                BY <1>5, <1>6, <1>8, <3>1
            <4> QED
                BY <1>2, <1>8, <3>1, <4>1 DEF SumsAhead
        <3>2. CASE i \notin DOMAIN c.sums
            <4>1. i = Len(c.sums) + 1 /\ d.sums[i] = w
                BY <1>5, <1>6, <1>7, <1>8, <3>2
            <4> QED
                BY <1>3, <1>8, <4>1
        <3> QED
            BY <3>1, <3>2
    <2> QED
        BY <1>2, <1>8, <2>1 DEF SumsAhead
<1>12. SettlesOne(d)
    BY <1>2, <1>8 DEF SettlesOne
<1>13. CalmCalls'
    <2>1. \A t \in Sessions : t # s => call[t] = Idle
        BY <1>2, <1>10, OthersIdle
    <2> QED
        BY <1>8, <1>9, <1>10, <1>11, <1>12, <2>1, OnlyCall
<1> QED
    BY <1>2, <1>10, <1>13, BooksStay DEF CalmInv

LEMMA PostCommitCalm ==
    ASSUME LedgerInv, CalmInv, calm', NEW s \in Sessions, PostCommit(s)
    PROVE  CalmInv'
<1>1. PICK c : c = call[s]
    OBVIOUS
<1>2. PICK n : n = Len(ledger)
    OBVIOUS
<1>3. /\ c \in Calls /\ c.op = "post" /\ WellPosted(c) /\ Len(c.sums) = Len(c.rows)
      /\ calm /\ CalmCalls /\ SumsAhead(c) /\ SettlesOne(c)
    BY <1>1 DEF PostCommit, Posting, Posted, LedgerInv, TypeOK, CallsOK, CalmInv, CalmCalls
<1>4. /\ c \in PostCall /\ c.rows \in Seq(Row) /\ c.sums \in Seq(Int) /\ Len(c.rows) \in Nat
      /\ 1 \in DOMAIN c.rows /\ ledger \in Seq(Row) /\ n \in Nat /\ DOMAIN ledger = 1 .. n
      /\ DOMAIN c.rows = 1 .. Len(c.rows) /\ DOMAIN c.sums = DOMAIN c.rows
    BY <1>2, <1>3, PostTyped DEF LedgerInv, TypeOK, WellPosted
<1>5. /\ ledger' = ledger \o c.rows /\ tally' = Tallies(c) /\ asks' = SettledAsk(c)
      /\ talliedAt' = [u \in Users |-> IF u \in Holds(s) THEN c.at ELSE talliedAt[u]]
      /\ call' = [call EXCEPT ![s] = Idle]
    BY <1>1 DEF PostCommit, Ends
<1>6. /\ ledger' \in Seq(Row) /\ Len(ledger') = n + Len(c.rows)
      /\ DOMAIN ledger \subseteq DOMAIN ledger'
      /\ DOMAIN ledger' = 1 .. n + Len(c.rows)
      /\ \A i \in DOMAIN ledger : ledger'[i] = ledger[i]
      /\ \A i \in DOMAIN ledger' : i \notin DOMAIN ledger =>
             i - n \in DOMAIN c.rows /\ ledger'[i] = c.rows[i - n]
      /\ \A i \in DOMAIN c.rows : n + i \in DOMAIN ledger' /\ ledger'[n + i] = c.rows[i]
    <2>1. PICK both, more : both = ledger' /\ more = c.rows
        OBVIOUS
    <2>2. both = ledger \o more /\ more \in Seq(Row)
        BY <1>4, <1>5, <2>1
    <2>3. /\ both \in Seq(Row) /\ Len(both) = n + Len(more) /\ DOMAIN ledger \subseteq DOMAIN both
          /\ \A i \in DOMAIN ledger : both[i] = ledger[i]
          /\ \A i \in DOMAIN both : i \notin DOMAIN ledger =>
                 i - n \in DOMAIN more /\ both[i] = more[i - n]
        BY <1>2, <1>4, <2>2, Joined
    <2>4. \A i \in DOMAIN more : n + i \in DOMAIN both /\ both[n + i] = more[i]
        BY <1>2, <1>4, <2>2, Joined
    <2>5. DOMAIN both = 1 .. n + Len(more)
        BY <2>3
    <2> QED
        BY <2>1, <2>3, <2>4, <2>5
<1>7. /\ c.ask \in 0 .. Len(asks) /\ DOMAIN asks' = DOMAIN asks
      /\ \A k \in DOMAIN asks : k # c.ask => asks'[k] = asks[k]
      /\ c.ask # 0 => c.ask \in DOMAIN asks /\ asks'[c.ask].status = "done"
      /\ \A k \in DOMAIN asks : /\ asks'[k].from = asks[k].from /\ asks'[k].to = asks[k].to
                                /\ asks'[k].amount = asks[k].amount
    BY <1>3, <1>4, <1>5, SettledAskTyped DEF LedgerInv, WellPosted
<1>8. CalmCalls'
    <2>1. call[s] # Idle
        BY <1>1, <1>3 DEF Idle
    <2> QED
        BY <1>3, <1>5, <2>1, OthersIdle, NoCall
<1>9. ASSUME NEW u \in Users PROVE tally'[u].amount = Worth(ledger', u, talliedAt'[u])
    <2>1. CASE \E i \in DOMAIN c.rows : c.rows[i].of = u
        <3>1. PICK i : i = CHOOSE j \in DOMAIN c.rows : c.rows[j].of = u
            OBVIOUS
        <3>2. i \in DOMAIN c.rows /\ c.rows[i].of = u
            BY <2>1, <3>1
        <3>3. tally'[u].amount = c.sums[i]
            BY <1>5, <2>1, <3>1 DEF Tallies
        <3>4. c.sums[i] = Worth(ledger', u, c.at)
            BY <1>3, <1>4, <1>5, <3>2 DEF SumsAhead
        <3>5. u \in Holds(s)
            BY <1>1, <1>3, <1>4, <3>2 DEF Holds, Posting
        <3>6. talliedAt'[u] = c.at
            BY <1>5, <3>5
        <3> QED
            BY <3>3, <3>4, <3>6
    <2>2. CASE ~ \E i \in DOMAIN c.rows : c.rows[i].of = u
        <3>1. tally'[u] = tally[u]
            BY <1>5, <2>2 DEF Tallies
        <3>2. u \notin Holds(s)
            BY <1>1, <1>4, <2>2 DEF Holds
        <3>3. talliedAt'[u] = talliedAt[u]
            BY <1>5, <3>2
        <3>4. Worth(ledger', u, talliedAt[u]) = Worth(ledger, u, talliedAt[u])
            <4>1. PICK now : now = talliedAt[u]
                OBVIOUS
            <4>2. Worth(ledger \o c.rows, u, now) = Worth(ledger, u, now)
                <5>1. PICK more : more = c.rows
                    OBVIOUS
                <5>2. more \in Seq(Row) /\ \A i \in DOMAIN more : more[i].of # u
                    BY <1>4, <2>2, <5>1
                <5>3. Worth(ledger \o more, u, now) = Worth(ledger, u, now)
                    BY <1>4, <5>2, WorthWithOthers
                <5> QED
                    BY <5>1, <5>3
            <4> QED
                BY <1>5, <4>1, <4>2
        <3> QED
            BY <1>3, <3>1, <3>3, <3>4 DEF CalmInv, TallyIsTheLedger
    <2> QED
        BY <2>1, <2>2
<1>10. TallyIsTheLedger'
    BY <1>9 DEF TallyIsTheLedger
<1>11. ASSUME NEW k \in DOMAIN asks PROVE RowsOf(k)' = RowsOf(k)
    BY <1>7 DEF RowsOf
\* A request's rows are there: new ones for the request that is settled.
<1>12. ASSUME NEW k \in DOMAIN asks
       PROVE  IF asks'[k].status = "done"
              THEN \E i, j \in DOMAIN ledger' :
                      {m \in DOMAIN ledger' : ledger'[m].ask = k} = i .. j
                      /\ SubSeq(ledger', i, j) = RowsOf(k)
              ELSE {m \in DOMAIN ledger' : ledger'[m].ask = k} = {}
    <2>1. /\ asks[k].status = "done" => \E i, j \in DOMAIN ledger :
                 RowsFor(k) = i .. j /\ SubSeq(ledger, i, j) = RowsOf(k)
          /\ asks[k].status # "done" => RowsFor(k) = {}
        BY <1>3 DEF CalmInv, SettledOnce
    <2>2. CASE k = c.ask
        <3>1. k # 0 /\ asks[k].status = "pending" /\ c.rows = RowsOf(k) /\ asks'[k].status = "done"
            BY <1>3, <1>7, <2>2, AskTyped DEF SettlesOne, LedgerInv
        <3>2. \A m \in DOMAIN ledger : ledger[m].ask # k
            BY <2>1, <3>1 DEF RowsFor
        <3>3. \A m \in DOMAIN ledger' : ledger'[m].ask = k <=> m \notin DOMAIN ledger
            BY <1>3, <1>6, <2>2, <3>2 DEF WellPosted
        <3>4. {m \in DOMAIN ledger' : ledger'[m].ask = k} = n + 1 .. n + Len(c.rows)
            BY <1>4, <1>6, <3>3
        <3>5. n + 1 \in DOMAIN ledger' /\ n + Len(c.rows) \in DOMAIN ledger'
            BY <1>4, <1>6
        <3>6. SubSeq(ledger', n + 1, n + Len(c.rows)) = c.rows
            <4>1. SubSeq(ledger', n + 1, n + Len(c.rows))
                    = [i \in 1 .. Len(c.rows) |-> ledger'[i + n]]
                BY <1>4, <1>6
            <4>2. ASSUME NEW i \in 1 .. Len(c.rows) PROVE ledger'[i + n] = c.rows[i]
                <5>1. i + n = n + i /\ i \in DOMAIN c.rows
                    BY <1>4
                <5> QED
                    BY <1>6, <5>1
            <4>3. c.rows = [i \in 1 .. Len(c.rows) |-> c.rows[i]]
                BY <1>4
            <4> QED
                BY <4>1, <4>2, <4>3
        <3> QED
            BY <3>1, <3>4, <3>5, <3>6
    <2>3. CASE k # c.ask
        <3>1. asks'[k] = asks[k]
            BY <1>7, <2>3
        <3>2. {m \in DOMAIN ledger' : ledger'[m].ask = k} = RowsFor(k)
            BY <1>3, <1>6, <2>3 DEF RowsFor, WellPosted
        <3>3. CASE asks[k].status = "done"
            <4>1. PICK i, j \in DOMAIN ledger :
                      RowsFor(k) = i .. j /\ SubSeq(ledger, i, j) = RowsOf(k)
                BY <2>1, <3>3
            <4>2. SubSeq(ledger', i, j) = SubSeq(ledger, i, j)
                <5>1. /\ SubSeq(ledger, i, j) = [m \in 1 .. (1 + j - i) |-> ledger[m + i - 1]]
                      /\ SubSeq(ledger', i, j) = [m \in 1 .. (1 + j - i) |-> ledger'[m + i - 1]]
                    BY <1>4, <1>6, PartOfRows
                <5>2. ASSUME NEW m \in 1 .. (1 + j - i) PROVE ledger'[m + i - 1] = ledger[m + i - 1]
                    <6>1. m + i - 1 \in DOMAIN ledger
                        BY <1>4
                    <6> QED
                        BY <1>6, <6>1
                <5> QED
                    BY <5>1, <5>2
            <4>3. i \in DOMAIN ledger' /\ j \in DOMAIN ledger'
                BY <1>6
            <4> QED
                BY <3>1, <3>2, <3>3, <4>1, <4>2, <4>3
        <3>4. CASE asks[k].status # "done"
            BY <2>1, <3>1, <3>2, <3>4
        <3> QED
            BY <3>3, <3>4
    <2> QED
        BY <2>2, <2>3
<1>13. SettledOnce'
    <2>1. ASSUME NEW k \in DOMAIN asks
          PROVE  (IF asks[k].status = "done"
                  THEN \E i, j \in DOMAIN ledger :
                          RowsFor(k) = i .. j /\ SubSeq(ledger, i, j) = RowsOf(k)
                  ELSE RowsFor(k) = {})'
        <3>1. PICK rows : rows = RowsOf(k)
            OBVIOUS
        <3>2. rows = RowsOf(k)'
            BY <1>11, <3>1
        <3> QED
            BY <1>12, <3>1, <3>2 DEF RowsFor
    <2> QED
        BY <1>7, <2>1 DEF SettledOnce
<1> QED
    BY <1>8, <1>10, <1>13 DEF CalmInv

LEMMA RequestCalm ==
    ASSUME LedgerInv, CalmInv, calm', NEW s \in Sessions, NEW from \in Users,
           NEW to \in Users \union {NoOne}, NEW amount \in Amounts, Request(s, from, to, amount)
    PROVE  CalmInv'
<1>1. PICK c : c = [op |-> "ask", new |-> [from |-> from, to |-> to, amount |-> amount,
                                          status |-> "pending", at |-> 0]]
    OBVIOUS
<1>2. c \in Calls /\ c.op = "ask" /\ c.new.status = "pending"
    BY <1>1, Bounds DEF AskCall, Calls, Ask
<1>3. /\ call' = [call EXCEPT ![s] = c] /\ calm /\ \A t \in Sessions : call[t] = Idle
      /\ UNCHANGED <<ledger, tally, asks, talliedAt>>
    BY <1>1 DEF Request, Starts, Begins, books
<1>4. CalmCalls'
    BY <1>2, <1>3, OnlyCall
<1> QED
    BY <1>3, <1>4, BooksStay DEF CalmInv

LEMMA RejectCalm ==
    ASSUME LedgerInv, CalmInv, calm', NEW s \in Sessions, NEW k \in DOMAIN asks, Reject(s, k)
    PROVE  CalmInv'
<1>1. PICK c : c = [op |-> "refuse", ask |-> k]
    OBVIOUS
<1>2. c \in Calls /\ c.op = "refuse" /\ c.ask = k
    BY <1>1, AskTyped DEF RefuseCall, Calls, LedgerInv
<1>3. /\ call' = [call EXCEPT ![s] = c] /\ calm /\ \A t \in Sessions : call[t] = Idle
      /\ asks[k].status = "pending" /\ UNCHANGED <<ledger, tally, asks, talliedAt>>
    BY <1>1 DEF Reject, Starts, Begins, books
<1>4. CalmCalls'
    BY <1>2, <1>3, OnlyCall
<1> QED
    BY <1>3, <1>4, BooksStay DEF CalmInv

\* Requests change that were not done and are not now: the ledger agrees.
LEMMA UnsettledAsks ==
    ASSUME CalmInv, calm, ledger' = ledger, DOMAIN asks \subseteq DOMAIN asks',
           \A k \in DOMAIN asks : /\ asks'[k].from = asks[k].from /\ asks'[k].to = asks[k].to
                                  /\ asks'[k].amount = asks[k].amount
                                  /\ asks'[k].status = "done" <=> asks[k].status = "done",
           \A k \in DOMAIN asks' \ DOMAIN asks : asks'[k].status # "done" /\ RowsFor(k) = {}
    PROVE  SettledOnce'
<1>1. ASSUME NEW k PROVE RowsFor(k)' = RowsFor(k)
    BY DEF RowsFor
<1>2. ASSUME NEW k \in DOMAIN asks'
      PROVE  (IF asks[k].status = "done"
              THEN \E i, j \in DOMAIN ledger :
                      RowsFor(k) = i .. j /\ SubSeq(ledger, i, j) = RowsOf(k)
              ELSE RowsFor(k) = {})'
    <2>1. PICK before : before = RowsFor(k)
        OBVIOUS
    <2>2. before = RowsFor(k)'
        BY <1>1, <2>1
    <2>3. CASE k \in DOMAIN asks
        <3>1. RowsOf(k)' = RowsOf(k)
            BY <2>3 DEF RowsOf
        <3>2. PICK rows : rows = RowsOf(k)
            OBVIOUS
        <3>3. rows = RowsOf(k)'
            BY <3>1, <3>2
        <3>4. IF asks[k].status = "done"
              THEN \E i, j \in DOMAIN ledger : before = i .. j /\ SubSeq(ledger, i, j) = rows
              ELSE before = {}
            BY <2>1, <2>3, <3>2 DEF CalmInv, SettledOnce
        <3> QED
            BY <2>2, <2>3, <3>3, <3>4
    <2>4. CASE k \notin DOMAIN asks
        BY <2>1, <2>2, <2>4
    <2> QED
        BY <2>3, <2>4
<1> QED
    BY <1>2 DEF SettledOnce

LEMMA RequestCommitCalm ==
    ASSUME LedgerInv, CalmInv, calm', NEW s \in Sessions, RequestCommit(s)
    PROVE  CalmInv'
<1>1. PICK c : c = call[s]
    OBVIOUS
<1>2. c \in Calls /\ c.op = "ask" /\ c # Idle /\ calm /\ CalmCalls /\ c.new.status = "pending"
    BY <1>1 DEF RequestCommit, history, LedgerInv, TypeOK, CalmInv, CalmCalls, Idle
<1>3. /\ asks' = Append(asks, c.new) /\ call' = [call EXCEPT ![s] = Idle]
      /\ UNCHANGED <<ledger, tally, talliedAt>>
    BY <1>1 DEF RequestCommit, Ends, history
<1>4. /\ asks \in Seq(Ask) /\ Len(asks) \in Nat /\ c.new \in Ask /\ DOMAIN asks = 1 .. Len(asks)
      /\ DOMAIN asks' = 1 .. Len(asks) + 1
      /\ \A k \in DOMAIN asks : asks'[k] = asks[k]
      /\ asks'[Len(asks) + 1] = c.new
    <2>1. c.new \in Ask
        BY <1>2, CallTyped DEF AskCall
    <2> QED
        BY <1>3, <2>1 DEF LedgerInv, TypeOK
<1>5. CalmCalls'
    BY <1>1, <1>2, <1>3, OthersIdle, NoCall
<1>6. TallyIsTheLedger'
    BY <1>2, <1>3 DEF CalmInv, TallyIsTheLedger
<1>7. ASSUME NEW k \in DOMAIN asks' \ DOMAIN asks
      PROVE  asks'[k].status # "done" /\ RowsFor(k) = {}
    <2>1. k = Len(asks) + 1
        BY <1>4
    <2>2. \A i \in DOMAIN ledger : ledger[i].ask # k
        BY <1>4, <2>1 DEF LedgerInv, RefersBack
    <2> QED
        BY <1>2, <1>4, <2>1, <2>2 DEF RowsFor
<1>8. SettledOnce'
    BY <1>2, <1>3, <1>4, <1>7, UnsettledAsks
<1> QED
    BY <1>5, <1>6, <1>8 DEF CalmInv

LEMMA RejectCommitCalm ==
    ASSUME LedgerInv, CalmInv, calm', NEW s \in Sessions, RejectCommit(s)
    PROVE  CalmInv'
<1>1. PICK k : k = call[s].ask
    OBVIOUS
<1>2. /\ call[s].op = "refuse" /\ call[s] # Idle /\ calm /\ CalmCalls /\ k \in DOMAIN asks
      /\ asks[k].status = "pending"
    BY <1>1 DEF RejectCommit, history, LedgerInv, CallsOK, CalmInv, CalmCalls, Idle
<1>3. /\ asks' = [asks EXCEPT ![k].status = "refused"] /\ call' = [call EXCEPT ![s] = Idle]
      /\ UNCHANGED <<ledger, tally, talliedAt>>
    BY <1>1 DEF RejectCommit, Ends, history
<1>4. /\ DOMAIN asks' = DOMAIN asks /\ \A j \in DOMAIN asks : j # k => asks'[j] = asks[j]
      /\ asks'[k].status = "refused"
      /\ \A j \in DOMAIN asks : /\ asks'[j].from = asks[j].from /\ asks'[j].to = asks[j].to
                                /\ asks'[j].amount = asks[j].amount
    BY <1>2, <1>3, RefusedAskTyped DEF LedgerInv
<1>5. CalmCalls'
    BY <1>2, <1>3, OthersIdle, NoCall
<1>6. TallyIsTheLedger'
    BY <1>2, <1>3 DEF CalmInv, TallyIsTheLedger
<1>7. SettledOnce'
    BY <1>2, <1>3, <1>4, UnsettledAsks
<1> QED
    BY <1>5, <1>6, <1>7 DEF CalmInv

LEMMA RollsBackCalm ==
    ASSUME LedgerInv, CalmInv, calm', NEW s \in Sessions, RollsBack(s)
    PROVE  CalmInv'
<1>1. /\ call[s] # Idle /\ call' = [call EXCEPT ![s] = Idle] /\ calm /\ CalmCalls
      /\ UNCHANGED <<ledger, tally, asks, talliedAt>>
    BY DEF RollsBack, Ends, books, history, CalmInv
<1>2. CalmCalls'
    BY <1>1, OthersIdle, NoCall
<1> QED
    BY <1>1, <1>2, BooksStay DEF CalmInv

LEMMA StillCalm ==
    ASSUME CalmInv, calm', UNCHANGED <<books, call, history>>
    PROVE  CalmInv'
<1>1. calm /\ CalmCalls /\ UNCHANGED <<ledger, tally, asks, talliedAt>>
    BY DEF CalmInv, books, history
<1>2. CalmCalls'
    BY <1>1 DEF CalmCalls, OneCall, Posting, SumsAhead, SettlesOne, RowsOf, Covered, Affords
<1> QED
    BY <1>1, <1>2, BooksStay DEF CalmInv

LEMMA SentToOthersStep ==
    ASSUME LedgerInv, SentToOthers, [Next]_vars
    PROVE  SentToOthers'
<1>1. ASSUME NEW s \in Sessions, NEW c \in Calls, call' = [call EXCEPT ![s] = c], asks' = asks,
             c.op = "ask" => c.new.to # c.new.from
      PROVE  SentToOthers'
    <2>1. call'[s] = c /\ \A t \in Sessions : t # s => call'[t] = call[t]
        BY <1>1, CallMoves DEF LedgerInv
    <2> QED
        BY <1>1, <2>1 DEF SentToOthers
<1>2. Idle \in Calls /\ Idle.op # "ask"
    BY DEF Calls, Idle
<1>3. ASSUME NEW s \in Sessions, NEW rows \in Seq(Row), NEW ask \in 0 .. Len(asks),
             Post(s, rows, ask)
      PROVE  SentToOthers'
    <2>1. PICK c : c = NewPost(rows, ask)
        OBVIOUS
    <2>2. c \in Calls /\ c.op = "post"
        <3>1. ask \in 0 .. MaxAsks
            BY Bounds DEF LedgerInv, TypeOK
        <3> QED
            BY <2>1, <3>1 DEF LedgerInv, TypeOK, NewPost, PostCall, Calls
    <2>3. call' = [call EXCEPT ![s] = c] /\ asks' = asks
        BY <1>3, <2>1 DEF Post, Starts, books, NewPost
    <2> QED
        BY <1>1, <2>2, <2>3
<1>4. ASSUME NEW s \in Sessions, SessionSteps(s) PROVE SentToOthers'
    <2>1. ASSUME NEW u \in Users, NEW amount \in Awards, NEW until \in {clock, Never},
                 AddUserPoints(s, u, amount, until)
          PROVE  SentToOthers'
        <3>1. PICK rows : rows = <<NewRow(u, amount, until, 0, 0)>>
            OBVIOUS
        <3>2. NewRow(u, amount, until, 0, 0) \in Row
            BY Bounds DEF NewRow, Row, LedgerInv, TypeOK
        <3>3. rows \in Seq(Row) /\ Post(s, rows, 0) /\ 0 \in 0 .. Len(asks)
            BY <2>1, <3>1, <3>2 DEF AddUserPoints, LedgerInv, TypeOK
        <3> QED
            BY <1>3, <3>3
    <2>2. ASSUME NEW i \in DOMAIN ledger, ReverseUserPoints(s, i) PROVE SentToOthers'
        <3>1. PICK rows : rows = <<NewRow(ledger[i].of, -ledger[i].amount, Never, i, 0)>>
            OBVIOUS
        <3>2. ledger[i] \in Row /\ i \in 0 .. MaxRows
            BY Bounds DEF LedgerInv, TypeOK
        <3>3. NewRow(ledger[i].of, -ledger[i].amount, Never, i, 0) \in Row
            BY <3>2, Bounds DEF NewRow, Row
        <3>4. rows \in Seq(Row) /\ Post(s, rows, 0) /\ 0 \in 0 .. Len(asks)
            BY <2>2, <3>1, <3>3 DEF ReverseUserPoints, LedgerInv, TypeOK
        <3> QED
            BY <1>3, <3>4
    <2>3. CASE calculate_tallies(s)
        <3>1. asks' = asks /\ \A t \in Sessions : call'[t].op = "ask" => call'[t] = call[t]
            BY <2>3 DEF calculate_tallies, Posting, books, LedgerInv, TypeOK
        <3> QED
            BY <3>1 DEF SentToOthers
    <2>4. CASE PostCommit(s)
        <3>1. PICK c : c = call[s]
            OBVIOUS
        <3>2. c \in PostCall /\ c.ask \in 0 .. Len(asks)
            BY <2>4, <3>1, CallTyped DEF PostCommit, Posted, Posting, LedgerInv, TypeOK, CallsOK,
                                         WellPosted
        <3>3. asks' = SettledAsk(c) /\ call' = [call EXCEPT ![s] = Idle]
            BY <2>4, <3>1 DEF PostCommit, Ends
        <3>4. /\ DOMAIN asks' = DOMAIN asks
              /\ \A k \in DOMAIN asks : asks'[k].from = asks[k].from /\ asks'[k].to = asks[k].to
            BY <3>2, <3>3, SettledAskTyped DEF LedgerInv
        <3>5. call'[s] = Idle /\ \A t \in Sessions : t # s => call'[t] = call[t]
            BY <1>2, <3>3, CallMoves DEF LedgerInv
        <3> QED
            BY <1>2, <3>4, <3>5 DEF SentToOthers
    <2>5. ASSUME NEW from \in Users, NEW to \in Users \union {NoOne}, NEW amount \in Amounts,
                 Request(s, from, to, amount)
          PROVE  SentToOthers'
        <3>1. PICK c : c = [op |-> "ask", new |-> [from |-> from, to |-> to, amount |-> amount,
                                                  status |-> "pending", at |-> 0]]
            OBVIOUS
        <3>2. c \in Calls /\ c.new.to # c.new.from
            BY <2>5, <3>1, Bounds DEF Request, AskCall, Calls, Ask
        <3>3. call' = [call EXCEPT ![s] = c] /\ asks' = asks
            BY <2>5, <3>1 DEF Request, Starts, books
        <3> QED
            BY <1>1, <3>2, <3>3
    <2>6. CASE RequestCommit(s)
        <3>1. /\ call[s].op = "ask" /\ asks' = Append(asks, call[s].new)
              /\ call' = [call EXCEPT ![s] = Idle]
            BY <2>6 DEF RequestCommit, Ends
        <3>2. call'[s] = Idle /\ \A t \in Sessions : t # s => call'[t] = call[t]
            BY <1>2, <3>1, CallMoves DEF LedgerInv
        <3>3. PICK a : a = call[s].new
            OBVIOUS
        <3>4. a \in Ask /\ a.to # a.from
            <4>1. call[s] \in Calls
                BY DEF LedgerInv, TypeOK
            <4> QED
                BY <3>1, <3>3, <4>1, CallTyped DEF AskCall, SentToOthers
        <3>5. \A k \in DOMAIN asks' : asks'[k] = a \/ (k \in DOMAIN asks /\ asks'[k] = asks[k])
            BY <3>1, <3>3, <3>4 DEF LedgerInv, TypeOK
        <3> QED
            BY <1>2, <3>2, <3>4, <3>5 DEF SentToOthers
    <2>7. ASSUME NEW k \in DOMAIN asks, Approve(s, k) PROVE SentToOthers'
        <3>1. PICK rows : rows = RowsOf(k)
            OBVIOUS
        <3>2. rows \in Seq(Row) /\ Post(s, rows, k) /\ k \in 0 .. Len(asks)
            BY <2>7, <3>1, RowsOfTyped, AskTyped DEF Approve, LedgerInv
        <3> QED
            BY <1>3, <3>2
    <2>8. ASSUME NEW k \in DOMAIN asks, Reject(s, k) PROVE SentToOthers'
        <3>1. PICK c : c = [op |-> "refuse", ask |-> k]
            OBVIOUS
        <3>2. c \in Calls /\ c.op = "refuse"
            BY <3>1, AskTyped DEF RefuseCall, Calls, LedgerInv
        <3>3. call' = [call EXCEPT ![s] = c] /\ asks' = asks
            BY <2>8, <3>1 DEF Reject, Starts, books
        <3> QED
            BY <1>1, <3>2, <3>3
    <2>9. CASE RejectCommit(s)
        <3>1. PICK k : k = call[s].ask
            OBVIOUS
        <3>2. /\ k \in DOMAIN asks /\ asks' = [asks EXCEPT ![k].status = "refused"]
              /\ call' = [call EXCEPT ![s] = Idle]
            BY <2>9, <3>1 DEF RejectCommit, Ends, LedgerInv, CallsOK
        <3>3. /\ DOMAIN asks' = DOMAIN asks
              /\ \A j \in DOMAIN asks : asks'[j].from = asks[j].from /\ asks'[j].to = asks[j].to
            BY <3>2, RefusedAskTyped DEF LedgerInv
        <3>4. call'[s] = Idle /\ \A t \in Sessions : t # s => call'[t] = call[t]
            BY <1>2, <3>2, CallMoves DEF LedgerInv
        <3> QED
            BY <1>2, <3>3, <3>4 DEF SentToOthers
    <2>10. CASE RollsBack(s)
        BY <1>1, <1>2, <2>10 DEF RollsBack, Ends, books
    <2> QED
        BY <1>4, <2>1, <2>2, <2>3, <2>4, <2>5, <2>6, <2>7, <2>8, <2>9, <2>10 DEF SessionSteps
<1>5. CASE UNCHANGED <<books, call>>
    BY <1>5 DEF SentToOthers, books
<1> QED
    BY <1>4, <1>5 DEF Next, Tick, vars

\* Calls that begin while another is there end the calm.
LEMMA CalmStep ==
    ASSUME LedgerInv, SentToOthers, CalmInv, calm', [Next]_vars
    PROVE  CalmInv'
<1>1. ASSUME NEW s \in Sessions, SessionSteps(s) PROVE CalmInv'
    <2>1. ASSUME NEW u \in Users, NEW amount \in Awards, NEW until \in {clock, Never},
                 AddUserPoints(s, u, amount, until)
          PROVE  CalmInv'
        BY <2>1, AddUserPointsCalm
    <2>2. ASSUME NEW i \in DOMAIN ledger, ReverseUserPoints(s, i) PROVE CalmInv'
        BY <2>2, ReverseUserPointsCalm
    <2>3. CASE calculate_tallies(s)
        BY <2>3, CalculateCalm
    <2>4. CASE PostCommit(s)
        BY <2>4, PostCommitCalm
    <2>5. ASSUME NEW from \in Users, NEW to \in Users \union {NoOne}, NEW amount \in Amounts,
                 Request(s, from, to, amount)
          PROVE  CalmInv'
        BY <2>5, RequestCalm
    <2>6. CASE RequestCommit(s)
        BY <2>6, RequestCommitCalm
    <2>7. ASSUME NEW k \in DOMAIN asks, Approve(s, k) \/ Reject(s, k) PROVE CalmInv'
        BY <2>7, ApproveCalm, RejectCalm
    <2>8. CASE RejectCommit(s)
        BY <2>8, RejectCommitCalm
    <2>9. CASE RollsBack(s)
        BY <2>9, RollsBackCalm
    <2> QED
        BY <1>1, <2>1, <2>2, <2>3, <2>4, <2>5, <2>6, <2>7, <2>8, <2>9 DEF SessionSteps
<1>2. CASE UNCHANGED <<books, call, history>>
    BY <1>2, StillCalm
<1> QED
    BY <1>1, <1>2 DEF Next, Tick, vars

BooksInv == LedgerInv /\ SentToOthers /\ CalmInv

LEMMA BooksInit == Init => BooksInv
<1> SUFFICES ASSUME Init PROVE BooksInv
    OBVIOUS
<1>1. LedgerInv
    BY LedgerInit
<1>2. DOMAIN asks = {} /\ \A s \in Sessions : call[s] = Idle /\ call[s].op = "idle"
    BY DEF Init, Idle
<1>3. SentToOthers /\ CalmCalls /\ SettledOnce
    BY <1>2 DEF SentToOthers, CalmCalls, OneCall, Posting, SettledOnce
<1>4. ASSUME NEW u \in Users PROVE tally[u].amount = Worth(ledger, u, talliedAt[u])
    <2>1. PICK now, f : now = talliedAt[u] /\ f = [i \in Counted(<<>>, u, now) |-> <<>>[i].amount]
        OBVIOUS
    <2>2. Counted(<<>>, u, now) = {} /\ DOMAIN f = {}
        BY <2>1 DEF Counted
    <2>3. Worth(<<>>, u, now) = SumFunctionOnSet(f, {})
        BY <2>1, <2>2 DEF Worth, SumFunction
    <2>4. Worth(<<>>, u, now) = 0
        BY <2>3, SumEmpty
    <2> QED
        BY <2>1, <2>4 DEF Init, NoTally
<1>5. TallyIsTheLedger
    BY <1>4 DEF TallyIsTheLedger
<1> QED
    BY <1>1, <1>3, <1>5 DEF BooksInv, CalmInv

LEMMA BooksStep == BooksInv /\ [Next]_vars => BooksInv'
<1> SUFFICES ASSUME BooksInv, [Next]_vars PROVE BooksInv'
    OBVIOUS
<1>1. LedgerInv' /\ SentToOthers'
    BY LedgerStep, SentToOthersStep DEF BooksInv
<1>2. CASE calm'
    BY <1>1, <1>2, CalmStep DEF BooksInv
<1>3. CASE ~calm'
    BY <1>1, <1>3 DEF BooksInv, CalmInv, TallyIsTheLedger, SettledOnce
<1> QED
    BY <1>2, <1>3

LEMMA BooksKept == Spec => []BooksInv
BY BooksInit, BooksStep, PTL DEF Spec

\* Until two transactions overlap a tally is what its user's rows came to when
\* the trigger last summed them, whatever is posted, settled or reversed.
THEOREM TalliesAgree == Spec => []TallyIsTheLedger
<1>1. BooksInv => TallyIsTheLedger
    BY DEF BooksInv, CalmInv
<1> QED
    BY <1>1, BooksKept, PTL

\* A settlement moves points once, both sides of them, until two transactions
\* overlap; a reversal undoes a row once, however they overlap.
THEOREM NothingMovesTwice == Spec => []MovedOnce
<1>1. BooksInv => MovedOnce
    BY DEF BooksInv, CalmInv, LedgerInv, MovedOnce
<1> QED
    BY <1>1, BooksKept, PTL

\* A request that becomes done is the one that is posted, and was covered.
LEMMA SettledStep ==
    ASSUME BooksInv, [Next]_vars, calm', NEW k \in DOMAIN asks, asks[k].status # "done",
           asks'[k].status = "done"
    PROVE  Worth(ledger, asks[k].from, talliedAt[asks[k].from]) >= asks[k].amount
<1>1. ASSUME NEW s \in Sessions, PostCommit(s)
      PROVE  Worth(ledger, asks[k].from, talliedAt[asks[k].from]) >= asks[k].amount
    <2>1. PICK c : c = call[s]
        OBVIOUS
    <2>2. /\ c \in PostCall /\ c.ask \in 0 .. Len(asks) /\ asks' = SettledAsk(c) /\ calm
          /\ SettlesOne(c)
        BY <1>1, <2>1, CallTyped DEF PostCommit, Posted, Posting, BooksInv, LedgerInv, TypeOK,
                                     CallsOK, WellPosted, CalmInv, CalmCalls
    <2>3. k = c.ask /\ k # 0
        BY <2>2, SettledAskTyped, AskTyped DEF BooksInv, LedgerInv
    <2>4. tally[asks[k].from].amount >= asks[k].amount
        BY <2>2, <2>3 DEF SettlesOne, Covered, Affords
    <2>5. asks[k].from \in Users
        BY AskTyped DEF BooksInv, LedgerInv
    <2> QED
        BY <2>2, <2>4, <2>5 DEF BooksInv, CalmInv, TallyIsTheLedger
<1>2. ASSUME NEW s \in Sessions, RequestCommit(s) PROVE FALSE
    <2>1. asks' = Append(asks, call[s].new) /\ asks \in Seq(Ask)
        BY <1>2 DEF RequestCommit, BooksInv, LedgerInv, TypeOK
    <2>2. asks'[k] = asks[k]
        BY <2>1
    <2> QED
        BY <2>2
<1>3. ASSUME NEW s \in Sessions, RejectCommit(s) PROVE FALSE
    <2>1. asks' = [asks EXCEPT ![call[s].ask].status = "refused"] /\ asks \in Seq(Ask)
        BY <1>3 DEF RejectCommit, BooksInv, LedgerInv, TypeOK
    <2>2. asks[k] \in Ask
        BY <2>1
    <2>3. asks'[k].status = "refused" \/ asks'[k] = asks[k]
        BY <2>1, <2>2 DEF Ask
    <2> QED
        BY <2>3
<1>4. ASSUME asks' = asks PROVE FALSE
    BY <1>4
<1>5. \/ \E s \in Sessions : PostCommit(s) \/ RequestCommit(s) \/ RejectCommit(s)
      \/ asks' = asks
    BY DEF Next, SessionSteps, Tick, vars, books, AddUserPoints, ReverseUserPoints, Post,
           calculate_tallies, Request, Approve, Reject, RollsBack
<1> QED
    BY <1>1, <1>2, <1>3, <1>4, <1>5

\* Until two transactions overlap no settlement takes more than the rows of
\* the one who pays came to when they were last summed.
THEOREM SettlementsAreCovered == Spec => SettledWithinWorth
<1>1. BooksInv /\ [Next]_vars =>
        [calm' => \A k \in DOMAIN asks :
            (asks[k].status # "done" /\ asks'[k].status = "done") =>
               Worth(ledger, asks[k].from, talliedAt[asks[k].from]) >= asks[k].amount]_vars
    BY SettledStep
<1> QED
    BY <1>1, BooksKept, PTL DEF Spec, SettledWithinWorth
=============================================================================

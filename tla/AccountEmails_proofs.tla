------------------------ MODULE AccountEmails_proofs ------------------------
(***************************************************************************)
(* Theorems about AccountEmails, for any accounts, addresses, sessions and *)
(* bounds.  A verified address was proved however requests interleave; the *)
(* copies of it agree, and stale tokens change nothing, until two          *)
(* transactions have overlapped.                                           *)
(***************************************************************************)
EXTENDS AccountEmails, FiniteSetTheorems, TLAPS

-----------------------------------------------------------------------------
(* What the tables may hold, beside their types.                           *)

\* A key is one row's, and no key or secret is in use that was not made.
KeysApart ==
    /\ \A a \in Addresses : row[a] # NoRow =>
          row[a].key <= made /\ row[a].secret <= made
    /\ \A a, b \in Addresses :
          (row[a] # NoRow /\ row[b] # NoRow /\ row[a].key = row[b].key) => a = b

\* A link opens no row but the one it was mailed for.
LinksKnown ==
    \A m \in mails :
        /\ m.secret <= made
        /\ \A a \in Addresses : (row[a] # NoRow /\ row[a].secret = m.secret) =>
              row[a].of = m.of /\ a = m.email

\* A request that is about to write by key writes the row it has looked at.
CallsKnown ==
    \A s \in Sessions : call[s].op \in {"resend", "verify"} =>
        /\ call[s].key <= made
        /\ \A a \in Addresses : (row[a] # NoRow /\ row[a].key = call[s].key) =>
              /\ call[s].op = "resend" => row[a].of = call[s].of
              /\ call[s].op = "verify" => <<row[a].of, a>> \in evidence

ProofInv == TypeOK /\ KeysApart /\ LinksKnown /\ CallsKnown /\ VerifiedByProof

-----------------------------------------------------------------------------
(* Rows and the memory of a request.                                       *)

\* A row has a key; what has none is no row.
LEMMA RowOrNone ==
    ASSUME TypeOK, NEW a \in Addresses
    PROVE  /\ NoRow \notin Row
           /\ row[a] # NoRow => row[a] \in Row
<1>1. NoRow.key = 0
  BY DEF NoRow
<1>2. \A r \in Row : r.key \in Nat \ {0}
  BY ConstantsAssumption DEF Row, Keys
<1>3. QED
  BY <1>1, <1>2 DEF TypeOK

\* A session's memory holds the arguments its kind of call carries.
LEMMA CallShapes ==
    ASSUME NEW c \in Calls
    PROVE  /\ c.op = "provision" => c \in ProvisionCall
           /\ c.op = "add" => c \in AddCall
           /\ c.op \in {"resend", "verify", "remove"} => c \in RowCall
           /\ c.op = "primary" => c \in PrimaryCall
  BY DEF Calls, Idle, ProvisionCall, AddCall, RowCall, PrimaryCall

\* A call that is under way began at a time.
LEMMA BeganTyped ==
    ASSUME TypeOK, NEW s \in Sessions,
           call[s].op \in {"provision", "add", "resend", "verify", "remove", "primary"}
    PROVE  call[s].began \in Times
<1>1. call[s] \in ProvisionCall \union AddCall \union RowCall \union PrimaryCall
  BY CallShapes DEF TypeOK
<1>2. QED
  BY <1>1 DEF ProvisionCall, AddCall, RowCall, PrimaryCall

\* What a token's provisioning writes is a row, and its key and owner are the
\* old ones unless the address was free.
LEMMA VouchedRow ==
    ASSUME TypeOK, NEW t \in Token, NEW k, NEW n \in Times,
           IsFree(t.email) => k \in Keys
    PROVE  /\ Vouched(t, k, n) \in Row
           /\ IsFree(t.email) => Vouched(t, k, n).key = k /\ Vouched(t, k, n).of = t.of
                                   /\ Vouched(t, k, n).secret = 0
                                   /\ Vouched(t, k, n).verified = t.verified
           /\ ~IsFree(t.email) =>
                /\ Vouched(t, k, n).key = row[t.email].key
                /\ Vouched(t, k, n).of = row[t.email].of
                /\ Vouched(t, k, n).secret \in {0, row[t.email].secret}
                /\ Vouched(t, k, n).verified => row[t.email].verified \/ t.verified
<1>1. t.email \in Addresses /\ t.of \in Accounts /\ t.verified \in BOOLEAN
  BY DEF Token, TypeOK
<1>2. CASE IsFree(t.email)
  BY <1>1, <1>2 DEF Vouched, Row
<1>3. CASE ~IsFree(t.email)
  <2>1. row[t.email] \in Row
    BY <1>1, <1>3, RowOrNone DEF IsFree
  <2>2. QED
    BY <1>1, <1>3, <2>1 DEF Vouched, Row
<1>4. QED
  BY <1>2, <1>3

-----------------------------------------------------------------------------
(* What a step may do to the tables.                                       *)

Writes(s) ==
    \/ ProvisionCommit(s) \/ AddCommit(s) \/ ResendCommit(s) \/ VerifyCommit(s)
    \/ PrimaryCommit(s) \/ RemoveCommit(s)

\* Only commits, and the expiry of a link, write rows or make keys.
LEMMA Writers ==
    ASSUME [Next]_vars
    PROVE  \/ /\ row' = row /\ made' = made /\ mails' = mails
              /\ evidence \subseteq evidence'
           \/ \E s \in Sessions : Writes(s)
           \/ \E a \in Addresses : LinkExpires(a)
<1> USE DEF copies, history
<1>1. CASE UNCHANGED vars
  BY <1>1 DEF vars
<1>2. CASE Tick
  BY <1>2 DEF Tick
<1>3. CASE ProviderSteps
  BY <1>3 DEF ProviderSteps, Mints, TokenExpires, ProviderChanges
<1>4. ASSUME NEW s \in Sessions, SessionSteps(s), ~Writes(s)
      PROVE  /\ row' = row /\ made' = made /\ mails' = mails
             /\ evidence \subseteq evidence'
  <2>1. CASE \E t \in tokens : Authenticate(s, t)
    BY <2>1 DEF Authenticate
  <2>2. CASE ProvisionGuard(s) \/ PrimaryClear(s) \/ setEmail(s) \/ Fails(s)
    BY <2>2 DEF ProvisionGuard, PrimaryClear, setEmail, Fails
  <2>3. CASE \E u \in Accounts, a \in Addresses :
                AddGuard(s, u, a) \/ ResendGuard(s, u, a) \/ PrimaryGuard(s, u, a)
                  \/ RemoveGuard(s, u, a)
    BY <2>3 DEF AddGuard, ResendGuard, PrimaryGuard, RemoveGuard
  <2>4. CASE \E m \in mails : VerifyGuard(s, m)
    BY <2>4 DEF VerifyGuard
  <2>5. QED
    BY <1>4, <2>1, <2>2, <2>3, <2>4 DEF SessionSteps, Writes
<1>5. QED
  BY <1>1, <1>2, <1>3, <1>4 DEF Next

\* A row that is there after a step was there before it, with the key and the
\* owner it has, or has the one key the step made.  A secret is new or old.
RowStep(a) ==
    \/ row'[a] = NoRow
    \/ /\ row[a] = NoRow /\ made' = made + 1
       /\ row'[a] # NoRow /\ row'[a].key = made' /\ row'[a].secret \in {0, made'}
    \/ /\ row[a] # NoRow /\ row'[a] # NoRow
       /\ row'[a].key = row[a].key /\ row'[a].of = row[a].of
       /\ \/ row'[a].secret \in {0, row[a].secret}
          \/ made' = made + 1 /\ row'[a].secret = made'

\* What every step does to the rows and the keys.
RowsMove ==
    /\ row' \in [Addresses -> Row \union {NoRow}]
    /\ made' \in Keys \union {0} /\ made' >= made
    /\ \A a \in Addresses : RowStep(a)
    /\ \A a, b \in Addresses :
          (row[a] = NoRow /\ row[b] = NoRow /\ row'[a] # NoRow /\ row'[b] # NoRow)
             => a = b

\* No step makes an address verified that nobody has proved.
VerifiedStep(a) ==
    (row'[a] # NoRow /\ row'[a].verified) =>
        \/ row[a] # NoRow /\ row[a].verified
        \/ <<row'[a].of, a>> \in evidence'

LEMMA ProvisionRows ==
    ASSUME TypeOK, NEW s \in Sessions, ProvisionCommit(s)
    PROVE  RowsMove /\ \A a \in Addresses : VerifiedStep(a)
<1> DEFINE t == call[s].token
           n == call[s].began
<1>1. t \in Token /\ t.of \in Accounts /\ t.email \in Addresses /\ t.verified \in BOOLEAN
  <2>1. call[s] \in ProvisionCall
    BY CallShapes DEF TypeOK, ProvisionCommit
  <2>2. QED
    BY <2>1 DEF ProvisionCall, Token
<1>2. made \in Nat /\ n \in Times
  BY BeganTyped, ConstantsAssumption DEF TypeOK, Keys, ProvisionCommit
<1>3. CASE row' = row /\ made' = made
  BY <1>2, <1>3 DEF RowsMove, VerifiedStep, RowStep, TypeOK
<1>4. CASE FollowsToken(t, n) /\ (IsFree(t.email) \/ row[t.email].of = t.of)
  <2> DEFINE k == made + 1
  <2>1. /\ IsFree(t.email) => made < MaxMade
        /\ made' = IF IsFree(t.email) THEN k ELSE made
        /\ row' = [a \in Addresses |->
               CASE a = t.email -> Vouched(t, k, n)
                 [] a \in Primaries(t.of) \ {t.email} ->
                       [row[a] EXCEPT !.primary = FALSE, !.changed = n]
                 [] OTHER -> row[a]]
        /\ t.verified => <<t.of, t.email>> \in evidence'
    BY <1>4 DEF FollowsToken
  <2>a. /\ IsFree(t.email) => made < MaxMade
        /\ made' = IF IsFree(t.email) THEN k ELSE made
    BY <2>1, Zenon
  <2>b. t.verified => <<t.of, t.email>> \in evidence'
    BY <2>1, Zenon
  <2>2. IsFree(t.email) => k \in Keys
    BY <1>2, <2>a, ConstantsAssumption DEF Keys
  <2>3. made' \in Keys \union {0} /\ made' >= made
    BY <1>2, <2>a, <2>2 DEF TypeOK
  <2> HIDE DEF t, k, n
  <2>4. ASSUME NEW a \in Addresses, a # t.email
        PROVE  /\ row'[a] \in Row \union {NoRow}
               /\ row[a] = NoRow => row'[a] = NoRow
               /\ row[a] # NoRow => /\ row'[a] # NoRow
                                    /\ row'[a].key = row[a].key /\ row'[a].of = row[a].of
                                    /\ row'[a].secret = row[a].secret
                                    /\ row'[a].verified = row[a].verified
    <3>1. CASE a \in Primaries(t.of)
      <4>1. row'[a] = [row[a] EXCEPT !.primary = FALSE, !.changed = n]
        BY <2>1, <2>4, <3>1
      <4>2. row[a] # NoRow /\ row[a] \in Row
        BY <3>1, RowOrNone DEF Primaries, Held
      <4>3. row'[a] \in Row
        BY <1>2, <4>1, <4>2 DEF Row
      <4>4. QED
        BY <4>1, <4>2, <4>3, RowOrNone DEF Row
    <3>2. CASE a \notin Primaries(t.of)
      BY <2>1, <2>4, <3>2 DEF TypeOK
    <3>3. QED
      BY <3>1, <3>2
  <2>5. row'[t.email] = Vouched(t, k, n)
    BY <1>1, <2>1
  <2>6. Vouched(t, k, n) \in Row /\ Vouched(t, k, n) # NoRow
    BY <1>1, <1>2, <2>2, VouchedRow, RowOrNone
  <2>7. RowStep(t.email)
    <3>1. CASE IsFree(t.email)
      <4>1. /\ made' = k /\ row[t.email] = NoRow
            /\ row'[t.email].key = k /\ row'[t.email].secret = 0
        BY <1>1, <1>2, <2>a, <2>2, <2>5, <3>1, VouchedRow DEF IsFree
      <4>2. QED
        BY <2>5, <2>6, <4>1 DEF RowStep, k
    <3>2. CASE ~IsFree(t.email)
      BY <1>1, <1>2, <2>2, <2>5, <2>6, <3>2, VouchedRow DEF RowStep, IsFree
    <3>3. QED
      BY <3>1, <3>2
  <2>8. \A a \in Addresses : RowStep(a)
    BY <2>4, <2>7 DEF RowStep
  <2>9. row' \in [Addresses -> Row \union {NoRow}]
    <3>1. \A a \in Addresses : row'[a] \in Row \union {NoRow}
      BY <2>4, <2>5, <2>6
    <3>2. QED
      BY <2>1, <3>1
  <2>10. row'[t.email].verified =>
            \/ row[t.email] # NoRow /\ row[t.email].verified
            \/ <<row'[t.email].of, t.email>> \in evidence'
    <3>1. CASE IsFree(t.email)
      BY <1>1, <1>2, <2>2, <2>b, <2>5, <3>1, VouchedRow
    <3>2. CASE ~IsFree(t.email)
      BY <1>1, <1>2, <1>4, <2>2, <2>b, <2>5, <3>2, VouchedRow DEF IsFree
    <3>3. QED
      BY <3>1, <3>2
  <2>11. QED
    BY <2>3, <2>4, <2>8, <2>9, <2>10 DEF RowsMove, VerifiedStep
<1>5. QED
  BY <1>3, <1>4 DEF ProvisionCommit, FollowsToken

LEMMA AddRows ==
    ASSUME TypeOK, NEW s \in Sessions, AddCommit(s)
    PROVE  RowsMove /\ \A a \in Addresses : VerifiedStep(a)
<1> DEFINE u == call[s].of
           x == call[s].email
           k == made + 1
           r == [key |-> k, of |-> u, primary |-> FALSE, verified |-> FALSE,
                 secret |-> k, changed |-> call[s].began]
<1>1. u \in Accounts /\ x \in Addresses
  BY CallShapes DEF TypeOK, AddCommit, AddCall
<1>2. made \in Nat /\ call[s].began \in Times
  BY BeganTyped, ConstantsAssumption DEF TypeOK, Keys, AddCommit
<1>3. CASE ~IsFree(x)
  BY <1>2, <1>3 DEF AddCommit, RowsMove, VerifiedStep, RowStep, TypeOK
<1>4. CASE IsFree(x)
  <2>1. made < MaxMade /\ made' = k /\ row' = [row EXCEPT ![x] = r]
    BY <1>4 DEF AddCommit
  <2>2. k \in Keys /\ k \in Nat /\ made' >= made
    BY <1>2, <2>1, ConstantsAssumption DEF Keys
  <2>3. r \in Row
    BY <1>1, <1>2, <2>2 DEF Row
  <2>4. r # NoRow /\ r.key = made' /\ r.secret = made' /\ ~r.verified
    BY <1>1, <2>1, <2>3, RowOrNone
  <2>5. row' \in [Addresses -> Row \union {NoRow}]
    BY <1>1, <2>1, <2>3 DEF TypeOK
  <2>6. row[x] = NoRow /\ row'[x] = r /\ \A a \in Addresses \ {x} : row'[a] = row[a]
    BY <1>1, <1>4, <2>1 DEF TypeOK, IsFree
  <2> HIDE DEF r
  <2>7. QED
    BY <2>1, <2>2, <2>4, <2>5, <2>6 DEF RowsMove, VerifiedStep, RowStep
<1>5. QED
  BY <1>3, <1>4

\* A commit that writes the rows of one key, or of a snapshot, in place.
LEMMA InPlace ==
    ASSUME TypeOK, made' \in Keys \union {0}, made' = made \/ made' = made + 1,
           row' \in [Addresses -> Row \union {NoRow}],
           \A a \in Addresses :
              \/ row'[a] = row[a]
              \/ row'[a] = NoRow
              \/ /\ row[a] # NoRow /\ row'[a] # NoRow
                 /\ row'[a].key = row[a].key /\ row'[a].of = row[a].of
                 /\ \/ row'[a].secret \in {0, row[a].secret}
                    \/ made' = made + 1 /\ row'[a].secret = made'
    PROVE  RowsMove
<1>1. made \in Nat
  BY ConstantsAssumption DEF TypeOK, Keys
<1>2. QED
  BY <1>1 DEF RowsMove, RowStep

LEMMA ResendRows ==
    ASSUME TypeOK, NEW s \in Sessions, ResendCommit(s)
    PROVE  RowsMove /\ \A a \in Addresses : VerifiedStep(a)
<1> DEFINE k == made + 1
<1>1. made \in Nat /\ call[s].began \in Times /\ made < MaxMade /\ made' = k
  <2>1. made < MaxMade /\ made' = k
    BY Zenon DEF ResendCommit
  <2>2. call[s].began \in Times
    <3>1. call[s].op = "resend"
      BY Zenon DEF ResendCommit
    <3>2. QED
      BY <3>1, BeganTyped
  <2>3. QED
    BY <2>1, <2>2, ConstantsAssumption DEF TypeOK, Keys
<1>2. k \in Keys
  BY <1>1, ConstantsAssumption DEF Keys
<1>3. row' = [a \in Addresses |->
                 IF a \in Having(call[s].key)
                 THEN [row[a] EXCEPT !.secret = k, !.changed = call[s].began] ELSE row[a]]
  BY DEF ResendCommit
<1>4. ASSUME NEW a \in Addresses, a \in Having(call[s].key)
      PROVE  /\ row[a] # NoRow /\ row'[a] \in Row /\ row'[a] # NoRow
             /\ row'[a].key = row[a].key /\ row'[a].of = row[a].of
             /\ row'[a].secret = made' /\ row'[a].verified = row[a].verified
  <2>1. row[a] # NoRow /\ row[a] \in Row
    BY <1>4, RowOrNone DEF Having, IsFree
  <2>2. row'[a] = [row[a] EXCEPT !.secret = k, !.changed = call[s].began]
    BY <1>3, <1>4
  <2>3. row'[a] \in Row
    BY <1>1, <1>2, <2>1, <2>2 DEF Row
  <2>4. QED
    BY <1>1, <2>1, <2>2, <2>3, RowOrNone DEF Row
<1>5. ASSUME NEW a \in Addresses, a \notin Having(call[s].key)
      PROVE  row'[a] = row[a] /\ row'[a] \in Row \union {NoRow}
  BY <1>3, <1>5 DEF TypeOK
<1>6. row' \in [Addresses -> Row \union {NoRow}]
  <2>1. \A a \in Addresses : row'[a] \in Row \union {NoRow}
    BY <1>4, <1>5
  <2>2. QED
    BY <1>3, <2>1
<1>7. RowsMove
  BY <1>1, <1>2, <1>4, <1>5, <1>6, InPlace
<1>8. QED
  BY <1>4, <1>5, <1>7 DEF VerifiedStep

LEMMA VerifyRows ==
    ASSUME TypeOK, NEW s \in Sessions, VerifyCommit(s)
    PROVE  RowsMove /\ (CallsKnown => \A a \in Addresses : VerifiedStep(a))
<1>1. made \in Nat /\ call[s].began \in Times /\ made' = made /\ evidence' = evidence
  <2>1. made' = made /\ evidence' = evidence
    BY DEF VerifyCommit, history
  <2>2. call[s].began \in Times
    <3>1. call[s].op = "verify"
      BY Zenon DEF VerifyCommit
    <3>2. QED
      BY <3>1, BeganTyped
  <2>3. QED
    BY <2>1, <2>2, ConstantsAssumption DEF TypeOK, Keys
<1>2. row' = [a \in Addresses |->
           IF a \in Having(call[s].key)
           THEN [row[a] EXCEPT !.verified = TRUE, !.secret = 0, !.changed = call[s].began]
           ELSE row[a]]
  BY DEF VerifyCommit
<1>3. ASSUME NEW a \in Addresses, a \in Having(call[s].key)
      PROVE  /\ row[a] # NoRow /\ row'[a] \in Row /\ row'[a] # NoRow
             /\ row'[a].key = row[a].key /\ row'[a].of = row[a].of
             /\ row'[a].secret = 0 /\ row[a].key = call[s].key
  <2>1. row[a] # NoRow /\ row[a] \in Row /\ row[a].key = call[s].key
    BY <1>3, RowOrNone DEF Having, IsFree
  <2>2. row'[a] = [row[a] EXCEPT !.verified = TRUE, !.secret = 0, !.changed = call[s].began]
    BY <1>2, <1>3
  <2>3. row'[a] \in Row
    BY <1>1, <2>1, <2>2 DEF Row
  <2>4. QED
    BY <2>1, <2>2, <2>3, RowOrNone DEF Row
<1>4. ASSUME NEW a \in Addresses, a \notin Having(call[s].key)
      PROVE  row'[a] = row[a] /\ row'[a] \in Row \union {NoRow}
  BY <1>2, <1>4 DEF TypeOK
<1>5. row' \in [Addresses -> Row \union {NoRow}]
  <2>1. \A a \in Addresses : row'[a] \in Row \union {NoRow}
    BY <1>3, <1>4
  <2>2. QED
    BY <1>2, <2>1
<1>6. RowsMove
  <2>1. made' \in Keys \union {0}
    BY <1>1 DEF TypeOK
  <2>2. QED
    BY <1>1, <1>3, <1>4, <1>5, <2>1, InPlace
<1>7. ASSUME CallsKnown, NEW a \in Addresses PROVE VerifiedStep(a)
  <2>1. CASE a \in Having(call[s].key)
    <3>1. call[s].op = "verify"
      BY DEF VerifyCommit
    <3>2. <<row[a].of, a>> \in evidence
      BY <1>3, <1>7, <2>1, <3>1 DEF CallsKnown
    <3>3. QED
      BY <1>1, <1>3, <2>1, <3>2 DEF VerifiedStep
  <2>2. CASE a \notin Having(call[s].key)
    BY <1>4, <2>2 DEF VerifiedStep
  <2>3. QED
    BY <2>1, <2>2
<1>8. QED
  BY <1>6, <1>7

LEMMA PrimaryRows ==
    ASSUME TypeOK, NEW s \in Sessions, PrimaryCommit(s)
    PROVE  RowsMove /\ \A a \in Addresses : VerifiedStep(a)
<1> DEFINE c == call[s]
<1>1. made \in Nat /\ call[s].began \in Times /\ made' = made /\ made' \in Keys \union {0}
  <2>1. made' = made
    BY DEF PrimaryCommit
  <2>2. QED
    BY <2>1, BeganTyped, ConstantsAssumption DEF TypeOK, Keys, PrimaryCommit
<1>2. row' = Chosen(c)
  BY DEF PrimaryCommit
<1>3. ASSUME NEW a \in Addresses
      PROVE  \/ row'[a] = row[a]
             \/ row[a] # NoRow /\ \E b \in BOOLEAN :
                   row'[a] = [row[a] EXCEPT !.primary = b, !.changed = call[s].began]
  <2>1. CASE a \in Having(c.key)
    BY <1>2, <2>1 DEF Chosen, Having, IsFree
  <2>2. CASE a \notin Having(c.key) /\ row[a] # NoRow
               /\ row[a].key \in c.seen \ {c.key} /\ row[a].primary
    BY <1>2, <2>2 DEF Chosen
  <2>3. CASE a \notin Having(c.key) /\ ~(row[a] # NoRow
               /\ row[a].key \in c.seen \ {c.key} /\ row[a].primary)
    BY <1>2, <2>3 DEF Chosen
  <2>4. QED
    BY <2>1, <2>2, <2>3
<1>4. ASSUME NEW a \in Addresses, row'[a] # row[a]
      PROVE  /\ row[a] # NoRow /\ row'[a] \in Row /\ row'[a] # NoRow
             /\ row'[a].key = row[a].key /\ row'[a].of = row[a].of
             /\ row'[a].secret = row[a].secret /\ row'[a].verified = row[a].verified
  <2>1. PICK b \in BOOLEAN : row'[a] = [row[a] EXCEPT !.primary = b, !.changed = call[s].began]
    BY <1>3, <1>4
  <2>2. row[a] # NoRow /\ row[a] \in Row
    BY <1>3, <1>4, RowOrNone
  <2>3. row'[a] \in Row
    BY <1>1, <2>1, <2>2 DEF Row
  <2>4. QED
    BY <2>1, <2>2, <2>3, RowOrNone DEF Row
<1>5. row' \in [Addresses -> Row \union {NoRow}]
  <2>1. \A a \in Addresses : row'[a] \in Row \union {NoRow}
    BY <1>4 DEF TypeOK
  <2>2. QED
    BY <1>2, <2>1 DEF Chosen
<1>6. RowsMove
  BY <1>1, <1>4, <1>5, InPlace
<1>7. QED
  BY <1>4, <1>6 DEF VerifiedStep

LEMMA RemoveRows ==
    ASSUME TypeOK, NEW s \in Sessions, RemoveCommit(s)
    PROVE  RowsMove /\ \A a \in Addresses : VerifiedStep(a)
<1>1. row' = [a \in Addresses |-> IF a \in Having(call[s].key) THEN NoRow ELSE row[a]]
  BY DEF RemoveCommit
<1>2. \A a \in Addresses : row'[a] = row[a] \/ row'[a] = NoRow
  BY <1>1
<1>3. row' \in [Addresses -> Row \union {NoRow}]
  BY <1>1, <1>2 DEF TypeOK
<1>4. made' = made /\ made' \in Keys \union {0}
  BY DEF RemoveCommit, TypeOK
<1>5. RowsMove
  BY <1>2, <1>3, <1>4, InPlace
<1>6. QED
  BY <1>2, <1>5 DEF VerifiedStep

LEMMA ExpiryRows ==
    ASSUME TypeOK, NEW x \in Addresses, LinkExpires(x)
    PROVE  RowsMove /\ \A a \in Addresses : VerifiedStep(a)
<1>1. row' = [row EXCEPT ![x] = [row[x] EXCEPT !.secret = 0]] /\ row[x] # NoRow
  BY DEF LinkExpires, IsFree
<1>2. row[x] \in Row
  BY <1>1, RowOrNone
<1>3. /\ row'[x] \in Row /\ row'[x].key = row[x].key /\ row'[x].of = row[x].of
      /\ row'[x].secret = 0 /\ row'[x].verified = row[x].verified
  BY <1>1, <1>2 DEF TypeOK, Row
<1>4. \A a \in Addresses \ {x} : row'[a] = row[a]
  BY <1>1 DEF TypeOK
<1>5. row' \in [Addresses -> Row \union {NoRow}]
  BY <1>1, <1>3 DEF TypeOK
<1>6. made' = made /\ made' \in Keys \union {0}
  BY DEF LinkExpires, TypeOK
<1>7. row'[x] # NoRow
  BY <1>3, RowOrNone
<1>8. RowsMove
  BY <1>1, <1>3, <1>4, <1>5, <1>6, <1>7, InPlace
<1>9. QED
  BY <1>1, <1>3, <1>4, <1>8 DEF VerifiedStep

\* Together: what one step, of whichever kind, does to the rows.
LEMMA Moves ==
    ASSUME TypeOK, [Next]_vars
    PROVE  RowsMove /\ (CallsKnown => \A a \in Addresses : VerifiedStep(a))
<1>1. CASE row' = row /\ made' = made
  <2>1. made \in Nat /\ made \in Keys \union {0}
    BY ConstantsAssumption DEF TypeOK, Keys
  <2>2. QED
    BY <1>1, <2>1 DEF RowsMove, VerifiedStep, RowStep, TypeOK
<1>2. ASSUME NEW s \in Sessions, Writes(s)
      PROVE  RowsMove /\ (CallsKnown => \A a \in Addresses : VerifiedStep(a))
  BY <1>2, ProvisionRows, AddRows, ResendRows, VerifyRows, PrimaryRows, RemoveRows
     DEF Writes
<1>3. QED
  BY <1>1, <1>2, Writers, ExpiryRows

-----------------------------------------------------------------------------
(* Type correctness.                                                       *)

\* The conjuncts of TypeOK that are not about the rows and their keys.
RestOK ==
    /\ clock \in Times
    /\ account \in [Accounts -> BOOLEAN]
    /\ email \in [Accounts -> Addresses \union {None}]
    /\ provider \in [Accounts -> [email : Addresses, verified : BOOLEAN]]
    /\ tokens \subseteq Token /\ mails \subseteq Link
    /\ call \in [Sessions -> Calls]
    /\ calm \in BOOLEAN
    /\ evidence \subseteq Accounts \X Addresses
    /\ contested \subseteq Accounts
    /\ chosenAt \in [Accounts -> Times \union {0}]

LEMMA OutsideSteps ==
    ASSUME TypeOK, ProviderSteps \/ Tick \/ \E a \in Addresses : LinkExpires(a)
    PROVE  RestOK'
<1> USE DEF TypeOK, RestOK, copies, history
<1>1. CASE Tick
  BY <1>1, ConstantsAssumption DEF Tick, Times
<1>2. ASSUME NEW u \in Accounts, Mints(u) PROVE RestOK'
  <2>1. [of |-> u, email |-> provider[u].email,
         verified |-> provider[u].verified, iat |-> clock] \in Token
    BY DEF Token
  <2>2. tokens' \subseteq Token
    BY <1>2, <2>1 DEF Mints
  <2>3. QED
    BY <1>2, <2>2 DEF Mints
<1>3. ASSUME NEW t \in tokens, TokenExpires(t) PROVE RestOK'
  BY <1>3 DEF TokenExpires
<1>4. ASSUME NEW u \in Accounts, NEW a \in Addresses, NEW v \in BOOLEAN,
             ProviderChanges(u, a, v)
      PROVE  RestOK'
  BY <1>4 DEF ProviderChanges
<1>5. ASSUME NEW a \in Addresses, LinkExpires(a) PROVE RestOK'
  BY <1>5 DEF LinkExpires
<1>6. QED
  BY <1>1, <1>2, <1>3, <1>4, <1>5 DEF ProviderSteps

\* A request that starts remembers what its kind of call carries.
LEMMA StartingSteps ==
    ASSUME TypeOK, NEW s \in Sessions,
           \/ \E t \in tokens : Authenticate(s, t)
           \/ \E u \in Accounts, a \in Addresses :
                 AddGuard(s, u, a) \/ ResendGuard(s, u, a) \/ PrimaryGuard(s, u, a)
                   \/ RemoveGuard(s, u, a)
           \/ \E m \in mails : VerifyGuard(s, m)
    PROVE  RestOK'
<1> USE DEF TypeOK, RestOK, copies, history
<1>1. ASSUME NEW t \in tokens, Authenticate(s, t) PROVE RestOK'
  <2>1. [op |-> "provision", at |-> "asked", token |-> t,
         known |-> account[t.of], stale |-> FALSE, began |-> clock] \in Calls
    BY DEF Calls, ProvisionCall, Token
  <2>2. QED
    BY <1>1, <2>1 DEF Authenticate, Starts
<1>2. ASSUME NEW u \in Accounts, NEW a \in Addresses, AddGuard(s, u, a) PROVE RestOK'
  <2>1. [op |-> "add", of |-> u, email |-> a, began |-> clock] \in Calls
    BY DEF Calls, AddCall
  <2>2. QED
    BY <1>2, <2>1 DEF AddGuard, Starts, Begins
<1>3. ASSUME NEW u \in Accounts, NEW a \in Addresses, a \in Held(u)
      PROVE  /\ row[a].key \in Keys /\ row[a].of = u
             /\ [op |-> "resend", of |-> u, key |-> row[a].key, began |-> clock] \in Calls
             /\ [op |-> "remove", of |-> u, key |-> row[a].key, began |-> clock] \in Calls
             /\ [op |-> "primary", at |-> "guarded", of |-> u, key |-> row[a].key,
                 email |-> a, seen |-> {}, began |-> clock] \in Calls
  <2>1. row[a].key \in Keys /\ row[a].of = u
    BY <1>3, RowOrNone DEF Held, Row
  <2>2. QED
    BY <2>1 DEF Calls, RowCall, PrimaryCall
<1>4. ASSUME NEW u \in Accounts, NEW a \in Addresses, ResendGuard(s, u, a) PROVE RestOK'
  BY <1>3, <1>4 DEF ResendGuard, Starts, Begins
<1>5. ASSUME NEW u \in Accounts, NEW a \in Addresses, RemoveGuard(s, u, a) PROVE RestOK'
  BY <1>3, <1>5 DEF RemoveGuard, Starts, Begins
<1>6. ASSUME NEW u \in Accounts, NEW a \in Addresses, PrimaryGuard(s, u, a) PROVE RestOK'
  BY <1>3, <1>6 DEF PrimaryGuard, MayBecomePrimary, Starts, Begins
<1>7. ASSUME NEW m \in mails, VerifyGuard(s, m) PROVE RestOK'
  <2>1. PICK a \in RowOfLink(m) :
           Starts(s, [op |-> "verify", of |-> row[a].of, key |-> row[a].key,
                        began |-> clock])
    BY <1>7 DEF VerifyGuard
  <2>2. row[a].of \in Accounts /\ row[a].key \in Keys
    BY <2>1, RowOrNone DEF RowOfLink, IsFree, Row
  <2>3. [op |-> "verify", of |-> row[a].of, key |-> row[a].key, began |-> clock] \in Calls
    BY <2>2 DEF Calls, RowCall
  <2>4. <<m.of, m.email>> \in Accounts \X Addresses
    BY DEF Link
  <2>5. QED
    BY <1>7, <2>1, <2>3, <2>4 DEF VerifyGuard, Starts, Begins
<1>8. QED
  BY <1>1, <1>2, <1>4, <1>5, <1>6, <1>7

LEMMA ContinuingSteps ==
    ASSUME TypeOK, NEW s \in Sessions,
           \/ ProvisionGuard(s) \/ ProvisionCommit(s)
           \/ AddCommit(s) \/ ResendCommit(s) \/ VerifyCommit(s) \/ RemoveCommit(s)
           \/ PrimaryClear(s) \/ PrimaryCommit(s) \/ setEmail(s) \/ Fails(s)
    PROVE  RestOK'
<1> USE DEF TypeOK, RestOK, copies, history
<1>0. call[s] \in Calls /\ Idle \in Calls
  BY DEF Calls
<1>1. Ends(s) => call' \in [Sessions -> Calls]
  BY <1>0 DEF Ends
<1>2. CASE Fails(s)
  BY <1>1, <1>2 DEF Fails
<1>3. CASE VerifyCommit(s) \/ RemoveCommit(s)
  BY <1>1, <1>3 DEF VerifyCommit, RemoveCommit
<1>4. CASE ProvisionGuard(s)
  <2>1. call[s] \in ProvisionCall
    BY <1>0, <1>4, CallShapes DEF ProvisionGuard
  <2>2. call[s].token.of \in Accounts
    BY <2>1 DEF ProvisionCall, Token
  <2>3. PICK known \in BOOLEAN, stale \in BOOLEAN :
           call' = [call EXCEPT ![s] = [call[s] EXCEPT !.at = "guarded",
                                           !.known = known, !.stale = stale,
                                           !.began = clock]]
    <3>1. call' = [call EXCEPT ![s] = [call[s] EXCEPT !.at = "guarded",
                      !.known = account[call[s].token.of],
                      !.stale = Predates(call[s].token), !.began = clock]]
      BY <1>4 DEF ProvisionGuard
    <3>2. Predates(call[s].token) \in BOOLEAN
      BY DEF Predates
    <3>3. QED
      BY <2>2, <3>1, <3>2
  <2>4. call'[s] \in ProvisionCall
    BY <2>1, <2>3 DEF ProvisionCall
  <2>5. call' \in [Sessions -> Calls]
    BY <2>3, <2>4 DEF Calls
  <2>6. QED
    BY <1>4, <2>5 DEF ProvisionGuard, Begins
<1>5. CASE ProvisionCommit(s)
  <2> DEFINE t == call[s].token
  <2>1. t.of \in Accounts /\ t.email \in Addresses
    <3>1. call[s] \in ProvisionCall
      BY <1>0, <1>5, CallShapes DEF ProvisionCommit
    <3>2. QED
      BY <3>1 DEF ProvisionCall, Token
  <2>2. UNCHANGED <<email, evidence, contested>>
        \/ (email' = [email EXCEPT ![t.of] = t.email] /\ FollowsToken(t, call[s].began))
    BY <1>5 DEF ProvisionCommit
  <2>3. FollowsToken(t, call[s].began) => /\ contested' \subseteq contested \union {t.of}
                           /\ evidence' \subseteq evidence \union {<<t.of, t.email>>}
    BY DEF FollowsToken
  <2>4. /\ account' = [account EXCEPT ![t.of] = TRUE] /\ Ends(s)
        /\ UNCHANGED <<clock, provider, tokens, mails, calm, chosenAt>>
    BY <1>5 DEF ProvisionCommit
  <2> HIDE DEF t
  <2>5. email' \in [Accounts -> Addresses \union {None}] /\ contested' \subseteq Accounts
        /\ evidence' \subseteq Accounts \X Addresses
    BY <2>1, <2>2, <2>3
  <2>6. QED
    BY <1>1, <2>1, <2>4, <2>5
<1>6. CASE AddCommit(s)
  <2>1. call[s] \in AddCall
    BY <1>0, <1>6, CallShapes DEF AddCommit
  <2>2. mails' = mails \/ mails' = mails \union {[of |-> call[s].of,
                             email |-> call[s].email, secret |-> made']}
    BY <1>6 DEF AddCommit
  <2>3. made < MaxMade /\ made' = made + 1 => made' \in Keys
    BY ConstantsAssumption DEF Keys
  <2>4. mails' # mails => made < MaxMade /\ made' = made + 1
    BY <1>6 DEF AddCommit
  <2>5. mails' \subseteq Link
    BY <2>1, <2>2, <2>3, <2>4 DEF Link, AddCall
  <2>6. QED
    BY <1>1, <1>6, <2>5 DEF AddCommit
<1>7. CASE ResendCommit(s)
  <2>1. call[s] \in RowCall
    BY <1>0, <1>7, CallShapes DEF ResendCommit
  <2>2. made < MaxMade /\ made' = made + 1
    BY <1>7, Zenon DEF ResendCommit
  <2>3. made' \in Keys
    BY <2>2, ConstantsAssumption DEF Keys
  <2>4. \A m \in mails' : m \in mails \/ \E a \in Addresses :
           m = [of |-> call[s].of, email |-> a, secret |-> made']
    BY <1>7 DEF ResendCommit, Having
  <2>5. mails' \subseteq Link
    BY <2>1, <2>3, <2>4 DEF Link, RowCall
  <2>6. QED
    BY <1>1, <1>7, <2>5 DEF ResendCommit
<1>8. CASE PrimaryClear(s)
  <2>1. call[s] \in PrimaryCall
    BY <1>0, <1>8, CallShapes DEF PrimaryClear
  <2>2. {row[a].key : a \in Primaries(call[s].of)} \in SUBSET Keys
    BY RowOrNone DEF Primaries, Held, Row
  <2>3. PICK seen \in SUBSET Keys :
           call' = [call EXCEPT ![s] = [call[s] EXCEPT !.at = "clearing", !.seen = seen]]
    BY <1>8, <2>2 DEF PrimaryClear
  <2>4. call'[s] \in PrimaryCall
    BY <2>1, <2>3 DEF PrimaryCall
  <2>5. call' \in [Sessions -> Calls]
    BY <2>3, <2>4 DEF Calls
  <2>6. QED
    BY <1>8, <2>5 DEF PrimaryClear
<1>9. CASE PrimaryCommit(s)
  <2>1. call[s] \in PrimaryCall
    BY <1>0, <1>9, CallShapes DEF PrimaryCommit
  <2>2. [call[s] EXCEPT !.at = "provider"] \in Calls
    <3>1. [call[s] EXCEPT !.at = "provider"] \in PrimaryCall
      BY <2>1 DEF PrimaryCall
    <3>2. QED
      BY <3>1 DEF Calls
  <2>3. call' \in [Sessions -> Calls]
    <3>1. Ends(s) \/ call' = [call EXCEPT ![s] = [call[s] EXCEPT !.at = "provider"]]
      BY <1>9 DEF PrimaryCommit
    <3>2. QED
      BY <1>1, <2>2, <3>1
  <2>4. call[s].of \in Accounts /\ call[s].email \in Addresses /\ call[s].began \in Times
    BY <2>1 DEF PrimaryCall
  <2>5. /\ email' = [email EXCEPT ![call[s].of] = call[s].email]
        /\ contested' = contested \ {call[s].of}
        /\ chosenAt' = [chosenAt EXCEPT ![call[s].of] = call[s].began]
    BY <1>9 DEF PrimaryCommit
  <2>6. UNCHANGED <<clock, account, provider, tokens, mails, calm, evidence>>
    BY <1>9 DEF PrimaryCommit
  <2>7. QED
    BY <2>3, <2>4, <2>5, <2>6
<1>10. CASE setEmail(s)
  <2>1. call[s] \in PrimaryCall
    BY <1>0, <1>10, CallShapes DEF setEmail
  <2>2. call[s].of \in Accounts /\ call[s].email \in Addresses
    BY <2>1 DEF PrimaryCall
  <2>3. QED
    BY <1>1, <1>10, <2>2 DEF setEmail
<1>11. QED
  BY <1>2, <1>3, <1>4, <1>5, <1>6, <1>7, <1>8, <1>9, <1>10

\* Every reachable state is well typed, whatever runs at once.
THEOREM TypeCorrect == Spec => []TypeOK
<1>1. Init => TypeOK
  BY ConstantsAssumption DEF Init, TypeOK, Times, Keys, Calls
<1>2. TypeOK /\ [Next]_vars => TypeOK'
  <2> SUFFICES ASSUME TypeOK, [Next]_vars PROVE TypeOK'
    OBVIOUS
  <2>1. row' \in [Addresses -> Row \union {NoRow}] /\ made' \in Keys \union {0}
    BY Moves DEF RowsMove
  <2>2. RestOK'
    <3>1. CASE UNCHANGED vars
      BY <3>1 DEF vars, copies, history, TypeOK, RestOK
    <3>2. ASSUME NEW s \in Sessions, SessionSteps(s) PROVE RestOK'
      BY <3>2, StartingSteps, ContinuingSteps DEF SessionSteps
    <3>3. QED
      BY <3>1, <3>2, OutsideSteps DEF Next
  <2>3. QED
    BY <2>1, <2>2 DEF TypeOK, RestOK
<1>3. QED
  BY <1>1, <1>2, PTL DEF Spec

-----------------------------------------------------------------------------
(* What is verified was proved, whatever runs at once.                     *)

\* A request's memory changes in its own steps alone, and only a guard makes
\* it one of the kinds the invariant speaks of.
LEMMA NewCalls ==
    ASSUME TypeOK, [Next]_vars, NEW t \in Sessions, call'[t] # call[t]
    PROVE  \/ call'[t].op \in {"idle", "provision", "add", "remove"}
           \/ \E u \in Accounts, a \in Addresses : ResendGuard(t, u, a) \/ PrimaryGuard(t, u, a)
           \/ \E m \in mails : VerifyGuard(t, m)
           \/ /\ call[t].op = "primary" /\ call'[t].op = "primary"
              /\ call'[t].of = call[t].of /\ call'[t].email = call[t].email
<1>1. PICK s \in Sessions : SessionSteps(s)
  BY DEF Next, vars, ProviderSteps, Mints, TokenExpires, ProviderChanges, LinkExpires, Tick
<1>2. ASSUME NEW c, call' = [call EXCEPT ![s] = c] PROVE s = t /\ call'[t] = c
  BY <1>2 DEF TypeOK
<1>3. CASE Ends(s)
  BY <1>2, <1>3 DEF Ends, Idle
<1>4. CASE \E k \in tokens : Authenticate(s, k)
  BY <1>2, <1>4 DEF Authenticate, Starts
<1>5. CASE \E u \in Accounts, a \in Addresses : AddGuard(s, u, a) \/ RemoveGuard(s, u, a)
  BY <1>2, <1>5 DEF AddGuard, RemoveGuard, Starts
<1>6. CASE \E u \in Accounts, a \in Addresses : ResendGuard(s, u, a) \/ PrimaryGuard(s, u, a)
  <2>1. s = t
    BY <1>2, <1>6 DEF ResendGuard, PrimaryGuard, Starts
  <2>2. QED
    BY <1>6, <2>1
<1>7. CASE \E m \in mails : VerifyGuard(s, m)
  <2>1. s = t
    BY <1>2, <1>7 DEF VerifyGuard, Starts
  <2>2. QED
    BY <1>7, <2>1
<1>8. CASE ProvisionGuard(s)
  <2>1. call[s] \in ProvisionCall
    BY <1>8, CallShapes DEF ProvisionGuard, TypeOK
  <2>2. PICK known, stale :
           call' = [call EXCEPT ![s] = [call[s] EXCEPT !.at = "guarded",
                                           !.known = known, !.stale = stale,
                                           !.began = clock]]
    BY <1>8 DEF ProvisionGuard
  <2>3. /\ s = t
        /\ call'[t] = [call[s] EXCEPT !.at = "guarded", !.known = known, !.stale = stale,
                                      !.began = clock]
    BY <1>2, <2>2
  <2>4. QED
    BY <2>1, <2>3 DEF ProvisionCall
<1>9. CASE PrimaryClear(s)
  <2>1. call[s] \in PrimaryCall /\ call[s].op = "primary"
    BY <1>9, CallShapes DEF PrimaryClear, TypeOK
  <2>2. PICK seen :
           call' = [call EXCEPT ![s] = [call[s] EXCEPT !.at = "clearing", !.seen = seen]]
    BY <1>9 DEF PrimaryClear
  <2>3. s = t /\ call'[t] = [call[s] EXCEPT !.at = "clearing", !.seen = seen]
    BY <1>2, <2>2
  <2>4. QED
    BY <2>1, <2>3 DEF PrimaryCall
<1>10. CASE PrimaryCommit(s) /\ ~Ends(s)
  <2>1. call[s] \in PrimaryCall /\ call[s].op = "primary"
    BY <1>10, CallShapes DEF PrimaryCommit, TypeOK
  <2>2. call' = [call EXCEPT ![s] = [call[s] EXCEPT !.at = "provider"]]
    BY <1>10 DEF PrimaryCommit
  <2>3. s = t /\ call'[t] = [call[s] EXCEPT !.at = "provider"]
    BY <1>2, <2>2
  <2>4. QED
    BY <2>1, <2>3 DEF PrimaryCall
<1>11. CASE ProvisionCommit(s) \/ AddCommit(s) \/ ResendCommit(s) \/ VerifyCommit(s)
              \/ RemoveCommit(s) \/ setEmail(s) \/ Fails(s)
  <2>1. Ends(s)
    BY <1>11 DEF ProvisionCommit, AddCommit, ResendCommit, VerifyCommit, RemoveCommit,
       setEmail, Fails
  <2>2. QED
    BY <1>3, <2>1
<1>12. QED
  BY <1>1, <1>3, <1>4, <1>5, <1>6, <1>7, <1>8, <1>9, <1>10, <1>11 DEF SessionSteps

\* What was proved stays proved.
LEMMA EvidenceStays ==
    ASSUME [Next]_vars
    PROVE  evidence \subseteq evidence'
<1>1. ASSUME NEW s \in Sessions, Writes(s) PROVE evidence \subseteq evidence'
  <2>1. CASE ProvisionCommit(s)
    BY <2>1 DEF ProvisionCommit, FollowsToken
  <2>2. CASE AddCommit(s) \/ ResendCommit(s) \/ VerifyCommit(s) \/ PrimaryCommit(s)
               \/ RemoveCommit(s)
    BY <2>2 DEF AddCommit, ResendCommit, VerifyCommit, PrimaryCommit, RemoveCommit, history
  <2>3. QED
    BY <1>1, <2>1, <2>2 DEF Writes
<1>2. QED
  BY <1>1, Writers DEF LinkExpires, history

\* Keys and secrets are numbers, and those of a row or a link are positive.
LEMMA Numbers ==
    ASSUME TypeOK
    PROVE  /\ made \in Nat
           /\ \A a \in Addresses : row[a] # NoRow =>
                 row[a].key \in Nat \ {0} /\ row[a].secret \in Nat
           /\ \A m \in mails : m.secret \in Nat \ {0}
           /\ \A s \in Sessions : call[s].op \in {"resend", "verify"} =>
                 call[s].key \in Nat \ {0}
<1> USE ConstantsAssumption DEF Keys
<1>1. made \in Nat
  BY DEF TypeOK
<1>2. ASSUME NEW a \in Addresses, row[a] # NoRow
      PROVE  row[a].key \in Nat \ {0} /\ row[a].secret \in Nat
  BY <1>2, RowOrNone DEF Row
<1>3. ASSUME NEW m \in mails PROVE m.secret \in Nat \ {0}
  BY DEF TypeOK, Link
<1>4. ASSUME NEW s \in Sessions, call[s].op \in {"resend", "verify"}
      PROVE  call[s].key \in Nat \ {0}
  <2>1. call[s] \in RowCall
    BY <1>4, CallShapes DEF TypeOK
  <2>2. QED
    BY <2>1 DEF RowCall
<1>5. QED
  BY <1>1, <1>2, <1>3, <1>4

LEMMA KeysStayApart ==
    ASSUME TypeOK, TypeOK', RowsMove, KeysApart
    PROVE  KeysApart'
<1>1. ASSUME NEW a \in Addresses, row'[a] # NoRow
      PROVE  row'[a].key <= made' /\ row'[a].secret <= made'
  <2>1. made' >= made /\ made \in Nat /\ made' \in Nat
    BY Numbers, ConstantsAssumption DEF RowsMove, Keys
  <2>2. CASE row[a] = NoRow
    BY <1>1, <2>1, <2>2 DEF RowsMove, RowStep
  <2>3. CASE row[a] # NoRow
    <3>1. row[a].key <= made /\ row[a].secret <= made
          /\ row[a].key \in Nat /\ row[a].secret \in Nat
      BY <2>3, Numbers DEF KeysApart
    <3>2. QED
      BY <1>1, <2>1, <2>3, <3>1 DEF RowsMove, RowStep
  <2>4. QED
    BY <2>2, <2>3
<1>2. ASSUME NEW a \in Addresses, NEW b \in Addresses,
             row'[a] # NoRow, row'[b] # NoRow, row'[a].key = row'[b].key
      PROVE  a = b
  <2>1. made \in Nat /\ RowStep(a) /\ RowStep(b)
    BY Numbers DEF RowsMove
  <2>2. CASE row[a] # NoRow /\ row[b] # NoRow
    BY <1>2, <2>1, <2>2 DEF KeysApart, RowStep
  <2>3. CASE row[a] = NoRow /\ row[b] = NoRow
    BY <1>2, <2>3 DEF RowsMove
  <2>4. CASE row[a] = NoRow /\ row[b] # NoRow
    <3>1. row[b].key <= made /\ row[b].key \in Nat
      BY <2>4, Numbers DEF KeysApart
    <3>2. row'[a].key = made + 1 /\ row'[b].key = row[b].key
      BY <1>2, <2>1, <2>4 DEF RowStep
    <3>3. row[b].key = made + 1
      BY <1>2, <3>2, Zenon
    <3>4. QED
      BY <2>1, <3>1, <3>3
  <2>5. CASE row[a] # NoRow /\ row[b] = NoRow
    <3>1. row[a].key <= made /\ row[a].key \in Nat
      BY <2>5, Numbers DEF KeysApart
    <3>2. row'[b].key = made + 1 /\ row'[a].key = row[a].key
      BY <1>2, <2>1, <2>5 DEF RowStep
    <3>3. row[a].key = made + 1
      BY <1>2, <3>2, Zenon
    <3>4. QED
      BY <2>1, <3>1, <3>3
  <2>6. QED
    BY <2>2, <2>3, <2>4, <2>5
<1>3. QED
  BY <1>1, <1>2 DEF KeysApart

\* A link that was mailed keeps opening the row it was mailed for, or nothing.
LEMMA OldLinksKnown ==
    ASSUME TypeOK, RowsMove, LinksKnown, NEW m \in mails
    PROVE  /\ m.secret <= made'
           /\ \A a \in Addresses : (row'[a] # NoRow /\ row'[a].secret = m.secret) =>
                 row'[a].of = m.of /\ a = m.email
<1>1. /\ m.secret <= made /\ made' >= made /\ m.secret \in Nat \ {0}
      /\ made \in Nat /\ made' \in Nat
  BY Numbers, ConstantsAssumption DEF LinksKnown, RowsMove, Keys
<1>2. m.secret <= made'
  BY <1>1
<1>3. ASSUME NEW a \in Addresses, row'[a] # NoRow, row'[a].secret = m.secret
      PROVE  row'[a].of = m.of /\ a = m.email
  <2>1. row[a] # NoRow /\ row'[a].of = row[a].of /\ row[a].secret = m.secret
    BY <1>1, <1>3 DEF RowsMove, RowStep
  <2>2. QED
    BY <2>1 DEF LinksKnown
<1>4. QED
  BY <1>2, <1>3

LEMMA LinksStayKnown ==
    ASSUME TypeOK, [Next]_vars, RowsMove, KeysApart, LinksKnown, CallsKnown
    PROVE  LinksKnown'
<1> SUFFICES ASSUME NEW m \in mails'
             PROVE  /\ m.secret <= made'
                    /\ \A a \in Addresses :
                         (row'[a] # NoRow /\ row'[a].secret = m.secret) =>
                            row'[a].of = m.of /\ a = m.email
  BY DEF LinksKnown
<1>1. CASE m \in mails
  BY <1>1, OldLinksKnown
<1>2. ASSUME NEW s \in Sessions, AddCommit(s), m \notin mails
      PROVE  /\ m.secret <= made'
             /\ \A a \in Addresses : (row'[a] # NoRow /\ row'[a].secret = m.secret) =>
                   row'[a].of = m.of /\ a = m.email
  <2> DEFINE x == call[s].email
             r == [key |-> made + 1, of |-> call[s].of, primary |-> FALSE,
                   verified |-> FALSE, secret |-> made + 1, changed |-> call[s].began]
  <2>1. /\ made' = made + 1 /\ row' = [row EXCEPT ![x] = r]
        /\ m = [of |-> call[s].of, email |-> x, secret |-> made + 1]
    BY <1>2 DEF AddCommit
  <2>2. x \in Addresses
    BY <1>2, CallShapes DEF AddCommit, TypeOK, AddCall
  <2>3. made \in Nat
    BY Numbers
  <2>4. ASSUME NEW a \in Addresses, a # x, row'[a] # NoRow PROVE row'[a].secret # made + 1
    <3>1. row'[a] = row[a]
      BY <2>1, <2>4 DEF TypeOK
    <3>2. row[a].secret <= made /\ row[a].secret \in Nat
      BY <2>4, <3>1, Numbers DEF KeysApart
    <3>3. QED
      BY <2>3, <3>1, <3>2
  <2>5. row'[x].of = m.of /\ x = m.email
    BY <2>1, <2>2 DEF TypeOK
  <2>6. m.secret = made + 1 /\ m.secret <= made'
    BY <2>1, <2>3
  <2>7. QED
    BY <2>4, <2>5, <2>6
<1>3. ASSUME NEW s \in Sessions, ResendCommit(s), m \notin mails
      PROVE  /\ m.secret <= made'
             /\ \A a \in Addresses : (row'[a] # NoRow /\ row'[a].secret = m.secret) =>
                   row'[a].of = m.of /\ a = m.email
  <2>1. made \in Nat /\ made' = made + 1
    BY <1>3, Numbers, Zenon DEF ResendCommit
  <2>2. PICK b \in Having(call[s].key) :
           m = [of |-> call[s].of, email |-> b, secret |-> made + 1]
    BY <1>3 DEF ResendCommit
  <2>3. m.secret = made + 1 /\ m.secret <= made'
    BY <2>1, <2>2
  <2>4. b \in Addresses /\ row[b] # NoRow /\ row[b].key = call[s].key
        /\ row[b].of = call[s].of
    BY <1>3, <2>2 DEF Having, IsFree, CallsKnown, ResendCommit
  <2>5. ASSUME NEW a \in Addresses, a # b, row'[a] # NoRow PROVE row'[a].secret # made + 1
    <3>1. a \notin Having(call[s].key)
      BY <2>4, <2>5 DEF Having, IsFree, KeysApart
    <3>2. row'[a] = row[a]
      BY <1>3, <3>1 DEF ResendCommit
    <3>3. row[a].secret <= made /\ row[a].secret \in Nat
      BY <2>5, <3>2, Numbers DEF KeysApart
    <3>4. QED
      BY <2>1, <3>2, <3>3
  <2>6. row'[b] # NoRow => row'[b].of = row[b].of
    BY <2>4 DEF RowsMove, RowStep
  <2>7. QED
    BY <2>2, <2>3, <2>4, <2>5, <2>6
<1>4. mails' = mails \/ \E s \in Sessions : AddCommit(s) \/ ResendCommit(s)
  <2>1. ASSUME NEW s \in Sessions, Writes(s), ~AddCommit(s), ~ResendCommit(s)
        PROVE  mails' = mails
    BY <2>1 DEF Writes, ProvisionCommit, VerifyCommit, PrimaryCommit, RemoveCommit
  <2>2. QED
    BY <2>1, Writers DEF LinkExpires
<1>5. QED
  BY <1>1, <1>2, <1>3, <1>4

LEMMA CallsStayKnown ==
    ASSUME TypeOK, [Next]_vars, RowsMove, KeysApart, LinksKnown, CallsKnown
    PROVE  CallsKnown'
<1> SUFFICES ASSUME NEW t \in Sessions, call'[t].op \in {"resend", "verify"}
             PROVE  /\ call'[t].key <= made'
                    /\ \A a \in Addresses :
                         (row'[a] # NoRow /\ row'[a].key = call'[t].key) =>
                            /\ call'[t].op = "resend" => row'[a].of = call'[t].of
                            /\ call'[t].op = "verify" => <<row'[a].of, a>> \in evidence'
  BY DEF CallsKnown
<1>0. made \in Nat /\ made' \in Nat /\ made' >= made /\ evidence \subseteq evidence'
  BY Numbers, EvidenceStays, ConstantsAssumption DEF RowsMove, Keys
<1>1. CASE call'[t] = call[t]
  <2>1. call[t].key <= made /\ call[t].key \in Nat \ {0}
    BY <1>1, Numbers DEF CallsKnown
  <2>2. ASSUME NEW a \in Addresses, row'[a] # NoRow, row'[a].key = call[t].key
        PROVE  row[a] # NoRow /\ row[a].key = call[t].key /\ row'[a].of = row[a].of
    BY <1>0, <2>1, <2>2 DEF RowsMove, RowStep
  <2>3. QED
    BY <1>0, <1>1, <2>1, <2>2 DEF CallsKnown
<1>2. CASE call'[t] # call[t]
  <2>1. \/ \E u \in Accounts, a \in Addresses : ResendGuard(t, u, a)
        \/ \E m \in mails : VerifyGuard(t, m)
    <3>1. ASSUME NEW u \in Accounts, NEW a \in Addresses, PrimaryGuard(t, u, a)
          PROVE  call'[t].op = "primary"
      BY <3>1 DEF PrimaryGuard, Starts, TypeOK
    <3>2. QED
      BY <1>2, <3>1, NewCalls
  <2>2. ASSUME NEW u \in Accounts, NEW b \in Addresses, ResendGuard(t, u, b)
        PROVE  /\ call'[t].op = "resend" /\ call'[t].of = u /\ row' = row
               /\ row[b] # NoRow /\ call'[t].key = row[b].key /\ row[b].of = u
    BY <2>2 DEF ResendGuard, Starts, Held, TypeOK, copies
  <2>3. ASSUME NEW m \in mails, VerifyGuard(t, m)
        PROVE  \E b \in Addresses :
                  /\ call'[t].op = "verify" /\ row' = row /\ row[b] # NoRow
                  /\ call'[t].key = row[b].key /\ <<row[b].of, b>> \in evidence'
    <3>1. PICK b \in RowOfLink(m) :
             Starts(t, [op |-> "verify", of |-> row[b].of, key |-> row[b].key, began |-> clock])
      BY <2>3 DEF VerifyGuard
    <3>2. b \in Addresses /\ row[b] # NoRow /\ row[b].of = m.of /\ b = m.email
      BY <3>1 DEF RowOfLink, IsFree, LinksKnown
    <3>3. row' = row /\ <<m.of, m.email>> \in evidence'
      BY <2>3 DEF VerifyGuard, copies
    <3>4. call'[t] = [op |-> "verify", of |-> row[b].of, key |-> row[b].key, began |-> clock]
      BY <3>1 DEF Starts, TypeOK
    <3>5. QED
      BY <3>2, <3>3, <3>4
  <2>4. PICK b \in Addresses :
           /\ row' = row /\ row[b] # NoRow /\ call'[t].key = row[b].key
           /\ \/ call'[t].op = "resend" /\ row[b].of = call'[t].of
              \/ call'[t].op = "verify" /\ <<row[b].of, b>> \in evidence'
    BY <2>1, <2>2, <2>3
  <2>5. row[b].key <= made' /\ \A a \in Addresses :
           (row[a] # NoRow /\ row[a].key = row[b].key) => a = b
    <3>1. row[b].key <= made /\ row[b].key \in Nat
      BY <2>4, Numbers DEF KeysApart
    <3>2. QED
      BY <1>0, <2>4, <3>1 DEF KeysApart
  <2>6. QED
    BY <2>4, <2>5
<1>3. QED
  BY <1>1, <1>2

LEMMA ProofStays ==
    ASSUME TypeOK, [Next]_vars, RowsMove, \A a \in Addresses : VerifiedStep(a),
           VerifiedByProof
    PROVE  VerifiedByProof'
<1>0. evidence \subseteq evidence'
  BY EvidenceStays
<1>1. ASSUME NEW a \in Addresses, row'[a] # NoRow, row'[a].verified
      PROVE  <<row'[a].of, a>> \in evidence'
  <2>1. CASE row[a] # NoRow /\ row[a].verified
    <3>1. row'[a].of = row[a].of
      BY <1>1, <2>1 DEF RowsMove, RowStep
    <3>2. QED
      BY <1>0, <2>1, <3>1 DEF VerifiedByProof
  <2>2. QED
    BY <1>1, <2>1 DEF VerifiedStep
<1>2. ASSUME NEW t \in Sessions, call'[t].op = "primary"
      PROVE  <<call'[t].of, call'[t].email>> \in evidence'
  <2>1. CASE call'[t] = call[t]
    BY <1>0, <1>2, <2>1 DEF VerifiedByProof
  <2>2. ASSUME NEW u \in Accounts, NEW a \in Addresses, PrimaryGuard(t, u, a)
        PROVE  <<call'[t].of, call'[t].email>> \in evidence'
    <3>1. call'[t].of = u /\ call'[t].email = a
      BY <2>2 DEF PrimaryGuard, Starts, TypeOK
    <3>2. row[a] # NoRow /\ row[a].of = u /\ row[a].verified
      BY <2>2 DEF PrimaryGuard, MayBecomePrimary, Held
    <3>3. QED
      BY <1>0, <3>1, <3>2 DEF VerifiedByProof
  <2>3. ASSUME NEW u \in Accounts, NEW a \in Addresses, ResendGuard(t, u, a)
        PROVE  call'[t].op = "resend"
    BY <2>3 DEF ResendGuard, Starts, TypeOK
  <2>4. ASSUME NEW m \in mails, VerifyGuard(t, m) PROVE call'[t].op = "verify"
    BY <2>4 DEF VerifyGuard, Starts, TypeOK
  <2>5. CASE /\ call[t].op = "primary"
             /\ call'[t].of = call[t].of /\ call'[t].email = call[t].email
    BY <1>0, <2>5 DEF VerifiedByProof
  <2>6. QED
    BY <1>2, <2>1, <2>2, <2>3, <2>4, <2>5, NewCalls
<1>3. QED
  BY <1>1, <1>2 DEF VerifiedByProof

LEMMA AlwaysProofInv == Spec => []ProofInv
<1>1. Init => ProofInv
  <2> SUFFICES ASSUME Init PROVE ProofInv
    OBVIOUS
  <2>1. TypeOK
    BY ConstantsAssumption DEF Init, TypeOK, Times, Keys, Calls
  <2>2. /\ \A a \in Addresses : row[a] = NoRow
        /\ \A s \in Sessions : call[s].op = "idle"
        /\ mails = {}
    BY DEF Init, Idle
  <2>3. QED
    BY <2>1, <2>2 DEF ProofInv, KeysApart, LinksKnown, CallsKnown, VerifiedByProof
<1>2. ProofInv /\ TypeOK' /\ [Next]_vars => ProofInv'
  <2> SUFFICES ASSUME ProofInv, TypeOK', [Next]_vars PROVE ProofInv'
    OBVIOUS
  <2> USE DEF ProofInv
  <2>1. RowsMove /\ \A a \in Addresses : VerifiedStep(a)
    BY Moves
  <2>2. KeysApart'
    BY <2>1, KeysStayApart
  <2>3. LinksKnown'
    BY <2>1, LinksStayKnown
  <2>4. CallsKnown'
    BY <2>1, CallsStayKnown
  <2>5. VerifiedByProof'
    BY <2>1, ProofStays
  <2>6. QED
    BY <2>2, <2>3, <2>4, <2>5
<1>3. QED
  BY <1>1, <1>2, TypeCorrect, PTL DEF Spec

\* VerifyUserEmail, SetPrimaryUserEmail, ProvisionUser: however requests
\* interleave, an address that is verified for an account, or about to be its
\* login, was proved by a link mailed for that account or vouched for by its
\* token.
THEOREM Proved == Spec => []VerifiedByProof
<1>1. ProofInv => VerifiedByProof
  BY DEF ProofInv
<1>2. QED
  BY <1>1, AlwaysProofInv, PTL

-----------------------------------------------------------------------------
(* Until two transactions have overlapped: what a transaction has read is   *)
(* still so when it writes, and the two copies of an address agree.         *)

\* An account that has not signed in holds no address, adds none, and has not
\* chosen one.
Strangers ==
    /\ \A a \in Addresses : row[a] # NoRow => account[row[a].of]
    /\ \A s \in Sessions : call[s].op = "add" => account[call[s].of]

\* What was chosen, and what is under way, began no later than now.
ChosenBefore ==
    /\ \A u \in Accounts : chosenAt[u] <= clock
    /\ \A s \in Sessions : IsOpen(call[s]) => call[s].began <= clock

\* No account has chosen since an open transaction began.
NoneChosenSince ==
    \A s \in Sessions : IsOpen(call[s]) =>
        \A u \in Accounts : chosenAt[u] <= call[s].began

OneTransaction ==
    \A s, t \in Sessions : (IsOpen(call[s]) /\ IsOpen(call[t])) => s = t

OnePrimary ==
    \A a, b \in Addresses :
        (/\ row[a] # NoRow /\ row[b] # NoRow /\ row[a].of = row[b].of
         /\ row[a].primary /\ row[b].primary) => a = b

SaysTheSame ==
    \A u \in Accounts : (account[u] /\ u \notin contested) => email[u] \in Primaries(u)

\* An account that has chosen an address has a primary one since.
ChoiceStands ==
    \A u \in Accounts : chosenAt[u] # 0 =>
        /\ Primaries(u) # {}
        /\ \A a \in Primaries(u) : row[a].changed >= chosenAt[u]

\* What a transaction has read is still so.
ProvisionStands(c) == (c.op = "provision" /\ c.at = "guarded") => c.stale = Predates(c.token)
RemovalStands(c) ==
    c.op = "remove" => \A a \in Addresses :
        (row[a] # NoRow /\ row[a].key = c.key) => ~row[a].primary
ChoiceIsOf(c) ==
    (c.op = "primary" /\ c.at # "provider") =>
        row[c.email] # NoRow /\ row[c.email].key = c.key /\ row[c.email].of = c.of
ClearingStands(c) ==
    (c.op = "primary" /\ c.at = "clearing") =>
        c.seen = {row[a].key : a \in Primaries(c.of)}
ReadStands ==
    \A s \in Sessions :
        /\ ProvisionStands(call[s]) /\ RemovalStands(call[s])
        /\ ChoiceIsOf(call[s]) /\ ClearingStands(call[s])

CalmInv ==
    /\ Strangers /\ ChosenBefore
    /\ calm => /\ OneTransaction /\ NoneChosenSince /\ ReadStands
               /\ OnePrimary /\ SaysTheSame /\ ChoiceStands

\* What LinkExpires and the steps that write no rows leave alone.
Frozen ==
    \A a \in Addresses :
        /\ row'[a] = NoRow <=> row[a] = NoRow
        /\ row[a] # NoRow =>
              /\ row'[a].of = row[a].of /\ row'[a].key = row[a].key
              /\ row'[a].primary = row[a].primary /\ row'[a].changed = row[a].changed

LEMMA FrozenLists ==
    ASSUME Frozen
    PROVE  /\ \A u : Primaries(u)' = Primaries(u)
           /\ \A u : {row[a].key : a \in Primaries(u)}' = {row[a].key : a \in Primaries(u)}
           /\ \A t : Predates(t)' = Predates(t)
<1>1. ASSUME NEW u PROVE Primaries(u)' = Primaries(u)
  BY DEF Frozen, Primaries, Held
<1>2. ASSUME NEW u PROVE \A a \in Primaries(u) : row'[a].key = row[a].key
                                            /\ row'[a].changed = row[a].changed
  BY DEF Frozen, Primaries, Held
<1>3. ASSUME NEW u
      PROVE  {row[a].key : a \in Primaries(u)}' = {row[a].key : a \in Primaries(u)}
  <2>1. {row[a].key : a \in Primaries(u)}' = {row'[a].key : a \in Primaries(u)}
    BY <1>1
  <2>2. QED
    BY <1>2, <2>1
<1>4. ASSUME NEW t PROVE Predates(t)' = Predates(t)
  BY <1>1, <1>2 DEF Predates
<1>5. QED
  BY <1>1, <1>3, <1>4

\* A link that expires changes nothing but its secret.
LEMMA ExpiryFreezes ==
    ASSUME TypeOK, NEW b \in Addresses, LinkExpires(b)
    PROVE  Frozen /\ UNCHANGED <<clock, account, email, call, calm, contested, chosenAt>>
<1>1. row[b] # NoRow /\ row' = [row EXCEPT ![b] = [row[b] EXCEPT !.secret = 0]]
  BY DEF LinkExpires, IsFree
<1>2. row[b] \in Row /\ row'[b] = [row[b] EXCEPT !.secret = 0]
  BY <1>1, RowOrNone DEF TypeOK
<1>3. row'[b].key = row[b].key /\ row'[b].of = row[b].of /\ row'[b].primary = row[b].primary
      /\ row'[b].changed = row[b].changed
  BY <1>2 DEF Row
<1>4. row[b].key # 0
  BY <1>2, ConstantsAssumption DEF Row, Keys
<1>5. row'[b] # NoRow
  BY <1>3, <1>4 DEF NoRow
<1>6. \A a \in Addresses \ {b} : row'[a] = row[a]
  BY <1>1 DEF TypeOK
<1>7. QED
  BY <1>1, <1>3, <1>5, <1>6 DEF Frozen, LinkExpires, history

\* Every other step that is no commit leaves both copies alone.
LEMMA Still ==
    ASSUME TypeOK, [Next]_vars
    PROVE  \/ /\ UNCHANGED <<account, email, row, contested, chosenAt>>
              /\ clock' \in {clock, clock + 1} /\ (calm' => calm)
           \/ \E s \in Sessions : Writes(s)
           \/ \E a \in Addresses : LinkExpires(a)
<1> USE DEF copies, history
<1>1. CASE UNCHANGED vars
  BY <1>1 DEF vars
<1>2. CASE Tick
  BY <1>2 DEF Tick
<1>3. CASE ProviderSteps
  BY <1>3 DEF ProviderSteps, Mints, TokenExpires, ProviderChanges
<1>4. ASSUME NEW s \in Sessions, SessionSteps(s), ~Writes(s)
      PROVE  /\ UNCHANGED <<account, email, row, contested, chosenAt>>
             /\ clock' = clock /\ (calm' => calm)
  <2>1. CASE \E t \in tokens : Authenticate(s, t)
    BY <2>1 DEF Authenticate
  <2>2. CASE ProvisionGuard(s) \/ PrimaryClear(s) \/ setEmail(s) \/ Fails(s)
    <3>1. CASE ProvisionGuard(s)
      BY <3>1, Zenon DEF ProvisionGuard, Begins
    <3>2. CASE PrimaryClear(s)
      BY <3>2, Zenon DEF PrimaryClear
    <3>3. CASE setEmail(s) \/ Fails(s)
      BY <3>3 DEF setEmail, Fails
    <3>4. QED
      BY <2>2, <3>1, <3>2, <3>3
  <2>3. CASE \E u \in Accounts, a \in Addresses :
                AddGuard(s, u, a) \/ ResendGuard(s, u, a) \/ PrimaryGuard(s, u, a)
                  \/ RemoveGuard(s, u, a)
    BY <2>3 DEF AddGuard, ResendGuard, PrimaryGuard, RemoveGuard, Begins
  <2>4. CASE \E m \in mails : VerifyGuard(s, m)
    BY <2>4 DEF VerifyGuard, Begins
  <2>5. QED
    BY <1>4, <2>1, <2>2, <2>3, <2>4 DEF SessionSteps, Writes
<1>5. QED
  BY <1>1, <1>2, <1>3, <1>4 DEF Next

\* A commit ends the transaction of its own session, which was open.
LEMMA CommitsEnd ==
    ASSUME TypeOK, NEW s \in Sessions, Writes(s)
    PROVE  /\ IsOpen(call[s]) /\ ~IsOpen(call'[s])
           /\ \A t \in Sessions \ {s} : call'[t] = call[t]
           /\ calm' = calm /\ clock' = clock
<1>1. CASE Ends(s) /\ ~PrimaryCommit(s)
  <2>1. call'[s] = Idle /\ \A t \in Sessions \ {s} : call'[t] = call[t]
    BY <1>1 DEF Ends, TypeOK
  <2>2. ~IsOpen(call'[s])
    BY <2>1 DEF IsOpen, Idle
  <2>3. QED
    BY <1>1, <2>1, <2>2 DEF Writes, ProvisionCommit, AddCommit, ResendCommit, VerifyCommit,
       RemoveCommit, IsOpen, history
<1>2. CASE PrimaryCommit(s)
  <2>1. call[s].op = "primary" /\ call[s].at = "clearing" /\ calm' = calm /\ clock' = clock
    BY <1>2 DEF PrimaryCommit
  <2>2. call[s] \in PrimaryCall
    BY <2>1, CallShapes DEF TypeOK
  <2>3. CASE Ends(s)
    BY <2>1, <2>3 DEF Ends, TypeOK, IsOpen, Idle
  <2>4. CASE call' = [call EXCEPT ![s] = [call[s] EXCEPT !.at = "provider"]]
    <3>1. /\ call'[s] = [call[s] EXCEPT !.at = "provider"]
          /\ \A t \in Sessions \ {s} : call'[t] = call[t]
      BY <2>4 DEF TypeOK
    <3>2. call'[s].op = "primary" /\ call'[s].at = "provider"
      BY <2>2, <3>1 DEF PrimaryCall
    <3>3. QED
      BY <2>1, <3>1, <3>2 DEF IsOpen
  <2>5. QED
    BY <1>2, <2>3, <2>4 DEF PrimaryCommit
<1>3. QED
  BY <1>1, <1>2 DEF Writes, ProvisionCommit, AddCommit, ResendCommit, VerifyCommit, RemoveCommit

\* While a transaction waits and none has overlapped it, the tables wait too.
LEMMA Waits ==
    ASSUME TypeOK, [Next]_vars, calm => OneTransaction, calm',
           NEW t \in Sessions, IsOpen(call[t]), call'[t] = call[t]
    PROVE  Frozen
<1>1. CASE row' = row
  BY <1>1 DEF Frozen
<1>2. ASSUME NEW s \in Sessions, Writes(s) PROVE FALSE
  <2>1. IsOpen(call[s]) /\ ~IsOpen(call'[s]) /\ calm
    BY <1>2, CommitsEnd
  <2>2. s = t
    BY <2>1 DEF OneTransaction
  <2>3. QED
    BY <2>1, <2>2
<1>3. QED
  BY <1>1, <1>2, Still, ExpiryFreezes

\* The steps after which a transaction is open that was not, or has read more.
Guards(t) ==
    \/ ProvisionGuard(t)
    \/ \E u \in Accounts, a \in Addresses :
          AddGuard(t, u, a) \/ ResendGuard(t, u, a) \/ PrimaryGuard(t, u, a)
            \/ RemoveGuard(t, u, a)
    \/ \E m \in mails : VerifyGuard(t, m)

LEMMA Opening ==
    ASSUME TypeOK, [Next]_vars, NEW t \in Sessions, call'[t] # call[t], IsOpen(call'[t])
    PROVE  /\ \A s \in Sessions \ {t} : call'[s] = call[s]
           /\ Guards(t) \/ PrimaryClear(t)
<1>1. PICK s \in Sessions : SessionSteps(s)
  BY DEF Next, vars, ProviderSteps, Mints, TokenExpires, ProviderChanges, LinkExpires, Tick
<1>2. ASSUME NEW c, call' = [call EXCEPT ![s] = c]
      PROVE  /\ s = t /\ call'[t] = c
             /\ \A v \in Sessions \ {t} : call'[v] = call[v]
  BY <1>2 DEF TypeOK
<1>3. ASSUME Ends(s) PROVE FALSE
  BY <1>2, <1>3 DEF Ends, Idle, IsOpen
<1>4. ASSUME NEW k \in tokens, Authenticate(s, k) PROVE FALSE
  BY <1>2, <1>4 DEF Authenticate, Starts, IsOpen
<1>5. CASE \E u \in Accounts, a \in Addresses :
              AddGuard(s, u, a) \/ ResendGuard(s, u, a) \/ PrimaryGuard(s, u, a)
                \/ RemoveGuard(s, u, a)
  <2>1. PICK c : call' = [call EXCEPT ![s] = c]
    BY <1>5 DEF AddGuard, ResendGuard, PrimaryGuard, RemoveGuard, Starts
  <2>2. QED
    BY <1>2, <1>5, <2>1 DEF Guards
<1>6. CASE \E m \in mails : VerifyGuard(s, m)
  <2>1. PICK c : call' = [call EXCEPT ![s] = c]
    BY <1>6 DEF VerifyGuard, Starts
  <2>2. QED
    BY <1>2, <1>6, <2>1 DEF Guards
<1>7. CASE ProvisionGuard(s)
  <2>1. PICK known, stale :
           call' = [call EXCEPT ![s] = [call[s] EXCEPT !.at = "guarded",
                                           !.known = known, !.stale = stale,
                                           !.began = clock]]
    BY <1>7 DEF ProvisionGuard
  <2>2. QED
    BY <1>2, <1>7, <2>1 DEF Guards
<1>8. CASE PrimaryClear(s)
  <2>1. PICK seen :
           call' = [call EXCEPT ![s] = [call[s] EXCEPT !.at = "clearing", !.seen = seen]]
    BY <1>8 DEF PrimaryClear
  <2>2. QED
    BY <1>2, <1>8, <2>1
<1>9. ASSUME Writes(s) PROVE FALSE
  <2>1. ~IsOpen(call'[s]) /\ \A v \in Sessions \ {s} : call'[v] = call[v]
    BY <1>9, CommitsEnd
  <2>2. QED
    BY <2>1
<1>10. CASE setEmail(s) \/ Fails(s)
  BY <1>3, <1>10 DEF setEmail, Fails
<1>11. QED
  BY <1>1, <1>4, <1>5, <1>6, <1>7, <1>8, <1>9, <1>10 DEF SessionSteps, Writes

LEMMA GuardsBegin ==
    ASSUME NEW t \in Sessions, Guards(t)
    PROVE  Begins /\ row' = row
  BY DEF Guards, ProvisionGuard, AddGuard, ResendGuard, PrimaryGuard, RemoveGuard, VerifyGuard, copies

LEMMA StillOneTransaction ==
    ASSUME TypeOK, [Next]_vars, calm => OneTransaction, calm'
    PROVE  OneTransaction'
<1> SUFFICES ASSUME NEW s \in Sessions, NEW t \in Sessions,
                    IsOpen(call'[s]), IsOpen(call'[t]), s # t
             PROVE  FALSE
  BY DEF OneTransaction, IsOpen
<1>1. ASSUME NEW v \in Sessions, NEW w \in Sessions, v # w,
             IsOpen(call'[v]), IsOpen(call'[w]), call'[v] # call[v]
      PROVE  FALSE
  <2>1. call'[w] = call[w] /\ (Guards(v) \/ PrimaryClear(v))
    BY <1>1, Opening
  <2>2. CASE Guards(v)
    <3>1. calm' = (calm /\ ~\E x \in Sessions : IsOpen(call[x]))
      BY <2>2, GuardsBegin DEF Begins
    <3>2. QED
      BY <1>1, <2>1, <3>1
  <2>3. CASE PrimaryClear(v)
    <3>1. IsOpen(call[v]) /\ calm
      BY <2>3 DEF PrimaryClear, IsOpen, history
    <3>2. QED
      BY <1>1, <2>1, <3>1 DEF OneTransaction
  <2>4. QED
    BY <2>1, <2>2, <2>3
<1>2. CASE call'[s] = call[s] /\ call'[t] = call[t]
  <2>1. calm
    BY Still, CommitsEnd, ExpiryFreezes
  <2>2. QED
    BY <1>2, <2>1 DEF OneTransaction
<1>3. QED
  BY <1>1, <1>2

\* What a transaction has read is read again by nobody else, and stays so.
LEMMA ReadStaysTrue ==
    ASSUME Frozen, NEW c, ProvisionStands(c), RemovalStands(c), ChoiceIsOf(c), ClearingStands(c),
           (c.op = "primary" /\ c.at # "provider") => c.email \in Addresses
    PROVE  ProvisionStands(c)' /\ RemovalStands(c)' /\ ChoiceIsOf(c)' /\ ClearingStands(c)'
<1>1. ProvisionStands(c)'
  BY FrozenLists DEF ProvisionStands
<1>2. RemovalStands(c)'
  BY DEF RemovalStands, Frozen
<1>3. ChoiceIsOf(c)'
  BY DEF ChoiceIsOf, Frozen
<1>4. ClearingStands(c)'
  BY FrozenLists DEF ClearingStands
<1>5. QED
  BY <1>1, <1>2, <1>3, <1>4

LEMMA ReadOfGuard ==
    ASSUME TypeOK, KeysApart, NEW t \in Sessions, Guards(t), NEW c, c = call'[t]
    PROVE  ProvisionStands(c)' /\ RemovalStands(c)' /\ ChoiceIsOf(c)' /\ ClearingStands(c)'
<1>0. row' = row
  BY GuardsBegin
<1>1. CASE ProvisionGuard(t)
  <2>1. call[t] \in ProvisionCall
    BY <1>1, CallShapes DEF ProvisionGuard, TypeOK
  <2>2. PICK k : k = call[t].token
    OBVIOUS
  <2>3. call' = [call EXCEPT ![t] = [call[t] EXCEPT !.at = "guarded", !.known = account[k.of],
                                        !.stale = Predates(k), !.began = clock]]
    BY <1>1, <2>2 DEF ProvisionGuard
  <2>4. c = [call[t] EXCEPT !.at = "guarded", !.known = account[k.of], !.stale = Predates(k),
                            !.began = clock]
    BY <2>3 DEF TypeOK
  <2>5. c.op = "provision" /\ c.token = k /\ c.stale = Predates(k)
    BY <2>1, <2>2, <2>4 DEF ProvisionCall
  <2>6. Predates(k)' = Predates(k)
    BY <1>0 DEF Predates, Primaries, Held
  <2>7. QED
    BY <2>5, <2>6 DEF ProvisionStands, RemovalStands, ChoiceIsOf, ClearingStands
<1>2. ASSUME NEW u \in Accounts, NEW a \in Addresses, AddGuard(t, u, a) \/ ResendGuard(t, u, a)
      PROVE  c.op \in {"add", "resend"}
  BY <1>2 DEF AddGuard, ResendGuard, Starts, TypeOK
<1>3. ASSUME NEW m \in mails, VerifyGuard(t, m)
      PROVE  c.op = "verify"
  BY <1>3 DEF VerifyGuard, Starts, TypeOK
<1>4. ASSUME NEW u \in Accounts, NEW b \in Addresses, RemoveGuard(t, u, b)
      PROVE  c.op = "remove" /\ RemovalStands(c)'
  <2>1. /\ row[b] # NoRow /\ ~row[b].primary
        /\ c = [op |-> "remove", of |-> u, key |-> row[b].key, began |-> clock]
    BY <1>4 DEF RemoveGuard, Starts, Held, TypeOK
  <2>2. \A a \in Addresses : (row[a] # NoRow /\ row[a].key = row[b].key) => a = b
    BY <2>1 DEF KeysApart
  <2>3. QED
    BY <1>0, <2>1, <2>2 DEF RemovalStands
<1>5. ASSUME NEW u \in Accounts, NEW b \in Addresses, PrimaryGuard(t, u, b)
      PROVE  c.op = "primary" /\ c.at = "guarded" /\ ChoiceIsOf(c)'
  <2>1. /\ row[b] # NoRow /\ row[b].of = u
        /\ c = [op |-> "primary", at |-> "guarded", of |-> u, key |-> row[b].key,
                email |-> b, seen |-> {}, began |-> clock]
    BY <1>5 DEF PrimaryGuard, MayBecomePrimary, Starts, Held, TypeOK
  <2>2. QED
    BY <1>0, <2>1 DEF ChoiceIsOf
<1>6. ASSUME c.op \in {"add", "resend", "verify"}
      PROVE  ProvisionStands(c)' /\ RemovalStands(c)' /\ ChoiceIsOf(c)' /\ ClearingStands(c)'
  BY <1>6 DEF ProvisionStands, RemovalStands, ChoiceIsOf, ClearingStands
<1>7. ASSUME c.op = "remove", RemovalStands(c)'
      PROVE  ProvisionStands(c)' /\ RemovalStands(c)' /\ ChoiceIsOf(c)' /\ ClearingStands(c)'
  BY <1>7 DEF ProvisionStands, ChoiceIsOf, ClearingStands
<1>8. ASSUME c.op = "primary", c.at = "guarded", ChoiceIsOf(c)'
      PROVE  ProvisionStands(c)' /\ RemovalStands(c)' /\ ChoiceIsOf(c)' /\ ClearingStands(c)'
  BY <1>8 DEF ProvisionStands, RemovalStands, ClearingStands
<1>9. QED
  BY <1>1, <1>2, <1>3, <1>4, <1>5, <1>6, <1>7, <1>8 DEF Guards

LEMMA ReadOfClearing ==
    ASSUME TypeOK, NEW t \in Sessions, PrimaryClear(t), ChoiceIsOf(call[t]), NEW c, c = call'[t]
    PROVE  ProvisionStands(c)' /\ RemovalStands(c)' /\ ChoiceIsOf(c)' /\ ClearingStands(c)'
<1>1. call[t] \in PrimaryCall /\ call[t].at = "guarded" /\ row' = row
  BY CallShapes DEF PrimaryClear, TypeOK, copies
<1>2. PICK u : u = call[t].of
  OBVIOUS
<1>3. PICK seen : seen = {row[a].key : a \in Primaries(u)}
  OBVIOUS
<1>4. call' = [call EXCEPT ![t] = [call[t] EXCEPT !.at = "clearing", !.seen = seen]]
  BY <1>2, <1>3 DEF PrimaryClear
<1>5. c = [call[t] EXCEPT !.at = "clearing", !.seen = seen]
  BY <1>4 DEF TypeOK
<1>6. /\ c.op = "primary" /\ c.at = "clearing" /\ c.of = u /\ c.seen = seen
      /\ c.key = call[t].key /\ c.email = call[t].email
  BY <1>1, <1>2, <1>5 DEF PrimaryCall
<1>7. ChoiceIsOf(c)'
  BY <1>1, <1>2, <1>6 DEF ChoiceIsOf, PrimaryCall
<1>8. Frozen
  BY <1>1 DEF Frozen
<1>9. ClearingStands(c)'
  BY <1>3, <1>6, <1>8, FrozenLists DEF ClearingStands
<1>10. QED
  BY <1>6, <1>7, <1>9 DEF ProvisionStands, RemovalStands

LEMMA ReadsStillStand ==
    ASSUME TypeOK, [Next]_vars, KeysApart, calm => OneTransaction /\ ReadStands, calm'
    PROVE  ReadStands'
<1> SUFFICES ASSUME NEW t \in Sessions
             PROVE  (/\ ProvisionStands(call[t]) /\ RemovalStands(call[t])
                     /\ ChoiceIsOf(call[t]) /\ ClearingStands(call[t]))'
  BY DEF ReadStands
<1>c. PICK c : c = call'[t]
  OBVIOUS
<1> DEFINE Stands(d) == ProvisionStands(d) /\ RemovalStands(d) /\ ChoiceIsOf(d) /\ ClearingStands(d)
<1>0. calm
  BY Still, CommitsEnd, ExpiryFreezes
<1>1. ASSUME ~IsOpen(c) PROVE Stands(c)'
  BY <1>1 DEF IsOpen, ProvisionStands, RemovalStands, ChoiceIsOf, ClearingStands
<1>2. ASSUME call[t] = c, IsOpen(c) PROVE Stands(c)'
  <2>1. Frozen
    BY <1>c, <1>2, Waits
  <2>2. ProvisionStands(c) /\ RemovalStands(c) /\ ChoiceIsOf(c) /\ ClearingStands(c)
    BY <1>0, <1>2 DEF ReadStands
  <2>3. (c.op = "primary" /\ c.at # "provider") => c.email \in Addresses
    BY <1>2, CallShapes DEF TypeOK, PrimaryCall
  <2>4. QED
    BY <2>1, <2>2, <2>3, ReadStaysTrue
<1>3. ASSUME call[t] # c, IsOpen(c) PROVE Stands(c)'
  <2>1. Guards(t) \/ PrimaryClear(t)
    BY <1>c, <1>3, Opening
  <2>2. ChoiceIsOf(call[t])
    BY <1>0 DEF ReadStands
  <2>3. QED
    BY <1>c, <2>1, <2>2, ReadOfGuard, ReadOfClearing
<1>4. Stands(c)'
  BY <1>1, <1>2, <1>3
<1>5. ProvisionStands(call[t])'
  BY <1>c, <1>4 DEF ProvisionStands, Predates, Primaries, Held
<1>6. RemovalStands(call[t])'
  BY <1>c, <1>4 DEF RemovalStands
<1>7. ChoiceIsOf(call[t])'
  BY <1>c, <1>4 DEF ChoiceIsOf
<1>8. ClearingStands(call[t])'
  BY <1>c, <1>4 DEF ClearingStands, Primaries, Held
<1>9. QED
  BY <1>5, <1>6, <1>7, <1>8

\* An account stays one, and the clock does not go back.
LEMMA AccountsStay ==
    ASSUME TypeOK, [Next]_vars
    PROVE  /\ \A u \in Accounts : account[u] => account'[u]
           /\ clock \in Nat /\ clock' \in {clock, clock + 1}
<1>1. clock \in Nat
  BY ConstantsAssumption DEF TypeOK, Times
<1>2. ASSUME NEW s \in Sessions, Writes(s)
      PROVE  (\A u \in Accounts : account[u] => account'[u]) /\ clock' = clock
  <2>1. CASE ProvisionCommit(s)
    BY <2>1 DEF ProvisionCommit, TypeOK
  <2>2. CASE ~ProvisionCommit(s)
    BY <1>2, <2>2 DEF Writes, AddCommit, ResendCommit, VerifyCommit, PrimaryCommit, RemoveCommit
  <2>3. QED
    BY <2>1, <2>2
<1>3. QED
  BY <1>1, <1>2, Still, ExpiryFreezes

LEMMA StrangersStay ==
    ASSUME TypeOK, [Next]_vars, RowsMove, Strangers
    PROVE  Strangers'
<1>1. ASSUME NEW a \in Addresses, row'[a] # NoRow
      PROVE  account'[row'[a].of]
  <2>1. CASE row[a] # NoRow
    <3>1. row'[a].of = row[a].of /\ row[a].of \in Accounts
      BY <1>1, <2>1, RowOrNone DEF RowsMove, RowStep, Row
    <3>2. QED
      BY <2>1, <3>1, AccountsStay DEF Strangers
  <2>2. ASSUME NEW s \in Sessions, ProvisionCommit(s), row[a] = NoRow
        PROVE  account'[row'[a].of]
    <3>1. PICK t : t = call[s].token
      OBVIOUS
    <3>2. t \in Token
      BY <2>2, <3>1, CallShapes DEF TypeOK, ProvisionCommit, ProvisionCall
    <3>3. FollowsToken(t, call[s].began) /\ account' = [account EXCEPT ![t.of] = TRUE] /\ row' # row
      BY <1>1, <2>2, <3>1 DEF ProvisionCommit
    <3>4. row' = [b \in Addresses |->
               CASE b = t.email -> Vouched(t, made + 1, call[s].began)
                 [] b \in Primaries(t.of) \ {t.email} ->
                       [row[b] EXCEPT !.primary = FALSE, !.changed = call[s].began]
                 [] OTHER -> row[b]]
      BY <3>3 DEF FollowsToken
    <3>5. a \notin Primaries(t.of)
      BY <2>2 DEF Primaries, Held
    <3>6. a = t.email /\ row'[a] = Vouched(t, made + 1, call[s].began)
      BY <1>1, <2>2, <3>4, <3>5
    <3>7. row'[a].of = t.of
      BY <2>2, <3>6 DEF Vouched, IsFree
    <3>8. QED
      BY <3>2, <3>3, <3>7 DEF TypeOK, Token
  <2>3. ASSUME NEW s \in Sessions, AddCommit(s), row[a] = NoRow
        PROVE  account'[row'[a].of]
    <3>1. account[call[s].of] /\ account' = account
      BY <2>3 DEF AddCommit, Strangers
    <3>2. a = call[s].email /\ row'[a].of = call[s].of
      BY <1>1, <2>3 DEF AddCommit, TypeOK
    <3>3. QED
      BY <3>1, <3>2
  <2>4. ASSUME NEW s \in Sessions, Writes(s), ~ProvisionCommit(s), ~AddCommit(s), row[a] = NoRow
        PROVE  row'[a] = NoRow
    <3>1. a \notin Having(call[s].key)
      BY <2>4 DEF Having, IsFree
    <3>2. QED
      BY <2>4, <3>1 DEF Writes, ResendCommit, VerifyCommit, RemoveCommit, PrimaryCommit, Chosen
  <2>5. QED
    BY <1>1, <2>1, <2>2, <2>3, <2>4, Still, ExpiryFreezes DEF Frozen
<1>2. ASSUME NEW s \in Sessions, call'[s].op = "add"
      PROVE  account'[call'[s].of]
  <2>1. CASE call'[s] = call[s]
    <3>1. call[s].of \in Accounts
      BY <1>2, <2>1, CallShapes DEF TypeOK, AddCall
    <3>2. QED
      BY <1>2, <2>1, <3>1, AccountsStay DEF Strangers
  <2>2. CASE call'[s] # call[s]
    <3>1. Guards(s) \/ PrimaryClear(s)
      BY <1>2, <2>2, Opening DEF IsOpen
    <3>2. ASSUME NEW u \in Accounts, NEW a \in Addresses, AddGuard(s, u, a)
          PROVE  call'[s].of = u /\ account'[u]
      BY <3>2 DEF AddGuard, Starts, TypeOK, copies
    <3>3. ASSUME NEW u \in Accounts, NEW a \in Addresses,
                 ResendGuard(s, u, a) \/ PrimaryGuard(s, u, a) \/ RemoveGuard(s, u, a)
          PROVE  FALSE
      BY <1>2, <3>3 DEF ResendGuard, PrimaryGuard, RemoveGuard, Starts, TypeOK
    <3>4. ASSUME NEW m \in mails, VerifyGuard(s, m) PROVE FALSE
      BY <1>2, <3>4 DEF VerifyGuard, Starts, TypeOK
    <3>5. ASSUME ProvisionGuard(s) \/ PrimaryClear(s) PROVE FALSE
      <4>1. call[s] \in ProvisionCall \union PrimaryCall
        BY <3>5, CallShapes DEF ProvisionGuard, PrimaryClear, TypeOK
      <4>2. CASE ProvisionGuard(s)
        <5>1. PICK known, stale :
                 call' = [call EXCEPT ![s] = [call[s] EXCEPT !.at = "guarded",
                                                 !.known = known, !.stale = stale,
                                                 !.began = clock]]
          BY <4>2 DEF ProvisionGuard
        <5>2. call'[s].op = call[s].op
          BY <4>1, <5>1 DEF TypeOK, ProvisionCall, PrimaryCall
        <5>3. QED
          BY <1>2, <4>2, <5>2 DEF ProvisionGuard
      <4>3. CASE PrimaryClear(s)
        <5>1. PICK seen :
                 call' = [call EXCEPT ![s] = [call[s] EXCEPT !.at = "clearing", !.seen = seen]]
          BY <4>3 DEF PrimaryClear
        <5>2. call'[s].op = call[s].op
          BY <4>1, <5>1 DEF TypeOK, ProvisionCall, PrimaryCall
        <5>3. QED
          BY <1>2, <4>3, <5>2 DEF PrimaryClear
      <4>4. QED
        BY <3>5, <4>2, <4>3
    <3>6. QED
      BY <3>1, <3>2, <3>3, <3>4, <3>5 DEF Guards
  <2>3. QED
    BY <2>1, <2>2
<1>3. QED
  BY <1>1, <1>2 DEF Strangers

\* Nobody chooses anything but by a commit, and then at the instant it began.
LEMMA ChoosesByCommit ==
    ASSUME TypeOK, [Next]_vars
    PROVE  \/ chosenAt' = chosenAt
           \/ \E s \in Sessions : /\ PrimaryCommit(s)
                                 /\ chosenAt' = [chosenAt EXCEPT ![call[s].of] = call[s].began]
<1>1. ASSUME NEW s \in Sessions, Writes(s), ~PrimaryCommit(s) PROVE chosenAt' = chosenAt
  BY <1>1 DEF Writes, ProvisionCommit, AddCommit, ResendCommit, VerifyCommit,
     RemoveCommit, history
<1>2. ASSUME NEW s \in Sessions, PrimaryCommit(s)
      PROVE  chosenAt' = [chosenAt EXCEPT ![call[s].of] = call[s].began]
  BY <1>2 DEF PrimaryCommit
<1>3. QED
  BY <1>1, <1>2, Still, ExpiryFreezes

\* A transaction begins now, and goes on as of then.
LEMMA BeganNow ==
    ASSUME TypeOK, NEW t \in Sessions
    PROVE  /\ Guards(t) => call'[t].began = clock
           /\ PrimaryClear(t) => IsOpen(call[t]) /\ call'[t].began = call[t].began
           /\ Guards(t) \/ PrimaryClear(t) => UNCHANGED <<clock, chosenAt>>
<1>1. CASE ProvisionGuard(t)
  <2>1. call[t] \in ProvisionCall
    BY <1>1, CallShapes DEF ProvisionGuard, TypeOK
  <2>2. PICK known, stale :
           call' = [call EXCEPT ![t] = [call[t] EXCEPT !.at = "guarded",
                                           !.known = known, !.stale = stale,
                                           !.began = clock]]
    BY <1>1 DEF ProvisionGuard
  <2>3. call'[t].began = clock
    BY <2>1, <2>2 DEF TypeOK, ProvisionCall
  <2>4. UNCHANGED <<clock, chosenAt>> /\ ~PrimaryClear(t)
    BY <1>1 DEF ProvisionGuard, PrimaryClear
  <2>5. QED
    BY <2>3, <2>4
<1>2. CASE PrimaryClear(t)
  <2>1. call[t] \in PrimaryCall /\ IsOpen(call[t])
    BY <1>2, CallShapes DEF PrimaryClear, TypeOK, IsOpen
  <2>2. PICK seen :
           call' = [call EXCEPT ![t] = [call[t] EXCEPT !.at = "clearing", !.seen = seen]]
    BY <1>2 DEF PrimaryClear
  <2>3. call'[t].began = call[t].began
    BY <2>1, <2>2 DEF TypeOK, PrimaryCall
  <2>4. UNCHANGED <<clock, chosenAt>>
    BY <1>2, Zenon DEF PrimaryClear, history
  <2>a. call[t].op = "primary"
    BY <1>2, Zenon DEF PrimaryClear
  <2>5. call[t].op = "primary" /\ call[t] # Idle
    BY <2>a DEF Idle
  <2>6. ~Guards(t)
    BY <2>5 DEF Guards, ProvisionGuard, AddGuard, ResendGuard, PrimaryGuard, RemoveGuard,
       VerifyGuard, Starts
  <2>7. QED
    BY <2>1, <2>3, <2>4, <2>6
<1>3. ASSUME NEW u \in Accounts, NEW a \in Addresses,
             AddGuard(t, u, a) \/ ResendGuard(t, u, a) \/ PrimaryGuard(t, u, a)
               \/ RemoveGuard(t, u, a)
      PROVE  call'[t].began = clock /\ UNCHANGED <<clock, chosenAt>>
  BY <1>3 DEF AddGuard, ResendGuard, PrimaryGuard, RemoveGuard, Starts, TypeOK
<1>4. ASSUME NEW m \in mails, VerifyGuard(t, m)
      PROVE  call'[t].began = clock /\ UNCHANGED <<clock, chosenAt>>
  BY <1>4 DEF VerifyGuard, Starts, TypeOK
<1>5. QED
  BY <1>1, <1>2, <1>3, <1>4 DEF Guards

LEMMA ChosenStaysBefore ==
    ASSUME TypeOK, [Next]_vars, ChosenBefore
    PROVE  ChosenBefore'
<1>1. /\ \A u \in Accounts : chosenAt[u] \in Nat /\ chosenAt[u] <= clock
      /\ clock \in Nat /\ clock' \in {clock, clock + 1}
  BY AccountsStay, ConstantsAssumption DEF ChosenBefore, TypeOK, Times
<1>2. ASSUME NEW u \in Accounts PROVE chosenAt'[u] <= clock'
  <2>1. CASE chosenAt' = chosenAt
    BY <1>1, <2>1
  <2>2. ASSUME NEW s \in Sessions, PrimaryCommit(s),
               chosenAt' = [chosenAt EXCEPT ![call[s].of] = call[s].began]
        PROVE  chosenAt'[u] <= clock'
    <3>1. IsOpen(call[s]) /\ call[s].began \in Nat
      BY <2>2, BeganTyped, ConstantsAssumption DEF PrimaryCommit, IsOpen, Times
    <3>2. call[s].began <= clock
      BY <3>1 DEF ChosenBefore
    <3>3. chosenAt'[u] \in {chosenAt[u], call[s].began}
      BY <2>2 DEF TypeOK
    <3>4. QED
      BY <1>1, <3>1, <3>2, <3>3
  <2>3. QED
    BY <2>1, <2>2, ChoosesByCommit
<1>3. ASSUME NEW t \in Sessions, IsOpen(call'[t]) PROVE call'[t].began <= clock'
  <2>1. CASE call'[t] = call[t]
    <3>1. call[t].began \in Nat
      BY <1>3, <2>1, BeganTyped, ConstantsAssumption DEF IsOpen, Times
    <3>2. QED
      BY <1>1, <1>3, <2>1, <3>1 DEF ChosenBefore
  <2>2. CASE call'[t] # call[t]
    <3>1. Guards(t) \/ PrimaryClear(t)
      BY <1>3, <2>2, Opening
    <3>2. QED
      BY <1>1, <3>1, BeganNow DEF ChosenBefore
  <2>3. QED
    BY <2>1, <2>2
<1>4. QED
  BY <1>2, <1>3 DEF ChosenBefore

LEMMA StillNoneChosenSince ==
    ASSUME TypeOK, [Next]_vars, ChosenBefore, calm => OneTransaction /\ NoneChosenSince, calm'
    PROVE  NoneChosenSince'
<1> SUFFICES ASSUME NEW t \in Sessions, IsOpen(call'[t])
             PROVE  \A u \in Accounts : chosenAt'[u] <= call'[t].began
  BY DEF NoneChosenSince, IsOpen
<1>0. calm
  BY Still, CommitsEnd, ExpiryFreezes
<1>1. CASE call'[t] = call[t]
  <2>1. ASSUME NEW s \in Sessions, PrimaryCommit(s) PROVE FALSE
    <3>1. IsOpen(call[s]) /\ ~IsOpen(call'[s])
      BY <2>1, CommitsEnd DEF Writes
    <3>2. s = t
      BY <1>0, <1>1, <3>1 DEF OneTransaction
    <3>3. QED
      BY <3>1, <3>2
  <2>2. chosenAt' = chosenAt
    BY <2>1, ChoosesByCommit
  <2>3. QED
    BY <1>0, <1>1, <2>2 DEF NoneChosenSince
<1>2. CASE call'[t] # call[t]
  <2>1. Guards(t) \/ PrimaryClear(t)
    BY <1>2, Opening
  <2>2. QED
    BY <1>0, <2>1, BeganNow DEF ChosenBefore, NoneChosenSince
<1>3. QED
  BY <1>1, <1>2

\* The primary rows are the same, and may have been stamped anew, with n.
Steady(n) ==
    \A a \in Addresses :
        /\ (row'[a] # NoRow /\ row'[a].primary) <=> (row[a] # NoRow /\ row[a].primary)
        /\ (row[a] # NoRow /\ row[a].primary) =>
              row'[a].of = row[a].of /\ row'[a].changed \in {row[a].changed, n}

LEMMA SteadyAgrees ==
    ASSUME TypeOK, NEW n \in Times, Steady(n), \A u \in Accounts : chosenAt[u] <= n,
           OnePrimary, SaysTheSame, ChoiceStands,
           UNCHANGED <<account, email, contested, chosenAt>>
    PROVE  OnePrimary' /\ SaysTheSame' /\ ChoiceStands'
<1>1. \A u : Primaries(u)' = Primaries(u)
  BY DEF Steady, Primaries, Held
<1>2. OnePrimary'
  BY DEF OnePrimary, Steady
<1>3. SaysTheSame'
  BY <1>1 DEF SaysTheSame
<1>4. ASSUME NEW u \in Accounts, chosenAt[u] # 0, NEW a \in Primaries(u)
      PROVE  row'[a].changed >= chosenAt[u]
  <2>1. row[a].changed >= chosenAt[u] /\ n >= chosenAt[u]
    BY <1>4, ConstantsAssumption DEF ChoiceStands, TypeOK, Times
  <2>2. row'[a].changed \in {row[a].changed, n}
    BY <1>4 DEF Steady, Primaries, Held
  <2>3. QED
    BY <2>1, <2>2
<1>5. ChoiceStands'
  BY <1>1, <1>4 DEF ChoiceStands
<1>6. QED
  BY <1>2, <1>3, <1>5

\* The primary address of one account becomes x, stamped n, and those of the
\* others stay.
MovesTo(u, x, n) ==
    /\ row'[x] # NoRow /\ row'[x].of = u /\ row'[x].primary /\ row'[x].changed = n
    /\ row[x] # NoRow => row[x].of = u
    /\ \A a \in Addresses \ {x} :
          /\ (row'[a] # NoRow /\ row'[a].primary) =>
                row[a] # NoRow /\ row[a].primary /\ row[a].of # u
          /\ (row[a] # NoRow /\ row[a].of # u) => row'[a] = row[a]

LEMMA MoveAgrees ==
    ASSUME TypeOK, NEW u \in Accounts, NEW x \in Addresses, NEW n \in Times, MovesTo(u, x, n),
           \A v \in Accounts : chosenAt[v] <= n, OnePrimary, SaysTheSame, ChoiceStands,
           email' = [email EXCEPT ![u] = x], contested' = contested \ {u},
           \A v \in Accounts \ {u} : account'[v] = account[v] /\ chosenAt'[v] = chosenAt[v],
           chosenAt'[u] \in {chosenAt[u], n}
    PROVE  OnePrimary' /\ SaysTheSame' /\ ChoiceStands'
<1>1. Primaries(u)' = {x}
  BY DEF MovesTo, Primaries, Held
<1>2. ASSUME NEW v \in Accounts \ {u}
      PROVE  /\ Primaries(v)' = Primaries(v)
             /\ \A a \in Primaries(v) : row'[a] = row[a]
  BY DEF MovesTo, Primaries, Held
<1>3. OnePrimary'
  <2> SUFFICES ASSUME NEW a \in Addresses, NEW b \in Addresses,
                      row'[a] # NoRow, row'[b] # NoRow, row'[a].of = row'[b].of,
                      row'[a].primary, row'[b].primary
               PROVE  a = b
    BY DEF OnePrimary
  <2>1. \A d \in Addresses \ {x} : (row'[d] # NoRow /\ row'[d].primary) =>
           row'[d] = row[d] /\ row[d].of # u
    BY DEF MovesTo
  <2>2. row'[x].of = u
    BY DEF MovesTo
  <2>3. QED
    BY <2>1, <2>2 DEF OnePrimary
<1>4. SaysTheSame'
  <2> SUFFICES ASSUME NEW v \in Accounts, account'[v], v \notin contested'
               PROVE  email'[v] \in Primaries(v)'
    BY DEF SaysTheSame
  <2>1. CASE v = u
    BY <1>1, <2>1 DEF TypeOK
  <2>2. CASE v # u
    BY <1>2, <2>2 DEF SaysTheSame, TypeOK
  <2>3. QED
    BY <2>1, <2>2
<1>5. ChoiceStands'
  <2> SUFFICES ASSUME NEW v \in Accounts, chosenAt'[v] # 0
               PROVE  /\ Primaries(v)' # {}
                      /\ \A a \in Primaries(v)' : row'[a].changed >= chosenAt'[v]
    BY DEF ChoiceStands
  <2>1. CASE v = u
    <3>1. n >= chosenAt'[u]
      BY ConstantsAssumption DEF TypeOK, Times
    <3>2. row'[x].changed = n
      BY DEF MovesTo
    <3>3. QED
      BY <1>1, <2>1, <3>1, <3>2
  <2>2. CASE v # u
    BY <1>2, <2>2 DEF ChoiceStands
  <2>3. QED
    BY <2>1, <2>2
<1>6. QED
  BY <1>3, <1>4, <1>5

\* Adding, sending again, verifying and removing leave the primary rows.
LEMMA OthersSteady ==
    ASSUME TypeOK, ReadStands, NEW s \in Sessions,
           AddCommit(s) \/ ResendCommit(s) \/ VerifyCommit(s) \/ RemoveCommit(s)
    PROVE  Steady(call[s].began) /\ UNCHANGED <<account, email, contested, chosenAt>>
<1>0. UNCHANGED <<account, email, contested, chosenAt>>
  BY DEF AddCommit, ResendCommit, VerifyCommit, RemoveCommit, history
<1>1. CASE AddCommit(s)
  <2>1. PICK x, r : /\ x = call[s].email
                    /\ r = [key |-> made + 1, of |-> call[s].of, primary |-> FALSE,
                            verified |-> FALSE, secret |-> made + 1, changed |-> call[s].began]
    OBVIOUS
  <2>2. row' = row \/ (row[x] = NoRow /\ row' = [row EXCEPT ![x] = r])
    BY <1>1, <2>1 DEF AddCommit, IsFree
  <2>3. ~r.primary
    BY <2>1
  <2>4. QED
    BY <1>0, <2>2, <2>3 DEF Steady, TypeOK
<1>2. CASE ResendCommit(s) \/ VerifyCommit(s)
  <2>1. \A a \in Addresses :
           \/ row'[a] = row[a]
           \/ row[a] # NoRow /\ \E k \in Nat :
                row'[a] = [row[a] EXCEPT !.secret = k, !.changed = call[s].began]
           \/ row[a] # NoRow /\ row'[a] = [row[a] EXCEPT !.verified = TRUE, !.secret = 0,
                                                            !.changed = call[s].began]
    <3>1. made + 1 \in Nat
      BY ConstantsAssumption DEF TypeOK, Keys
    <3>2. CASE ResendCommit(s)
      <4>1. \A a \in Addresses :
               row'[a] = IF a \in Having(call[s].key)
                         THEN [row[a] EXCEPT !.secret = made + 1, !.changed = call[s].began] ELSE row[a]
        BY <3>2 DEF ResendCommit
      <4>2. QED
        BY <3>1, <4>1 DEF Having, IsFree
    <3>3. CASE VerifyCommit(s)
      BY <3>3 DEF VerifyCommit, Having, IsFree
    <3>4. QED
      BY <1>2, <3>2, <3>3
  <2>2. ASSUME NEW a \in Addresses, row'[a] # row[a]
        PROVE  /\ row[a] # NoRow /\ row'[a] # NoRow /\ row'[a].primary = row[a].primary
               /\ row'[a].of = row[a].of /\ row'[a].changed = call[s].began
    <3>1. row[a] \in Row /\ row[a] # NoRow
      BY <2>1, <2>2, RowOrNone
    <3>2. row[a].key # 0
      BY <3>1, ConstantsAssumption DEF Row, Keys
    <3>3. /\ row'[a].key = row[a].key /\ row'[a].primary = row[a].primary
          /\ row'[a].of = row[a].of /\ row'[a].changed = call[s].began
      BY <2>1, <2>2, <3>1 DEF Row
    <3>4. QED
      BY <3>1, <3>2, <3>3 DEF NoRow
  <2>3. QED
    BY <1>0, <2>2 DEF Steady
<1>3. CASE RemoveCommit(s)
  <2>1. row' = [a \in Addresses |-> IF a \in Having(call[s].key) THEN NoRow ELSE row[a]]
        /\ call[s].op = "remove"
    BY <1>3 DEF RemoveCommit
  <2>2. \A a \in Having(call[s].key) : ~row[a].primary
    BY <2>1 DEF ReadStands, RemovalStands, Having, IsFree
  <2>3. QED
    BY <1>0, <2>1, <2>2 DEF Steady
<1>4. QED
  BY <1>1, <1>2, <1>3

LEMMA ChoiceMoves ==
    ASSUME TypeOK, KeysApart, ReadStands, NEW s \in Sessions, PrimaryCommit(s),
           NEW c, c = call[s]
    PROVE  MovesTo(c.of, c.email, c.began) /\ c.of \in Accounts /\ c.email \in Addresses
<1>1. c \in PrimaryCall /\ c.op = "primary" /\ c.at = "clearing"
  BY CallShapes DEF PrimaryCommit, TypeOK
<1>2. /\ row[c.email] # NoRow /\ row[c.email].key = c.key /\ row[c.email].of = c.of
      /\ c.seen = {row[a].key : a \in Primaries(c.of)}
  BY <1>1 DEF ReadStands, ChoiceIsOf, ClearingStands
<1>3. c.of \in Accounts /\ c.email \in Addresses
  BY <1>1 DEF PrimaryCall
<1>4. Having(c.key) = {c.email}
  BY <1>2, <1>3 DEF Having, IsFree, KeysApart
<1>5. row' = Chosen(c)
  BY DEF PrimaryCommit
<1>6. /\ row'[c.email] = [row[c.email] EXCEPT !.primary = TRUE, !.changed = c.began]
      /\ row[c.email] \in Row
  BY <1>2, <1>3, <1>4, <1>5, RowOrNone DEF Chosen
<1>7. /\ row'[c.email].key # 0 /\ row'[c.email].of = c.of
      /\ row'[c.email].primary /\ row'[c.email].changed = c.began
  BY <1>2, <1>6, ConstantsAssumption DEF Row, Keys
<1>8. ASSUME NEW a \in Addresses \ {c.email}
      PROVE  /\ (row'[a] # NoRow /\ row'[a].primary) =>
                   row[a] # NoRow /\ row[a].primary /\ row[a].of # c.of
             /\ (row[a] # NoRow /\ row[a].of # c.of) => row'[a] = row[a]
  <2>1. a \notin Having(c.key)
    BY <1>4
  <2>2. CASE a \in Primaries(c.of)
    <3>1. row[a] # NoRow /\ row[a].of = c.of /\ row[a].primary /\ row[a].key \in c.seen
      BY <1>2, <2>2 DEF Primaries, Held
    <3>2. row[a].key # c.key
      BY <2>1, <3>1 DEF Having, IsFree
    <3>3. row'[a] = [row[a] EXCEPT !.primary = FALSE, !.changed = c.began] /\ row[a] \in Row
      BY <1>5, <2>1, <3>1, <3>2, RowOrNone DEF Chosen
    <3>4. ~row'[a].primary
      BY <3>3 DEF Row
    <3>5. QED
      BY <3>1, <3>4
  <2>3. CASE a \notin Primaries(c.of)
    <3>1. row[a] = NoRow \/ row[a].of # c.of \/ ~row[a].primary
      BY <2>3 DEF Primaries, Held
    <3>2. row[a] # NoRow => row[a].key \notin c.seen
      BY <1>2, <2>3 DEF KeysApart, Primaries, Held
    <3>3. row'[a] = row[a]
      BY <1>5, <2>1, <3>2 DEF Chosen
    <3>4. QED
      BY <3>1, <3>3
  <2>4. QED
    BY <2>2, <2>3
<1>9. row'[c.email] # NoRow
  BY <1>7 DEF NoRow
<1>10. QED
  BY <1>2, <1>3, <1>7, <1>8, <1>9 DEF MovesTo

LEMMA FollowingMoves ==
    ASSUME TypeOK, NEW t \in Token, NEW n \in Times, FollowsToken(t, n),
           IsFree(t.email) \/ row[t.email].of = t.of
    PROVE  MovesTo(t.of, t.email, n) /\ contested' = contested \ {t.of}
<1>1. /\ IsFree(t.email) => made < MaxMade
      /\ row' = [a \in Addresses |->
               CASE a = t.email -> Vouched(t, made + 1, n)
                 [] a \in Primaries(t.of) \ {t.email} ->
                       [row[a] EXCEPT !.primary = FALSE, !.changed = n]
                 [] OTHER -> row[a]]
      /\ contested' = contested \ {t.of}
  BY DEF FollowsToken
<1>a. t.of \in Accounts /\ t.email \in Addresses
  BY DEF Token
<1>b. IsFree(t.email) => made + 1 \in Keys
  <2>1. IsFree(t.email) => made < MaxMade
    BY <1>1, Zenon
  <2>2. QED
    BY <2>1, ConstantsAssumption DEF TypeOK, Keys
<1>3. PICK k : k = made + 1
  OBVIOUS
<1>4. row'[t.email] = Vouched(t, k, n) /\ Vouched(t, k, n) \in Row
  BY <1>1, <1>a, <1>b, <1>3, VouchedRow
<1>5. /\ row'[t.email].of = t.of /\ row'[t.email].primary /\ row'[t.email].changed = n
      /\ row'[t.email] # NoRow
  <2>1. CASE IsFree(t.email)
    <3>1. Vouched(t, k, n) = [key |-> k, of |-> t.of, primary |-> TRUE, verified |-> t.verified,
                           secret |-> 0, changed |-> n]
      BY <2>1 DEF Vouched
    <3>2. QED
      <4>1. NoRow \notin Row
        BY <1>a, RowOrNone
      <4>2. row'[t.email] # NoRow
        BY <1>4, <4>1
      <4>3. row'[t.email].of = t.of /\ row'[t.email].primary /\ row'[t.email].changed = n
        BY <1>4, <3>1
      <4>4. QED
        BY <4>2, <4>3
  <2>2. CASE ~IsFree(t.email)
    <3>1. row[t.email] \in Row
      BY <1>a, <2>2, RowOrNone DEF IsFree
    <3>2. QED
      BY <1>4, <2>2, <3>1, RowOrNone, <1>a DEF Vouched, Row
  <2>3. QED
    BY <2>1, <2>2
<1>6. ASSUME NEW a \in Addresses \ {t.email}
      PROVE  /\ (row'[a] # NoRow /\ row'[a].primary) =>
                   row[a] # NoRow /\ row[a].primary /\ row[a].of # t.of
             /\ (row[a] # NoRow /\ row[a].of # t.of) => row'[a] = row[a]
  <2>1. CASE a \in Primaries(t.of)
    <3>1. row[a] # NoRow /\ row[a].of = t.of /\ row[a] \in Row
      BY <2>1, RowOrNone DEF Primaries, Held
    <3>2. row'[a] = [row[a] EXCEPT !.primary = FALSE, !.changed = n]
      BY <1>1, <2>1
    <3>3. ~row'[a].primary
      BY <3>1, <3>2 DEF Row
    <3>4. QED
      BY <3>1, <3>3
  <2>2. CASE a \notin Primaries(t.of)
    <3>1. row'[a] = row[a]
      BY <1>1, <2>2
    <3>2. QED
      BY <2>2, <3>1 DEF Primaries, Held
  <2>3. QED
    BY <2>1, <2>2
<1>7. QED
  BY <1>1, <1>5, <1>6 DEF MovesTo, IsFree

\* What an account's first sign-in, or a token with another address, does.
LEMMA ProvisionAgrees ==
    ASSUME TypeOK, Strangers, NoneChosenSince, OnePrimary, SaysTheSame, ChoiceStands, ReadStands,
           NEW s \in Sessions, ProvisionCommit(s)
    PROVE  OnePrimary' /\ SaysTheSame' /\ ChoiceStands'
<1>1. PICK t : t = call[s].token
  OBVIOUS
<1>2. t \in Token /\ t.of \in Accounts /\ t.email \in Addresses
  <2>1. call[s] \in ProvisionCall
    BY CallShapes DEF TypeOK, ProvisionCommit
  <2>2. QED
    BY <1>1, <2>1 DEF ProvisionCall, Token
<1>3. /\ account' = [account EXCEPT ![t.of] = TRUE] /\ chosenAt' = chosenAt
      /\ call[s].op = "provision" /\ call[s].at = "guarded"
  BY <1>1 DEF ProvisionCommit
<1>n. PICK n \in Times : n = call[s].began /\ \A u \in Accounts : chosenAt[u] <= n
  BY <1>3, BeganTyped DEF NoneChosenSince, IsOpen
<1>4. CASE call[s].stale
  <2>1. Predates(t)
    BY <1>1, <1>3, <1>4 DEF ReadStands, ProvisionStands
  <2>2. account[t.of]
    BY <2>1 DEF Predates, Primaries, Held, Strangers
  <2>3. account' = account /\ email' = email /\ row' = row /\ contested' = contested
    BY <1>2, <1>3, <1>4, <2>2 DEF ProvisionCommit, TypeOK
  <2>4. Steady(n)
    BY <2>3 DEF Steady
  <2>5. QED
    BY <1>3, <1>n, <2>3, <2>4, SteadyAgrees
<1>5. CASE ~call[s].stale /\ ~IsFree(t.email) /\ row[t.email].of # t.of
  <2>1. row' = row /\ contested' = contested \union {t.of}
        /\ email' = [email EXCEPT ![t.of] = t.email]
    BY <1>1, <1>5 DEF ProvisionCommit, FollowsToken
  <2>2. OnePrimary'
    BY <2>1 DEF OnePrimary
  <2>3. ChoiceStands'
    BY <1>3, <2>1 DEF ChoiceStands, Primaries, Held
  <2>4. SaysTheSame'
    BY <1>2, <1>3, <2>1 DEF SaysTheSame, Primaries, Held, TypeOK
  <2>5. QED
    BY <2>2, <2>3, <2>4
<1>6. CASE ~call[s].stale /\ (IsFree(t.email) \/ row[t.email].of = t.of)
  <2>1. FollowsToken(t, n) /\ email' = [email EXCEPT ![t.of] = t.email]
    BY <1>1, <1>n, <1>6 DEF ProvisionCommit
  <2>2. MovesTo(t.of, t.email, n) /\ contested' = contested \ {t.of}
    BY <1>2, <1>6, <2>1, FollowingMoves
  <2>3. \A v \in Accounts \ {t.of} : account'[v] = account[v] /\ chosenAt'[v] = chosenAt[v]
    BY <1>2, <1>3 DEF TypeOK
  <2>4. QED
    BY <1>2, <1>3, <1>n, <2>1, <2>2, <2>3, MoveAgrees
<1>7. QED
  BY <1>4, <1>5, <1>6

LEMMA CalmStays ==
    ASSUME TypeOK, [Next]_vars, RowsMove, KeysApart, CalmInv
    PROVE  CalmInv'
<1>1. Strangers' /\ ChosenBefore'
  BY StrangersStay, ChosenStaysBefore DEF CalmInv
<1>2. ASSUME calm' PROVE OneTransaction' /\ NoneChosenSince' /\ ReadStands' /\ calm
  BY <1>2, StillOneTransaction, StillNoneChosenSince, ReadsStillStand, Still, CommitsEnd, ExpiryFreezes DEF CalmInv
<1>3. ASSUME calm' PROVE OnePrimary' /\ SaysTheSame' /\ ChoiceStands'
  <2>0. /\ ChosenBefore /\ NoneChosenSince /\ Strangers
        /\ OnePrimary /\ SaysTheSame /\ ChoiceStands /\ ReadStands
    BY <1>2, <1>3 DEF CalmInv
  <2>1. CASE UNCHANGED <<account, email, row, contested, chosenAt>>
    <3>1. Steady(clock)
      BY <2>1 DEF Steady
    <3>2. QED
      BY <2>0, <2>1, <3>1, SteadyAgrees DEF ChosenBefore, TypeOK
  <2>2. ASSUME NEW a \in Addresses, LinkExpires(a)
        PROVE  OnePrimary' /\ SaysTheSame' /\ ChoiceStands'
    <3>1. Steady(clock)
      BY <2>2, ExpiryFreezes DEF Steady, Frozen
    <3>2. QED
      BY <2>0, <2>2, <3>1, ExpiryFreezes, SteadyAgrees DEF ChosenBefore, TypeOK
  <2>3. ASSUME NEW s \in Sessions, Writes(s)
        PROVE  OnePrimary' /\ SaysTheSame' /\ ChoiceStands'
    <3>0. PICK n \in Times : n = call[s].began /\ \A u \in Accounts : chosenAt[u] <= n
      <4>1. IsOpen(call[s])
        BY <2>3, CommitsEnd
      <4>2. call[s].began \in Times
        BY <4>1, BeganTyped DEF IsOpen
      <4>3. QED
        BY <2>0, <4>1, <4>2 DEF NoneChosenSince
    <3>1. CASE ProvisionCommit(s)
      BY <2>0, <3>1, ProvisionAgrees
    <3>2. CASE PrimaryCommit(s)
      <4>1. PICK c : c = call[s]
        OBVIOUS
      <4>2. MovesTo(c.of, c.email, c.began) /\ c.of \in Accounts /\ c.email \in Addresses
        BY <2>0, <3>2, <4>1, ChoiceMoves
      <4>3. /\ email' = [email EXCEPT ![c.of] = c.email] /\ contested' = contested \ {c.of}
            /\ account' = account /\ chosenAt' = [chosenAt EXCEPT ![c.of] = c.began]
        BY <3>2, <4>1 DEF PrimaryCommit
      <4>4. /\ \A v \in Accounts \ {c.of} : account'[v] = account[v] /\ chosenAt'[v] = chosenAt[v]
            /\ chosenAt'[c.of] \in {chosenAt[c.of], c.began}
        BY <4>2, <4>3 DEF TypeOK
      <4>5. QED
        BY <2>0, <3>0, <4>1, <4>2, <4>3, <4>4, MoveAgrees
    <3>3. CASE AddCommit(s) \/ ResendCommit(s) \/ VerifyCommit(s) \/ RemoveCommit(s)
      BY <2>0, <3>0, <3>3, OthersSteady, SteadyAgrees
    <3>4. QED
      BY <2>3, <3>1, <3>2, <3>3 DEF Writes
  <2>4. QED
    BY <2>1, <2>2, <2>3, Still
<1>4. QED
  BY <1>1, <1>2, <1>3 DEF CalmInv

LEMMA AlwaysCalmInv == Spec => [](ProofInv /\ CalmInv)
<1>1. Init => CalmInv
  <2> SUFFICES ASSUME Init PROVE CalmInv
    OBVIOUS
  <2>1. /\ \A a \in Addresses : row[a] = NoRow
        /\ \A s \in Sessions : call[s] = Idle
        /\ \A u \in Accounts : ~account[u] /\ chosenAt[u] = 0
        /\ clock = 1
    BY DEF Init
  <2>2. \A s \in Sessions : call[s].op = "idle"
    BY <2>1 DEF Idle
  <2>3. Strangers /\ ChosenBefore /\ OnePrimary /\ SaysTheSame /\ ChoiceStands
    BY <2>1, <2>2 DEF Strangers, ChosenBefore, IsOpen, OnePrimary, SaysTheSame, ChoiceStands
  <2>4. OneTransaction /\ NoneChosenSince /\ ReadStands
    BY <2>2 DEF OneTransaction, NoneChosenSince, IsOpen, ReadStands, ProvisionStands, RemovalStands,
       ChoiceIsOf, ClearingStands
  <2>5. QED
    BY <2>3, <2>4 DEF CalmInv
<1>2. ProofInv /\ CalmInv /\ [Next]_vars => CalmInv'
  BY Moves, CalmStays DEF ProofInv
<1>3. QED
  BY <1>1, <1>2, AlwaysProofInv, PTL DEF Spec

\* "The primary row and that column are kept saying the same thing": until two
\* transactions have overlapped, for any accounts, addresses, tokens and
\* requests.
THEOREM CopiesAgree == Spec => []AddressesAgree
<1>1. TypeOK /\ CalmInv => AddressesAgree
  <2> SUFFICES ASSUME TypeOK, CalmInv, calm, NEW u \in Accounts, account[u]
               PROVE  /\ Cardinality(Primaries(u)) <= 1
                      /\ u \notin contested => Primaries(u) = {email[u]}
    BY DEF AddressesAgree
  <2>1. \A a, b \in Primaries(u) : a = b
    BY DEF CalmInv, OnePrimary, Primaries, Held
  <2>2. Cardinality(Primaries(u)) <= 1
    <3>1. CASE Primaries(u) = {}
      BY <3>1, FS_EmptySet
    <3>2. CASE Primaries(u) # {}
      <4>1. PICK a : Primaries(u) = {a}
        BY <2>1, <3>2
      <4>2. QED
        BY <4>1, FS_Singleton
    <3>3. QED
      BY <3>1, <3>2
  <2>3. u \notin contested => Primaries(u) = {email[u]}
    BY <2>1 DEF CalmInv, SaysTheSame
  <2>4. QED
    BY <2>2, <2>3
<1>2. QED
  BY <1>1, AlwaysCalmInv, TypeCorrect, PTL

\* "A token cannot tell us about a change it predates": until two transactions
\* have overlapped, one minted before the transaction began in which the account
\* chose its primary address, or in the same second, moves neither copy back.
THEOREM StaleTokensIgnored == Spec => StaleTokenIgnored
<1>1. ASSUME TypeOK, CalmInv, [Next]_vars, calm', NEW s \in Sessions, NEW u \in Accounts,
             call[s].op = "provision", call'[s] = Idle,
             call[s].token.of = u, call[s].token.iat <= chosenAt[u]
      PROVE  email'[u] = email[u] /\ Primaries(u)' = Primaries(u)
  <2>0. calm
    BY <1>1, Still, CommitsEnd, ExpiryFreezes
  <2>a. call'[s] # call[s]
    BY <1>1 DEF Idle
  <2>1. CASE UNCHANGED <<account, email, row, contested, chosenAt>>
    BY <2>1 DEF Primaries, Held
  <2>2. ASSUME NEW a \in Addresses, LinkExpires(a) PROVE FALSE
    BY <1>1, <2>a, <2>2, ExpiryFreezes
  <2>3. ASSUME NEW v \in Sessions, Writes(v)
        PROVE  email'[u] = email[u] /\ Primaries(u)' = Primaries(u)
    <3>1. v = s
      BY <1>1, <2>a, <2>3, CommitsEnd
    <3>2. ProvisionCommit(s)
      BY <1>1, <2>3, <3>1 DEF Writes, AddCommit, ResendCommit, VerifyCommit, PrimaryCommit,
         RemoveCommit
    <3>3. PICK t : t = call[s].token
      OBVIOUS
    <3>4. t \in Token /\ t.of = u /\ t.iat <= chosenAt[u]
      <4>1. call[s] \in ProvisionCall
        BY <1>1, CallShapes DEF TypeOK
      <4>2. QED
        BY <1>1, <3>3, <4>1 DEF ProvisionCall
    <3>5. t.iat \in Nat \ {0} /\ chosenAt[u] \in Nat
      BY <1>1, <3>4, ConstantsAssumption DEF Token, Times, TypeOK
    <3>6. PICK a \in Primaries(u) : row[a].changed >= chosenAt[u]
      BY <1>1, <2>0, <3>4, <3>5 DEF CalmInv, ChoiceStands
    <3>7. row[a].changed \in Nat
      BY <1>1, <3>6, RowOrNone, ConstantsAssumption DEF Primaries, Held, Row, Times
    <3>8. Predates(t)
      BY <3>4, <3>5, <3>6, <3>7 DEF Predates
    <3>9. call[s].stale
      BY <1>1, <2>0, <3>2, <3>3, <3>8 DEF CalmInv, ReadStands, ProvisionStands, ProvisionCommit
    <3>10. email' = email /\ row' = row
      BY <3>2, <3>9 DEF ProvisionCommit
    <3>11. QED
      BY <3>10 DEF Primaries, Held
  <2>4. QED
    BY <1>1, <2>1, <2>2, <2>3, Still
<1>2. TypeOK /\ CalmInv /\ [Next]_vars => [calm' => \A s \in Sessions, u \in Accounts :
         (/\ call[s].op = "provision" /\ call'[s] = Idle
          /\ call[s].token.of = u /\ call[s].token.iat <= chosenAt[u]) =>
             email'[u] = email[u] /\ Primaries(u)' = Primaries(u)]_vars
  BY <1>1
<1>3. QED
  BY <1>2, AlwaysCalmInv, TypeCorrect, PTL DEF Spec, StaleTokenIgnored
=============================================================================

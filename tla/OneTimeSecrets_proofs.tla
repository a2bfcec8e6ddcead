------------------------ MODULE OneTimeSecrets_proofs ------------------------
(***************************************************************************)
(* Theorems about OneTimeSecrets, for any numbers, limits, lifetimes and   *)
(* bounds.  Recovery codes and the number on the account are safe however  *)
(* requests interleave; that any secret works once, that the last one is   *)
(* alone and that limits are kept holds until two transactions overlapped. *)
(***************************************************************************)
EXTENDS OneTimeSecrets, FiniteSetTheorems, TLAPS

-----------------------------------------------------------------------------
(* The inductive invariants.                                               *)

\* The keys are made in order, and what a row is it stays.
KeysInOrder ==
    \A k \in Keys : IF k <= made THEN secret[k] \in Secret
                    ELSE secret[k] = Unmade /\ used[k] = 0

\* A code that may still be guessed at has a guess left.
GuessLeft ==
    /\ \A k \in Keys : (secret[k] \in Secret /\ ~secret[k].spent) =>
          secret[k].attempts < MaxAttempts
    /\ \A s \in Sessions : call[s].op = "check" => call[s].attempts < MaxAttempts

\* A request writes the kind of row it has read.
KindsKnown ==
    \A s \in Sessions :
        /\ call[s].op = "start" => call[s].seen \subseteq 1 .. made
        /\ call[s].op = "reset" => call[s].key \in Of("reset")
        /\ call[s].op \in {"check", "enroll"} => call[s].key \in Of("phone")

TypeInv == TypeOK /\ KeysInOrder /\ GuessLeft /\ KindsKnown

\* A recovery code that may still be used has not been.
UnspentUnused ==
    \A k \in Of("recovery") : used[k] <= 1 /\ (~secret[k].spent => used[k] = 0)

\* A number is about to be enrolled because its code was answered.
AnsweredFirst ==
    \A s \in Sessions : call[s].op = "enroll" => used[call[s].key] > 0

-----------------------------------------------------------------------------
(* Rows and the memory of a request.                                       *)

LEMMA Positive ==
    ASSUME TypeOK
    PROVE  /\ made \in Nat /\ clock \in Nat
           /\ \A k \in Keys : k \in Nat \ {0}
           /\ MaxAttempts \in Nat \ {0}
           /\ Unmade \notin Secret
<1>1. made \in Nat /\ clock \in Nat /\ \A k \in Keys : k \in Nat \ {0}
  BY ConstantsAssumption DEF TypeOK, Keys
<1>2. MaxAttempts \in Nat \ {0}
  BY ConstantsAssumption
<1>3. Unmade \notin Secret
  <2>1. \A r \in Secret : r.kind \in Kinds
    BY DEF Secret
  <2>2. Unmade.kind = "none" /\ "none" \notin Kinds
    BY DEF Unmade, Kinds
  <2>3. QED
    BY <2>1, <2>2
<1>4. QED
  BY <1>1, <1>2, <1>3

\* A session's memory holds the arguments its kind of call carries.
LEMMA CallShapes ==
    ASSUME NEW c \in Calls
    PROVE  /\ c.op = "start" => c \in StartCall
           /\ c.op = "reset" => c \in SpendCall
           /\ c.op = "check" => c \in CheckCall
           /\ c.op = "enroll" => c \in EnrollCall
           /\ c.op = "list" => c \in ListCall
           /\ c.op = "strip" => c \in StripCall
  BY DEF Calls, Idle, StartCall, SpendCall, CheckCall, EnrollCall, ListCall, StripCall

\* Rows of a kind are rows.
LEMMA OfIsMade ==
    ASSUME TypeOK, NEW kind \in Kinds, NEW k \in Of(kind)
    PROVE  k \in Keys /\ secret[k] \in Secret /\ secret[k].kind = kind
<1>1. k \in Keys /\ secret[k].kind = kind
  BY DEF Of
<1>2. secret[k] # Unmade
  BY <1>1 DEF Unmade, Kinds
<1>3. QED
  BY <1>1, <1>2 DEF TypeOK

\* A row that is marked spent is a row of its kind.
LEMMA RowMarked ==
    ASSUME NEW r \in Secret
    PROVE  /\ [r EXCEPT !.spent = TRUE] \in Secret
           /\ [r EXCEPT !.spent = TRUE].kind = r.kind
           /\ [r EXCEPT !.spent = TRUE].number = r.number
           /\ [r EXCEPT !.spent = TRUE].spent
  BY DEF Secret

-----------------------------------------------------------------------------
(* What a step may do to the rows.                                         *)

Writes(s) ==
    \/ StartCommit(s) \/ ResetCommit(s)
    \/ CheckStale(s) \/ CheckWrong(s) \/ CheckRight(s)
    \/ \E k \in Keys : UseRecoveryCode(s, k)

\* Only these steps write rows, make keys or take a secret as right.
LEMMA Writers ==
    ASSUME [Next]_vars
    PROVE  \/ secret' = secret /\ made' = made /\ used' = used
           \/ \E s \in Sessions : Writes(s)
<1> USE DEF rows, factors, history
<1>1. CASE UNCHANGED vars
  BY <1>1 DEF vars
<1>2. CASE Tick \/ AppEnrolled
  BY <1>2 DEF Tick, AppEnrolled
<1>3. ASSUME NEW s \in Sessions, SessionSteps(s), ~Writes(s)
      PROVE  secret' = secret /\ made' = made /\ used' = used
  <2>1. CASE \E kind \in Kinds, number \in Numbers \union {NoNumber} : Start(s, kind, number)
    BY <2>1 DEF Start
  <2>2. CASE \E k \in Keys : ResetGuard(s, k)
    BY <2>2 DEF ResetGuard
  <2>3. CASE \E k \in Keys, right \in BOOLEAN : CheckGuard(s, k, right)
    BY <2>3 DEF CheckGuard
  <2>4. CASE EnrollPhone(s) \/ ListFactors(s) \/ Finishes(s)
    BY <2>4 DEF EnrollPhone, ListFactors, Finishes
  <2>5. CASE \E kind \in {"app", "sms"} : Disable(s, kind) \/ RemoveFactor(s, kind)
    BY <2>5 DEF Disable, RemoveFactor
  <2>6. QED
    BY <1>3, <2>1, <2>2, <2>3, <2>4, <2>5 DEF SessionSteps, Writes
<1>4. QED
  BY <1>1, <1>2, <1>3 DEF Next

\* A row stays what it is; a new one is as New makes it; the rest is unmade.
RowsMove ==
    /\ secret' \in [Keys -> Secret \union {Unmade}]
    /\ used' \in [Keys -> Nat]
    /\ made' \in 0 .. MaxMade /\ made' >= made
    /\ \A k \in Keys :
          /\ k <= made => /\ secret'[k] \in Secret
                          /\ secret'[k].kind = secret[k].kind
                          /\ secret'[k].number = secret[k].number
                          /\ used'[k] >= used[k]
          /\ k > made => used'[k] = 0
          /\ k > made /\ k <= made' => secret'[k] \in Secret
          /\ k > made' => secret'[k] = Unmade
    /\ \A k \in Keys : (secret'[k] \in Secret /\ ~secret'[k].spent) =>
          secret'[k].attempts < MaxAttempts

\* A recovery code is taken as right when it was unspent, and spent with that.
RecoveryStep ==
    \A k \in Of("recovery") :
        \/ used'[k] = used[k] /\ (secret[k].spent => secret'[k].spent)
        \/ ~secret[k].spent /\ secret'[k].spent /\ used'[k] = used[k] + 1

\* The keys a start makes, and the row it writes at each.
NewKeys(s) == made + 1 .. made + Size(call[s].kind)
NewRow(s) == New(call[s].kind, call[s].number, call[s].at, made + 1)

LEMMA StartWrites ==
    ASSUME TypeInv, NEW s \in Sessions, StartCommit(s)
    PROVE  /\ call[s] \in StartCall
           /\ made' = made + Size(call[s].kind) /\ made' \in 0 .. MaxMade /\ made' > made
           /\ UNCHANGED <<used, guesses>>
           /\ NewRow(s) \in Secret
           /\ NewKeys(s) \subseteq Keys
           /\ \A k \in Keys : k \in NewKeys(s) <=> k > made /\ k <= made'
           /\ \A k \in NewKeys(s) : secret'[k] = NewRow(s)
           /\ \A k \in Keys : k <= made =>
                secret'[k] = IF k \in call[s].seen THEN [secret[k] EXCEPT !.spent = TRUE] ELSE secret[k]
           /\ \A k \in Keys : k > made' => secret'[k] = Unmade
<1> USE DEF TypeInv
<1> DEFINE c == call[s]
           new == NewKeys(s)
           r == NewRow(s)
<1>1. c \in StartCall /\ c.seen \subseteq 1 .. made
  BY CallShapes DEF TypeOK, StartCommit, KindsKnown
<1>2. /\ new \subseteq Keys /\ made' = made + Size(c.kind)
      /\ used' = used /\ guesses' = guesses
      /\ secret' = [k \in Keys |->
             CASE k \in new    -> r
               [] k \in c.seen -> [secret[k] EXCEPT !.spent = TRUE]
               [] OTHER        -> secret[k]]
  BY DEF StartCommit, history, NewKeys, NewRow
<1>a. new \subseteq Keys /\ made' = made + Size(c.kind) /\ used' = used /\ guesses' = guesses
  BY <1>2, Zenon
<1>3. Size(c.kind) \in Nat \ {0}
  BY ConstantsAssumption DEF Size
<1>4. /\ made \in Nat /\ MaxMade \in Nat /\ made + 1 \in Keys
      /\ made' \in 0 .. MaxMade /\ made' > made
  <2>1. made \in Nat /\ MaxMade \in Nat
    BY Positive, ConstantsAssumption
  <2>2. made + 1 \in new /\ made + Size(c.kind) \in new
    BY <1>3, <2>1 DEF NewKeys
  <2>3. QED
    BY <1>a, <1>3, <2>1, <2>2 DEF Keys
<1>5. r \in Secret
  <2>1. c.kind \in Kinds /\ c.number \in Numbers \union {NoNumber} /\ c.at \in Nat
    BY <1>1 DEF StartCall
  <2>2. QED
    BY <1>4, <2>1, Positive DEF New, NewRow, Secret
<1>6. \A k \in Keys : k \in new <=> (k > made /\ k <= made')
  BY <1>a, <1>3, <1>4, Positive DEF NewKeys
<1> HIDE DEF c, new, r
<1>7. ASSUME NEW k \in new PROVE secret'[k] = r
  <2>1. k \in Keys
    BY <1>a, <1>7
  <2>2. k \notin c.seen
    BY <1>1, <1>4, <1>6, <1>7, <2>1
  <2>3. QED
    BY <1>2, <1>7, <2>1, <2>2
<1>8. ASSUME NEW k \in Keys, k <= made
      PROVE  secret'[k] = IF k \in c.seen THEN [secret[k] EXCEPT !.spent = TRUE] ELSE secret[k]
  <2>1. k \notin new
    BY <1>4, <1>6, <1>8, Positive
  <2>2. QED
    BY <1>2, <1>8, <2>1
<1>9. ASSUME NEW k \in Keys, k > made' PROVE secret'[k] = Unmade
  <2>1. k > made /\ ~(k <= made) /\ k \notin new
    BY <1>4, <1>6, <1>9, Positive
  <2>2. k \notin c.seen
    BY <1>1, <1>4, <2>1
  <2>3. secret[k] = Unmade
    BY <2>1 DEF KeysInOrder
  <2>4. QED
    BY <1>2, <2>1, <2>2, <2>3
<1>10. QED
  BY <1>1, <1>a, <1>4, <1>5, <1>6, <1>7, <1>8, <1>9 DEF c, new, r

LEMMA StartRows ==
    ASSUME TypeInv, NEW s \in Sessions, StartCommit(s)
    PROVE  RowsMove /\ RecoveryStep
<1> USE DEF TypeInv
<1> DEFINE c == call[s]
           new == NewKeys(s)
           r == NewRow(s)
<1>a. used' = used
  BY StartWrites
<1>4. /\ made \in Nat /\ MaxMade \in Nat
      /\ made' \in 0 .. MaxMade /\ made' >= made
  <2>1. made \in Nat /\ MaxMade \in Nat
    BY Positive, ConstantsAssumption
  <2>2. made' \in 0 .. MaxMade /\ made' > made
    BY StartWrites
  <2>3. QED
    BY <2>1, <2>2
<1>5. r \in Secret /\ r.attempts = 0 /\ ~r.spent
  BY StartWrites DEF NewRow, New
<1>6. \A k \in Keys : k \in new <=> (k > made /\ k <= made')
  BY StartWrites
<1>7. \A k \in new : secret'[k] = r
  BY StartWrites
<1>8. \A k \in Keys : k <= made =>
         secret'[k] = secret[k] \/ secret'[k] = [secret[k] EXCEPT !.spent = TRUE]
  BY StartWrites
<1>b. \A k \in Keys : k > made' => secret'[k] = Unmade
  BY StartWrites
<1>c. secret' = [k \in Keys |-> secret'[k]]
  BY DEF StartCommit
<1> HIDE DEF c, new, r
<1>9. ASSUME NEW k \in Keys, k <= made
      PROVE  /\ secret'[k] \in Secret
             /\ secret'[k].kind = secret[k].kind /\ secret'[k].number = secret[k].number
             /\ secret[k].spent => secret'[k].spent
             /\ ~secret'[k].spent => secret'[k] = secret[k]
  <2>1. secret[k] \in Secret
    BY <1>9 DEF KeysInOrder
  <2>3. CASE secret'[k] = secret[k]
    BY <2>1, <2>3
  <2>4. CASE secret'[k] = [secret[k] EXCEPT !.spent = TRUE]
    BY <2>1, <2>4 DEF Secret
  <2>5. QED
    BY <1>8, <1>9, <2>3, <2>4
<1>10. \A k \in Keys : k > made' => secret'[k] = Unmade
  BY <1>b
<1>11. \A k \in Keys : secret'[k] \in Secret \union {Unmade}
  <2>1. \A k \in Keys : k <= made \/ k \in new \/ k > made'
    BY <1>4, <1>6, Positive
  <2>2. QED
    BY <1>5, <1>7, <1>9, <1>10, <2>1
<1>12. secret' \in [Keys -> Secret \union {Unmade}]
  BY <1>c, <1>11
<1>13. used' \in [Keys -> Nat]
       /\ \A k \in Keys : used'[k] >= used[k] /\ (k > made => used'[k] = 0)
  <2>1. used \in [Keys -> Nat]
    BY DEF TypeOK
  <2>2. \A k \in Keys : k > made => used[k] = 0
    BY <1>4, Positive DEF KeysInOrder
  <2>3. QED
    BY <1>a, <2>1, <2>2
<1>14. ASSUME NEW k \in Keys, secret'[k] \in Secret, ~secret'[k].spent
       PROVE  secret'[k].attempts < MaxAttempts
  <2>1. CASE k \in new
    BY <1>5, <1>7, <2>1, Positive
  <2>2. CASE k <= made
    BY <1>9, <1>14, <2>2 DEF GuessLeft
  <2>3. CASE k > made'
    BY <1>10, <1>14, <2>3, Positive
  <2>4. QED
    BY <1>4, <1>6, <2>1, <2>2, <2>3, Positive
<1>15. RowsMove
  BY <1>4, <1>5, <1>6, <1>7, <1>9, <1>10, <1>12, <1>13, <1>14 DEF RowsMove
<1>16. RecoveryStep
  <2>1. \A k \in Of("recovery") : k <= made
    BY <1>4, Positive, OfIsMade DEF KeysInOrder, Kinds
  <2>2. QED
    BY <1>a, <1>9, <2>1 DEF RecoveryStep, Of
<1>17. QED
  BY <1>15, <1>16

\* A row is marked spent, and perhaps the secret is taken as right.
LEMMA MarkedSpent ==
    ASSUME TypeInv, NEW x \in Keys, secret[x] \in Secret, made' = made,
           secret' = [secret EXCEPT ![x].spent = TRUE],
           \/ used' = used
           \/ /\ used' = [used EXCEPT ![x] = @ + 1]
              /\ secret[x].kind = "recovery" => ~secret[x].spent
    PROVE  RowsMove /\ RecoveryStep
<1> USE DEF TypeInv
<1>1. made \in Nat /\ made \in 0 .. MaxMade /\ \A k \in Keys : k \in Nat
  BY Positive DEF TypeOK
<1>2. x <= made
  BY <1>1, Positive DEF KeysInOrder
<1>3. /\ secret'[x] \in Secret /\ secret'[x].kind = secret[x].kind
      /\ secret'[x].number = secret[x].number /\ secret'[x].spent
  <2>1. secret'[x] = [secret[x] EXCEPT !.spent = TRUE]
    BY DEF TypeOK
  <2>2. secret[x] \in Secret
    OBVIOUS
  <2>3. QED
    BY <2>1, <2>2, RowMarked
<1>4. \A k \in Keys \ {x} : secret'[k] = secret[k]
  BY DEF TypeOK
<1>5. secret' \in [Keys -> Secret \union {Unmade}]
  BY <1>3, <1>4 DEF TypeOK
<1>6. /\ used' \in [Keys -> Nat]
      /\ \A k \in Keys : used'[k] >= used[k] /\ (k # x => used'[k] = used[k])
      /\ used'[x] = used[x] \/ used'[x] = used[x] + 1
      /\ used'[x] # used[x] /\ secret[x].kind = "recovery" => ~secret[x].spent
  BY DEF TypeOK
<1>7. RowsMove
  <2>1. ASSUME NEW k \in Keys, k <= made
        PROVE  /\ secret'[k] \in Secret
               /\ secret'[k].kind = secret[k].kind
               /\ secret'[k].number = secret[k].number
    <3>1. CASE k = x
      BY <1>2, <1>3, <3>1
    <3>2. CASE k # x
      BY <1>4, <2>1, <3>2 DEF KeysInOrder
    <3>3. QED
      BY <3>1, <3>2
  <2>2. ASSUME NEW k \in Keys, k > made
        PROVE  secret'[k] = Unmade /\ used'[k] = 0
    <3>1. k \in Nat /\ made \in Nat /\ ~(k <= made) /\ k # x
      BY <1>1, <1>2, <2>2
    <3>2. secret[k] = Unmade /\ used[k] = 0
      BY <3>1 DEF KeysInOrder
    <3>3. QED
      BY <1>4, <1>6, <3>1, <3>2
  <2>3. made' = made /\ made' \in 0 .. MaxMade /\ made' >= made
    BY <1>1
  <2>4. \A k \in Keys : ~(k > made /\ k <= made')
    BY <1>1, <2>3
  <2>5. \A k \in Keys : (secret'[k] \in Secret /\ ~secret'[k].spent) =>
          secret'[k].attempts < MaxAttempts
    BY <1>3, <1>4 DEF GuessLeft
  <2>6. used' \in [Keys -> Nat] /\ \A k \in Keys : used'[k] >= used[k]
    BY <1>6
  <2> HIDE DEF TypeInv
  <2>7. QED
    BY <1>5, <2>1, <2>2, <2>3, <2>4, <2>5, <2>6 DEF RowsMove
<1>8. RecoveryStep
  <2>1. ASSUME NEW k \in Of("recovery")
        PROVE  \/ used'[k] = used[k] /\ (secret[k].spent => secret'[k].spent)
               \/ ~secret[k].spent /\ secret'[k].spent /\ used'[k] = used[k] + 1
    <3>1. k \in Keys /\ secret[k].kind = "recovery"
      BY DEF Of
    <3>2. QED
      BY <1>3, <1>4, <1>6, <3>1
  <2>2. QED
    BY <2>1 DEF RecoveryStep
<1>9. QED
  BY <1>7, <1>8

\* A wrong guess at a phone code is counted by what the request has read.
LEMMA GuessCounted ==
    ASSUME TypeInv, NEW s \in Sessions, CheckWrong(s)
    PROVE  RowsMove /\ RecoveryStep
<1> USE DEF TypeInv
<1> DEFINE x == call[s].key
           n == call[s].attempts + 1
<1>1. made \in Nat /\ made \in 0 .. MaxMade /\ \A k \in Keys : k \in Nat
  BY Positive DEF TypeOK
<1>2. x \in Keys /\ secret[x] \in Secret /\ secret[x].kind = "phone" /\ x <= made
  <2>1. x \in Of("phone")
    BY DEF CheckWrong, KindsKnown
  <2>2. x \in Keys /\ secret[x] \in Secret /\ secret[x].kind = "phone"
    BY <2>1, OfIsMade DEF Kinds
  <2>3. QED
    BY <1>1, <2>2, Positive DEF KeysInOrder
<1>3. n \in 0 .. MaxAttempts
  <2>1. call[s].attempts < MaxAttempts /\ call[s].attempts \in 0 .. MaxAttempts
    BY CallShapes DEF CheckWrong, GuessLeft, TypeOK, CheckCall
  <2>2. QED
    BY <2>1, Positive
<1>4. /\ secret' = [secret EXCEPT ![x] = [secret[x] EXCEPT !.attempts = n, !.spent = Retires(n)]]
      /\ made' = made /\ used' = used
  BY DEF CheckWrong, Retires
<1>5. secret'[x] = [secret[x] EXCEPT !.attempts = n, !.spent = Retires(n)]
  BY <1>2, <1>4 DEF TypeOK
<1>6. /\ secret'[x] \in Secret /\ secret'[x].kind = "phone"
      /\ secret'[x].number = secret[x].number
      /\ ~secret'[x].spent => secret'[x].attempts < MaxAttempts
  <2>1. Retires(n) \in BOOLEAN /\ (~Retires(n) => n < MaxAttempts)
    BY <1>3, Positive DEF Retires
  <2> HIDE DEF n, x
  <2>2. QED
    BY <1>2, <1>3, <1>5, <2>1 DEF Secret
<1>7. \A k \in Keys \ {x} : secret'[k] = secret[k]
  BY <1>4 DEF TypeOK
<1>8. secret' \in [Keys -> Secret \union {Unmade}]
  BY <1>2, <1>4, <1>5, <1>6 DEF TypeOK
<1> HIDE DEF x, n
<1>9. RowsMove
  <2>1. ASSUME NEW k \in Keys, k <= made
        PROVE  /\ secret'[k] \in Secret
               /\ secret'[k].kind = secret[k].kind
               /\ secret'[k].number = secret[k].number
    <3>1. CASE k = x
      BY <1>2, <1>6, <3>1
    <3>2. CASE k # x
      BY <1>7, <2>1, <3>2 DEF KeysInOrder
    <3>3. QED
      BY <3>1, <3>2
  <2>2. ASSUME NEW k \in Keys, k > made
        PROVE  secret'[k] = Unmade /\ used'[k] = 0
    <3>1. k \in Nat /\ made \in Nat /\ ~(k <= made) /\ k # x
      BY <1>1, <1>2, <2>2
    <3>2. secret[k] = Unmade /\ used[k] = 0
      BY <3>1 DEF KeysInOrder
    <3>3. QED
      BY <1>4, <1>7, <3>1, <3>2
  <2>3. made' = made /\ made' \in 0 .. MaxMade /\ made' >= made
    BY <1>1, <1>4
  <2>4. \A k \in Keys : ~(k > made /\ k <= made')
    BY <1>1, <2>3
  <2>5. \A k \in Keys : (secret'[k] \in Secret /\ ~secret'[k].spent) =>
          secret'[k].attempts < MaxAttempts
    BY <1>6, <1>7 DEF GuessLeft
  <2>6. used' \in [Keys -> Nat] /\ \A k \in Keys : used'[k] >= used[k]
    BY <1>1, <1>4 DEF TypeOK
  <2>7. QED
    BY <1>8, <2>1, <2>2, <2>3, <2>4, <2>5, <2>6 DEF RowsMove
<1>10. RecoveryStep
  <2>1. \A k \in Of("recovery") : k \in Keys \ {x}
    BY <1>2 DEF Of
  <2>2. QED
    BY <1>4, <1>7, <2>1 DEF RecoveryStep
<1>11. QED
  BY <1>9, <1>10

\* Together: what one step, of whichever kind, does to the rows.
LEMMA Moves ==
    ASSUME TypeInv, [Next]_vars
    PROVE  RowsMove /\ RecoveryStep
<1> USE DEF TypeInv
<1>1. CASE secret' = secret /\ made' = made /\ used' = used
  <2>1. made \in Nat /\ made \in 0 .. MaxMade /\ \A k \in Keys : k \in Nat
    BY Positive DEF TypeOK
  <2>2. secret \in [Keys -> Secret \union {Unmade}] /\ used \in [Keys -> Nat]
    BY DEF TypeOK
  <2>3. RowsMove
    BY <1>1, <2>1, <2>2 DEF RowsMove, KeysInOrder, GuessLeft
  <2>4. RecoveryStep
    BY <1>1 DEF RecoveryStep
  <2>5. QED
    BY <2>3, <2>4
<1>2. ASSUME NEW s \in Sessions, ResetCommit(s) PROVE RowsMove /\ RecoveryStep
  <2>1. call[s].key \in Of("reset")
    BY <1>2 DEF ResetCommit, KindsKnown
  <2>2. call[s].key \in Keys /\ secret[call[s].key] \in Secret
        /\ secret[call[s].key].kind = "reset"
    BY <2>1, OfIsMade DEF Kinds
  <2>3. QED
    BY <1>2, <2>2, MarkedSpent DEF ResetCommit, Accepts
<1>3. ASSUME NEW s \in Sessions, CheckStale(s) \/ CheckRight(s)
      PROVE  RowsMove /\ RecoveryStep
  <2>1. call[s].key \in Of("phone")
    BY <1>3 DEF CheckStale, CheckRight, KindsKnown
  <2>2. call[s].key \in Keys /\ secret[call[s].key] \in Secret
        /\ secret[call[s].key].kind = "phone"
    BY <2>1, OfIsMade DEF Kinds
  <2>3. CASE CheckStale(s)
    BY <2>2, <2>3, MarkedSpent DEF CheckStale, history
  <2>4. CASE CheckRight(s)
    BY <1>1, <2>2, <2>4, MarkedSpent DEF CheckRight, Accepts
  <2>5. QED
    BY <1>3, <2>3, <2>4
<1>4. ASSUME NEW s \in Sessions, NEW k \in Keys, UseRecoveryCode(s, k)
      PROVE  RowsMove /\ RecoveryStep
  <2>1. k \in Of("recovery") /\ ~secret[k].spent
    BY <1>4 DEF UseRecoveryCode, Recoverable, Live
  <2>2. secret[k] \in Secret
    BY <2>1, OfIsMade DEF Kinds
  <2>3. QED
    BY <1>4, <2>1, <2>2, MarkedSpent DEF UseRecoveryCode, Accepts
<1>5. QED
  BY <1>1, <1>2, <1>3, <1>4, Writers, StartRows, GuessCounted DEF Writes

\* Rows of a kind stay rows of the kind, and keys stay in order.
LEMMA RowsKept ==
    ASSUME TypeInv, RowsMove
    PROVE  /\ KeysInOrder'
           /\ \A kind \in Kinds : \A k \in Of(kind) : k \in Of(kind)'
           /\ \A k \in 1 .. made : k \in 1 .. made'
<1> USE DEF TypeInv
<1>1. made \in Nat /\ made' \in Nat /\ made' >= made /\ \A k \in Keys : k \in Nat
  BY Positive, ConstantsAssumption DEF RowsMove
<1>2. ASSUME NEW k \in Keys
      PROVE  IF k <= made' THEN secret'[k] \in Secret
             ELSE secret'[k] = Unmade /\ used'[k] = 0
  <2>1. CASE k <= made
    BY <1>1, <2>1 DEF RowsMove
  <2>2. CASE k > made /\ k <= made'
    BY <2>2 DEF RowsMove
  <2>3. CASE k > made /\ k > made'
    BY <1>1, <2>3 DEF RowsMove
  <2>4. QED
    BY <1>1, <2>1, <2>2, <2>3
<1>3. KeysInOrder'
  BY <1>2 DEF KeysInOrder, Keys
<1>4. ASSUME NEW kind \in Kinds, NEW k \in Of(kind) PROVE k \in Of(kind)'
  <2>1. k \in Keys /\ secret[k] \in Secret /\ secret[k].kind = kind
    BY OfIsMade
  <2>2. k <= made
    BY <1>1, <2>1, Positive DEF KeysInOrder
  <2>3. QED
    BY <2>1, <2>2 DEF RowsMove, Of, Keys
<1>5. \A k \in 1 .. made : k \in 1 .. made'
  BY <1>1
<1>6. QED
  BY <1>3, <1>4, <1>5

-----------------------------------------------------------------------------
(* What a step may do to the requests.                                     *)

\* What a request takes into memory fits the rows it has read, and an
\* enrollment begins with the answer of its code.
Fits(c) ==
    /\ c \in Calls
    /\ c.op = "start" => c.seen \subseteq 1 .. made
    /\ c.op = "reset" => c.key \in Of("reset")
    /\ c.op \in {"check", "enroll"} => c.key \in Of("phone")
    /\ c.op = "check" => c.attempts < MaxAttempts
    /\ c.op = "enroll" => used'[c.key] > 0

LEMMA IdleFits == Fits(Idle)
  BY DEF Fits, Idle, Calls

LEMMA StartFits ==
    ASSUME TypeInv, NEW s \in Sessions, NEW kind \in Kinds,
           NEW number \in Numbers \union {NoNumber}, Start(s, kind, number)
    PROVE  \E c : Fits(c) /\ call' = [call EXCEPT ![s] = c]
<1> DEFINE c == [op |-> "start", kind |-> kind, number |-> number,
                 seen |-> ToRetire(kind), at |-> clock]
<1>1. call' = [call EXCEPT ![s] = c]
  BY DEF Start, Starts
<1>2. ToRetire(kind) \subseteq Keys /\ ToRetire(kind) \subseteq 1 .. made
  <2>1. ASSUME NEW k \in ToRetire(kind) PROVE k \in Keys /\ k \in 1 .. made
    <3>1. k \in Of(kind)
      BY DEF ToRetire, Live
    <3>2. k \in Keys /\ secret[k] \in Secret
      BY <3>1, OfIsMade DEF TypeInv
    <3>3. QED
      BY <3>2, Positive DEF TypeInv, KeysInOrder
  <2>2. QED
    BY <2>1
<1>3. c \in StartCall
  BY <1>2, Positive DEF StartCall, TypeInv
<1>4. c.op = "start" /\ c.seen = ToRetire(kind)
  OBVIOUS
<1> HIDE DEF c
<1>5. Fits(c)
  BY <1>2, <1>3, <1>4 DEF Fits, Calls
<1>6. QED
  BY <1>1, <1>5

LEMMA ResetFits ==
    ASSUME TypeInv, NEW s \in Sessions, NEW k \in Keys, ResetGuard(s, k)
    PROVE  \E c : Fits(c) /\ call' = [call EXCEPT ![s] = c]
<1> DEFINE c == [op |-> "reset", key |-> k]
<1>1. call' = [call EXCEPT ![s] = c] /\ k \in Of("reset")
  BY DEF ResetGuard, Starts, Live
<1>2. c \in SpendCall /\ c.op = "reset" /\ c.key = k
  BY DEF SpendCall
<1> HIDE DEF c
<1>3. Fits(c)
  BY <1>1, <1>2 DEF Fits, Calls
<1>4. QED
  BY <1>1, <1>3

LEMMA CheckFits ==
    ASSUME TypeInv, NEW s \in Sessions, NEW k \in Keys, NEW right \in BOOLEAN,
           CheckGuard(s, k, right)
    PROVE  \E c : Fits(c) /\ call' = [call EXCEPT ![s] = c]
<1> DEFINE c == [op |-> "check", key |-> k, right |-> right,
                 attempts |-> secret[k].attempts, stale |-> Stale(k)]
<1>1. call' = [call EXCEPT ![s] = c] /\ k \in Of("phone") /\ ~secret[k].spent
  BY DEF CheckGuard, Starts, Outstanding, Live
<1>2. secret[k] \in Secret /\ secret[k].attempts \in 0 .. MaxAttempts
      /\ secret[k].attempts < MaxAttempts
  <2>1. secret[k] \in Secret
    BY <1>1, OfIsMade DEF TypeInv, Kinds
  <2>2. QED
    BY <1>1, <2>1 DEF TypeInv, GuessLeft, Secret
<1>3. Stale(k) \in BOOLEAN
  BY DEF Stale
<1>4. c \in CheckCall
  BY <1>2, <1>3 DEF CheckCall
<1>5. c.op = "check" /\ c.key = k /\ c.attempts = secret[k].attempts
  OBVIOUS
<1> HIDE DEF c
<1>6. Fits(c)
  BY <1>1, <1>2, <1>4, <1>5 DEF Fits, Calls
<1>7. QED
  BY <1>1, <1>6

\* A right answer is counted in the step that begins the enrollment.
LEMMA EnrollFits ==
    ASSUME TypeInv, NEW s \in Sessions, CheckRight(s)
    PROVE  \E c : Fits(c) /\ call' = [call EXCEPT ![s] = c]
<1> DEFINE k == call[s].key
           c == [op |-> "enroll", key |-> k]
<1>1. CASE secret[k].spent
  BY <1>1, IdleFits DEF CheckRight, Ends
<1>2. CASE ~secret[k].spent
  <2>1. call' = [call EXCEPT ![s] = c] /\ used' = [used EXCEPT ![k] = @ + 1]
    BY <1>2 DEF CheckRight, Accepts
  <2>2. k \in Of("phone")
    BY DEF CheckRight, TypeInv, KindsKnown
  <2>3. k \in Keys
    BY <2>2 DEF Of
  <2>4. used'[k] > 0
    BY <2>1, <2>3 DEF TypeInv, TypeOK
  <2>5. c \in EnrollCall /\ c.op = "enroll" /\ c.key = k
    BY <2>3 DEF EnrollCall
  <2> HIDE DEF c, k
  <2>6. Fits(c)
    BY <2>2, <2>4, <2>5 DEF Fits, Calls
  <2>7. QED
    BY <2>1, <2>6
<1>3. QED
  BY <1>1, <1>2

\* Listing and taking off factors leaves nothing to remember but factors.
LEMMA FactorsFit ==
    ASSUME NEW c \in ListCall \union StripCall
    PROVE  Fits(c)
<1>1. c \in Calls
  BY DEF Calls
<1>2. c.op \in {"list", "strip"}
  BY DEF ListCall, StripCall
<1>3. QED
  BY <1>1, <1>2 DEF Fits

LEMMA StripFits ==
    ASSUME TypeInv, NEW s \in Sessions,
           \/ \E k \in Keys : UseRecoveryCode(s, k)
           \/ ListFactors(s)
           \/ \E kind \in {"app", "sms"} : Disable(s, kind) \/ RemoveFactor(s, kind)
    PROVE  \E c : Fits(c) /\ call' = [call EXCEPT ![s] = c]
<1>1. \A left \in SUBSET {"app", "sms"} : [op |-> "strip", left |-> left] \in StripCall
  BY DEF StripCall
<1>2. CASE \E k \in Keys : UseRecoveryCode(s, k)
  <2>1. call' = [call EXCEPT ![s] = [op |-> "list"]]
    BY <1>2 DEF UseRecoveryCode, Starts
  <2>2. [op |-> "list"] \in ListCall
    BY DEF ListCall
  <2>3. QED
    BY <2>1, <2>2, FactorsFit
<1>3. CASE ListFactors(s)
  <2>1. call' = [call EXCEPT ![s] = [op |-> "strip", left |-> OnAccount]]
    BY <1>3 DEF ListFactors
  <2>2. OnAccount \in SUBSET {"app", "sms"}
    BY DEF OnAccount
  <2>3. [op |-> "strip", left |-> OnAccount] \in StripCall
    BY <1>1, <2>2
  <2>4. QED
    BY <2>1, <2>3, FactorsFit
<1>4. ASSUME NEW kind \in {"app", "sms"}, Disable(s, kind)
      PROVE  \E c : Fits(c) /\ call' = [call EXCEPT ![s] = c]
  <2>1. call' = [call EXCEPT ![s] = [op |-> "strip", left |-> {kind}]]
    BY <1>4 DEF Disable, Starts
  <2>2. [op |-> "strip", left |-> {kind}] \in StripCall
    BY <1>1
  <2>3. QED
    BY <2>1, <2>2, FactorsFit
<1>5. ASSUME NEW kind \in {"app", "sms"}, RemoveFactor(s, kind)
      PROVE  \E c : Fits(c) /\ call' = [call EXCEPT ![s] = c]
  <2> DEFINE c == [call[s] EXCEPT !.left = @ \ {kind}]
  <2>1. call[s] \in StripCall
    BY <1>5, CallShapes DEF RemoveFactor, TypeInv, TypeOK
  <2>2. c \in StripCall
    BY <2>1 DEF StripCall
  <2>3. call' = [call EXCEPT ![s] = c]
    BY <1>5 DEF RemoveFactor
  <2> HIDE DEF c
  <2>4. QED
    BY <2>2, <2>3, FactorsFit
<1>6. QED
  BY <1>2, <1>3, <1>4, <1>5

LEMMA CallsMove ==
    ASSUME TypeInv, [Next]_vars
    PROVE  \/ call' = call
           \/ \E s \in Sessions : \E c : Fits(c) /\ call' = [call EXCEPT ![s] = c]
<1>1. CASE UNCHANGED vars
  BY <1>1 DEF vars
<1>2. CASE Tick \/ AppEnrolled
  BY <1>2 DEF Tick, AppEnrolled
<1>3. ASSUME NEW s \in Sessions, SessionSteps(s)
      PROVE  \E c : Fits(c) /\ call' = [call EXCEPT ![s] = c]
  <2>1. CASE \/ StartCommit(s) \/ ResetCommit(s) \/ CheckStale(s) \/ CheckWrong(s)
             \/ EnrollPhone(s) \/ Finishes(s)
    <3>1. call' = [call EXCEPT ![s] = Idle]
      BY <2>1 DEF StartCommit, ResetCommit, CheckStale, CheckWrong, EnrollPhone,
                  Finishes, Ends
    <3>2. QED
      BY <3>1, IdleFits
  <2>2. QED
    BY <1>3, <2>1, StartFits, ResetFits, CheckFits, EnrollFits, StripFits DEF SessionSteps
<1>4. QED
  BY <1>1, <1>2, <1>3 DEF Next

-----------------------------------------------------------------------------
(* The inductive steps.                                                    *)

\* What a request remembers still fits after the step.
LEMMA CallsKept ==
    ASSUME TypeInv, AnsweredFirst, [Next]_vars
    PROVE  /\ call' \in [Sessions -> Calls]
           /\ KindsKnown' /\ AnsweredFirst'
           /\ \A s \in Sessions : call'[s].op = "check" => call'[s].attempts < MaxAttempts
<1>1. RowsMove
  BY Moves
<1>2. call \in [Sessions -> Calls]
  BY DEF TypeInv, TypeOK
<1>3. \A kind \in Kinds : \A k \in Of(kind) : k \in Of(kind)'
  BY <1>1, RowsKept
<1>4. \A k \in 1 .. made : k \in 1 .. made'
  BY <1>1, RowsKept
<1>5. "reset" \in Kinds /\ "phone" \in Kinds
  BY DEF Kinds
<1>6. ASSUME NEW k \in Of("phone"), used[k] > 0 PROVE used'[k] > 0
  <2>1. k \in Keys /\ secret[k] \in Secret
    BY <1>5, OfIsMade DEF TypeInv
  <2>2. k <= made
    BY <2>1, Positive DEF TypeInv, KeysInOrder
  <2>3. used'[k] >= used[k] /\ used[k] \in Nat /\ used'[k] \in Nat
    BY <1>1, <2>1, <2>2 DEF RowsMove, TypeInv, TypeOK
  <2>4. QED
    BY <1>6, <2>3
<1>7. ASSUME NEW s \in Sessions PROVE Fits(call[s])
  <2>1. call[s] \in Calls
    BY <1>2
  <2>2. call[s].op = "check" => call[s].attempts < MaxAttempts
    BY DEF TypeInv, GuessLeft
  <2>3. /\ call[s].op = "start" => call[s].seen \subseteq 1 .. made
        /\ call[s].op = "reset" => call[s].key \in Of("reset")
        /\ call[s].op \in {"check", "enroll"} => call[s].key \in Of("phone")
    BY DEF TypeInv, KindsKnown
  <2>4. call[s].op = "enroll" => used'[call[s].key] > 0
    BY <1>6, <2>3 DEF AnsweredFirst
  <2>5. QED
    BY <2>1, <2>2, <2>3, <2>4 DEF Fits
<1>8. call' \in [Sessions -> Calls] /\ \A s \in Sessions : Fits(call'[s])
  <2>1. CASE call' = call
    BY <1>2, <1>7, <2>1
  <2>2. ASSUME NEW t \in Sessions, NEW c, Fits(c), call' = [call EXCEPT ![t] = c]
        PROVE  call' \in [Sessions -> Calls] /\ \A s \in Sessions : Fits(call'[s])
    <3>1. c \in Calls
      BY <2>2 DEF Fits
    <3>2. call' \in [Sessions -> Calls]
      BY <1>2, <2>2, <3>1
    <3>3. \A s \in Sessions : call'[s] = c \/ call'[s] = call[s]
      BY <1>2, <2>2
    <3>4. QED
      BY <1>7, <2>2, <3>2, <3>3
  <2>3. QED
    BY <2>1, <2>2, CallsMove
<1>9. ASSUME NEW s \in Sessions
      PROVE  /\ call'[s].op = "start" => call'[s].seen \subseteq 1 .. made'
             /\ call'[s].op = "reset" => call'[s].key \in Of("reset")'
             /\ call'[s].op \in {"check", "enroll"} => call'[s].key \in Of("phone")'
             /\ call'[s].op = "check" => call'[s].attempts < MaxAttempts
             /\ call'[s].op = "enroll" => used'[call'[s].key] > 0
  BY <1>3, <1>4, <1>5, <1>8 DEF Fits
<1>10. KindsKnown' /\ AnsweredFirst'
  BY <1>9 DEF KindsKnown, AnsweredFirst
<1>11. QED
  BY <1>8, <1>9, <1>10

\* The number on the account stays, goes, or is that of an answered code.
PhoneStep ==
    \/ phone' = phone
    \/ phone' = NoNumber
    \/ \E s \in Sessions : call[s].op = "enroll" /\ phone' = secret[call[s].key].number

LEMMA OthersMove ==
    ASSUME TypeInv, [Next]_vars
    PROVE  /\ clock' \in 0 .. MaxTime /\ app' \in BOOLEAN /\ calm' \in BOOLEAN
           /\ guesses' \in [Keys -> Nat]
           /\ PhoneStep
<1>1. /\ clock \in 0 .. MaxTime /\ app \in BOOLEAN /\ calm \in BOOLEAN
      /\ guesses \in [Keys -> Nat]
  BY DEF TypeInv, TypeOK
<1> USE DEF factors, history
<1>2. clock' = clock \/ Tick
  <2>1. ASSUME NEW s \in Sessions, SessionSteps(s) PROVE clock' = clock
    BY <2>1 DEF SessionSteps, Start, StartCommit, ResetGuard, ResetCommit, CheckGuard,
                CheckStale, CheckWrong, CheckRight, EnrollPhone, UseRecoveryCode,
                ListFactors, Disable, RemoveFactor, Finishes
  <2>2. QED
    BY <2>1 DEF Next, AppEnrolled, vars
<1>3. clock' \in 0 .. MaxTime
  BY <1>1, <1>2, ConstantsAssumption DEF Tick
<1>4. app' \in BOOLEAN /\ PhoneStep
  <2>1. ASSUME NEW s \in Sessions, SessionSteps(s)
        PROVE  \/ app' = app /\ phone' = phone
               \/ EnrollPhone(s)
               \/ \E kind \in {"app", "sms"} : RemoveFactor(s, kind)
    BY <2>1 DEF SessionSteps, Start, StartCommit, ResetGuard, ResetCommit, CheckGuard,
                CheckStale, CheckWrong, CheckRight, UseRecoveryCode,
                ListFactors, Disable, Finishes
  <2>2. ASSUME NEW s \in Sessions, EnrollPhone(s) PROVE app' \in BOOLEAN /\ PhoneStep
    BY <1>1, <2>2 DEF EnrollPhone, NumberToEnroll, PhoneStep
  <2>3. ASSUME NEW s \in Sessions, NEW kind \in {"app", "sms"}, RemoveFactor(s, kind)
        PROVE  app' \in BOOLEAN /\ PhoneStep
    BY <1>1, <2>3 DEF RemoveFactor, PhoneStep
  <2>4. CASE Tick \/ AppEnrolled \/ UNCHANGED vars
    BY <1>1, <2>4 DEF Tick, AppEnrolled, vars, PhoneStep
  <2>5. QED
    BY <1>1, <2>1, <2>2, <2>3, <2>4 DEF Next, PhoneStep
<1>5. calm' \in BOOLEAN
  <2>1. ASSUME NEW s \in Sessions, SessionSteps(s) PROVE calm' = calm \/ Begins
    BY <2>1 DEF SessionSteps, Start, StartCommit, ResetGuard, ResetCommit, CheckGuard,
                CheckStale, CheckWrong, CheckRight, EnrollPhone, UseRecoveryCode,
                ListFactors, Disable, RemoveFactor, Finishes
  <2>2. calm' = calm \/ Begins
    BY <2>1 DEF Next, AppEnrolled, Tick, vars
  <2>3. QED
    BY <1>1, <2>2 DEF Begins
<1>6. guesses' \in [Keys -> Nat]
  <2>1. ASSUME NEW s \in Sessions, SessionSteps(s)
        PROVE  guesses' = guesses \/ guesses' = [guesses EXCEPT ![call[s].key] = @ + 1]
    BY <2>1 DEF SessionSteps, Start, StartCommit, ResetGuard, ResetCommit, CheckGuard,
                CheckStale, CheckWrong, CheckRight, EnrollPhone, UseRecoveryCode,
                ListFactors, Disable, RemoveFactor, Finishes
  <2>2. QED
    BY <1>1, <2>1 DEF Next, AppEnrolled, Tick, vars
<1>7. QED
  BY <1>1, <1>3, <1>4, <1>5, <1>6

\* The inductive invariant of the three theorems.
IInv == TypeInv /\ AnsweredFirst /\ UnspentUnused /\ NumberAnswered

LEMMA Initially ==
    ASSUME Init
    PROVE  IInv
<1>1. \A k \in Keys : k \in Nat /\ ~(k <= 0)
  BY DEF Keys
<1>2. TypeOK
  <2>1. 0 \in 0 .. MaxTime /\ 0 \in 0 .. MaxMade
    BY ConstantsAssumption
  <2>2. secret \in [Keys -> Secret \union {Unmade}]
    BY DEF Init
  <2>3. call \in [Sessions -> Calls]
    BY DEF Init, Calls
  <2>4. used \in [Keys -> Nat] /\ guesses \in [Keys -> Nat]
    BY DEF Init
  <2>5. QED
    BY <2>1, <2>2, <2>3, <2>4 DEF Init, TypeOK
<1>3. KeysInOrder
  BY <1>1 DEF Init, KeysInOrder
<1>4. \A kind \in Kinds : Of(kind) = {}
  BY DEF Init, Of, Kinds, Unmade
<1>5. GuessLeft /\ KindsKnown /\ AnsweredFirst
  <2>1. Unmade \notin Secret
    BY <1>2, Positive
  <2>2. QED
    BY <2>1 DEF Init, GuessLeft, KindsKnown, AnsweredFirst, Idle
<1>6. UnspentUnused /\ NumberAnswered
  BY <1>4 DEF Init, UnspentUnused, NumberAnswered, Kinds
<1>7. QED
  BY <1>2, <1>3, <1>5, <1>6 DEF IInv, TypeInv

LEMMA TypesKept ==
    ASSUME IInv, [Next]_vars
    PROVE  TypeInv'
<1>1. TypeInv /\ AnsweredFirst
  BY DEF IInv
<1>2. RowsMove
  BY <1>1, Moves
<1>3. KeysInOrder'
  BY <1>1, <1>2, RowsKept
<1>4. /\ call' \in [Sessions -> Calls] /\ KindsKnown'
      /\ \A s \in Sessions : call'[s].op = "check" => call'[s].attempts < MaxAttempts
  BY <1>1, CallsKept
<1>5. GuessLeft'
  BY <1>2, <1>4 DEF RowsMove, GuessLeft, Keys
<1>6. phone' \in Numbers \union {NoNumber}
  <2>1. phone \in Numbers \union {NoNumber}
    BY <1>1 DEF TypeInv, TypeOK
  <2>2. ASSUME NEW s \in Sessions, call[s].op = "enroll"
        PROVE  secret[call[s].key].number \in Numbers \union {NoNumber}
    <3>1. call[s].key \in Of("phone") /\ "phone" \in Kinds
      BY <1>1, <2>2 DEF TypeInv, KindsKnown, Kinds
    <3>2. secret[call[s].key] \in Secret
      BY <1>1, <3>1, OfIsMade DEF TypeInv
    <3>3. QED
      BY <3>2 DEF Secret
  <2>3. QED
    BY <1>1, <2>1, <2>2, OthersMove DEF PhoneStep
<1>7. TypeOK'
  <2>1. /\ clock' \in 0 .. MaxTime /\ app' \in BOOLEAN /\ calm' \in BOOLEAN
        /\ guesses' \in [Keys -> Nat]
    BY <1>1, OthersMove
  <2>2. QED
    BY <1>2, <1>4, <1>6, <2>1 DEF TypeOK, RowsMove, Keys
<1>8. QED
  BY <1>3, <1>4, <1>5, <1>7 DEF TypeInv

LEMMA UnspentUnusedKept ==
    ASSUME IInv, [Next]_vars
    PROVE  UnspentUnused'
<1>1. TypeInv /\ TypeInv' /\ UnspentUnused /\ "recovery" \in Kinds
  BY TypesKept DEF IInv, Kinds
<1>2. RowsMove /\ RecoveryStep
  BY <1>1, Moves
<1>3. ASSUME NEW k \in Of("recovery")'
      PROVE  used'[k] <= 1 /\ (~secret'[k].spent => used'[k] = 0)
  <2>1. k \in Keys /\ secret'[k].kind = "recovery" /\ k \in Nat /\ made \in Nat
    BY <1>1, <1>3, Positive DEF Of, Keys, TypeInv
  <2>2. CASE k > made
    BY <1>2, <2>1, <2>2 DEF RowsMove
  <2>3. CASE k <= made
    <3>1. k \in Of("recovery")
      BY <1>2, <2>1, <2>3 DEF RowsMove, Of
    <3>2. used[k] \in Nat
      BY <1>1, <2>1 DEF TypeInv, TypeOK
    <3>3. used[k] <= 1 /\ (~secret[k].spent => used[k] = 0)
      BY <1>1, <3>1 DEF UnspentUnused
    <3>4. QED
      BY <1>2, <3>1, <3>2, <3>3 DEF RecoveryStep
  <2>4. QED
    BY <2>1, <2>2, <2>3
<1>4. QED
  BY <1>3 DEF UnspentUnused

LEMMA NumberAnsweredKept ==
    ASSUME IInv, [Next]_vars
    PROVE  NumberAnswered'
<1>1. TypeInv /\ AnsweredFirst /\ NumberAnswered /\ "phone" \in Kinds
  BY DEF IInv, Kinds
<1>2. RowsMove
  BY <1>1, Moves
<1>3. ASSUME NEW k \in Of("phone"), used[k] > 0
      PROVE  k \in Of("phone")' /\ secret'[k].number = secret[k].number /\ used'[k] > 0
  <2>1. k \in Keys /\ secret[k] \in Secret
    BY <1>1, OfIsMade DEF TypeInv
  <2>2. k <= made
    BY <1>1, <2>1, Positive DEF TypeInv, KeysInOrder
  <2>3. used[k] \in Nat /\ used'[k] \in Nat
    BY <1>1, <1>2, <2>1 DEF TypeInv, TypeOK, RowsMove
  <2>4. k \in Of("phone")'
    BY <1>1, <1>2, RowsKept
  <2>5. QED
    BY <1>2, <1>3, <2>1, <2>2, <2>3, <2>4 DEF RowsMove
<1>4. CASE phone' = phone
  BY <1>1, <1>3, <1>4 DEF NumberAnswered
<1>5. CASE phone' = NoNumber
  BY <1>5 DEF NumberAnswered
<1>6. ASSUME NEW s \in Sessions, call[s].op = "enroll", phone' = secret[call[s].key].number
      PROVE  NumberAnswered'
  <2>1. call[s].key \in Of("phone") /\ used[call[s].key] > 0
    BY <1>1, <1>6 DEF TypeInv, KindsKnown, AnsweredFirst
  <2>2. QED
    BY <1>3, <1>6, <2>1 DEF NumberAnswered
<1>7. QED
  BY <1>1, <1>4, <1>5, <1>6, OthersMove DEF PhoneStep

LEMMA Invariant == Spec => []IInv
<1>1. ASSUME IInv, [Next]_vars PROVE IInv'
  <2>1. AnsweredFirst'
    BY <1>1, CallsKept DEF IInv
  <2>2. QED
    BY <1>1, <2>1, TypesKept, UnspentUnusedKept, NumberAnsweredKept DEF IInv
<1>2. QED
  BY Initially, <1>1, PTL DEF Spec

-----------------------------------------------------------------------------
(* The theorems.                                                           *)

\* Every variable keeps its type, however the requests interleave.
THEOREM TypeCorrect == Spec => []TypeOK
<1>1. IInv => TypeOK
  BY DEF IInv, TypeInv
<1>2. QED
  BY Invariant, <1>1, PTL

\* "Two requests racing with the same code cannot both find it unspent"
\* (dbo.SpendRecoveryCode): a recovery code is taken as right at most once, in
\* any interleaving of any number of requests.
THEOREM RecoveredOnce == Spec => []RecoveryCodeWorksOnce
<1>1. IInv => RecoveryCodeWorksOnce
  BY DEF IInv, UnspentUnused, RecoveryCodeWorksOnce
<1>2. QED
  BY Invariant, <1>1, PTL

\* "The only number this can turn into a second factor is the one a code was
\* sent to and answered" (confirmSmsEnrollment): in any interleaving, also when
\* messages overlap or a code is retired behind its answer.
THEOREM EnrolledAnswered == Spec => []NumberAnswered
<1>1. IInv => NumberAnswered
  BY DEF IInv
<1>2. QED
  BY Invariant, <1>1, PTL

-----------------------------------------------------------------------------
(* Until two transactions overlap.                                         *)

\* There is one transaction at most.
OneTransaction ==
    \A s, t \in Sessions : InTransaction(call[s]) /\ InTransaction(call[t]) => s = t

OneUse(k) == used[k] <= 1 /\ (~secret[k].spent => used[k] = 0)

\* As long as a code may be guessed at, its row has every guess.
GuessesCounted(k) ==
    guesses[k] + used[k] <= MaxAttempts /\ (~secret[k].spent => guesses[k] = secret[k].attempts)

\* The messages of the hour before a time, and those to one number.
Window(t) == {j \in Of("phone") : secret[j].at <= t /\ secret[j].at + Hour > t}
Texts(t, n) == {j \in Window(t) : secret[j].number = n}

WindowsBounded ==
    \A t \in Nat : /\ Cardinality(Window(t)) <= MaxPerAccount
                   /\ \A n \in Numbers : Cardinality(Texts(t, n)) <= MaxPerNumber

LastIsLive ==
    \A kind \in Kinds : \A k \in Live(kind), j \in Of(kind) : secret[j].batch <= secret[k].batch

CalmRows ==
    /\ \A k \in Of("reset") \union Of("phone") : OneUse(k)
    /\ \A k \in Of("phone") : GuessesCounted(k)
    /\ LastIsLive
    /\ WindowsBounded

\* What the transaction has read is still so.
ReadStands(c) ==
    /\ c.op = "start" => Live(c.kind) \subseteq c.seen
    /\ c.op = "start" /\ c.kind = "phone" =>
         /\ \A j \in Of("phone") : secret[j].at < c.at
         /\ Cardinality(Window(c.at)) < MaxPerAccount
         /\ Cardinality(Texts(c.at, c.number)) < MaxPerNumber
    /\ c.op = "reset" => ~secret[c.key].spent
    /\ c.op = "check" => ~secret[c.key].spent /\ secret[c.key].attempts = c.attempts

CalmReads == \A s \in Sessions : ReadStands(call[s])

\* The sets are numbered in the order in which they are made, and what is not
\* made yet is not guessed at.
BatchesInOrder ==
    \A k \in Keys : IF k <= made THEN secret[k].batch <= made ELSE guesses[k] = 0

CalmInv ==
    BatchesInOrder /\ (calm => OneTransaction /\ CalmRows /\ CalmReads)

\* What a row keeps when it is marked or a guess is counted.
KeepsIdentity(k) ==
    /\ secret'[k].kind = secret[k].kind /\ secret'[k].number = secret[k].number
    /\ secret'[k].at = secret[k].at /\ secret'[k].batch = secret[k].batch

\* Sets of rows that are read off what a row keeps.
LEMMA SameRows ==
    ASSUME \A k \in Keys : KeepsIdentity(k)
    PROVE  /\ \A kind : Of(kind)' = Of(kind)
           /\ \A t : Window(t)' = Window(t)
           /\ \A t, n : Texts(t, n)' = Texts(t, n)
<1>1. \A kind : Of(kind)' = Of(kind)
  BY DEF Of, Keys, KeepsIdentity
<1>2. Of("phone") \subseteq Keys
  BY DEF Of
<1>3. \A t : Window(t)' = Window(t)
  BY <1>1, <1>2 DEF Window, KeepsIdentity
<1>4. \A t : Window(t) \subseteq Keys
  BY <1>2 DEF Window
<1>5. \A t, n : Texts(t, n)' = Texts(t, n)
  BY <1>3, <1>4 DEF Texts, KeepsIdentity
<1>6. QED
  BY <1>1, <1>3, <1>5

\* One row is written, and it does not come back to life.
LEMMA MarkedCalm ==
    ASSUME TypeInv, CalmRows, NEW x \in Keys,
           \A k \in Keys : KeepsIdentity(k),
           \A k \in Keys \ {x} : /\ secret'[k] = secret[k]
                                 /\ used'[k] = used[k] /\ guesses'[k] = guesses[k],
           secret[x].spent => secret'[x].spent,
           x \in Of("reset") \union Of("phone") => OneUse(x)',
           x \in Of("phone") => GuessesCounted(x)'
    PROVE  CalmRows' /\ \A kind : Live(kind)' \subseteq Live(kind)
<1>1. \A kind : Of(kind)' = Of(kind)
  BY SameRows
<1>2. \A kind : Of(kind) \subseteq Keys
  BY DEF Of
<1>3. \A kind : Live(kind)' \subseteq Live(kind)
  BY <1>1, <1>2 DEF Live
<1>4. \A k \in (Of("reset") \union Of("phone"))' : OneUse(k)'
  <2> SUFFICES ASSUME NEW k \in Of("reset") \union Of("phone") PROVE OneUse(k)'
    BY <1>1
  <2>1. CASE k = x
    BY <2>1
  <2>2. CASE k # x
    BY <1>2, <2>2 DEF CalmRows, OneUse
  <2>3. QED
    BY <2>1, <2>2
<1>5. \A k \in Of("phone")' : GuessesCounted(k)'
  <2> SUFFICES ASSUME NEW k \in Of("phone") PROVE GuessesCounted(k)'
    BY <1>1
  <2>1. CASE k = x
    BY <2>1
  <2>2. CASE k # x
    BY <1>2, <2>2 DEF CalmRows, GuessesCounted
  <2>3. QED
    BY <2>1, <2>2
<1>6. LastIsLive'
  <2> SUFFICES ASSUME NEW kind \in Kinds, NEW k \in Live(kind)', NEW j \in Of(kind)'
               PROVE  secret'[j].batch <= secret'[k].batch
    BY DEF LastIsLive
  <2>1. k \in Live(kind) /\ j \in Of(kind) /\ k \in Keys /\ j \in Keys
    BY <1>1, <1>2, <1>3 DEF Live
  <2>2. QED
    BY <2>1 DEF CalmRows, LastIsLive, KeepsIdentity
<1>7. WindowsBounded'
  BY SameRows DEF CalmRows, WindowsBounded
<1>8. QED
  BY <1>3, <1>4, <1>5, <1>6, <1>7 DEF CalmRows

\* When the only transaction is over there is none.
LEMMA NoneLeft ==
    ASSUME TypeInv, OneTransaction, NEW s \in Sessions, InTransaction(call[s]),
           NEW c, ~InTransaction(c), call' = [call EXCEPT ![s] = c]
    PROVE  OneTransaction' /\ CalmReads'
<1>1. call \in [Sessions -> Calls]
  BY DEF TypeInv, TypeOK
<1>2. \A t \in Sessions : call'[t] = IF t = s THEN c ELSE call[t]
  BY <1>1
<1>3. \A t \in Sessions : ~InTransaction(call'[t])
  BY <1>2 DEF OneTransaction
<1>4. \A t \in Sessions : call'[t].op \notin {"start", "reset", "check"}
  BY <1>3 DEF InTransaction
<1>5. QED
  BY <1>3, <1>4 DEF OneTransaction, CalmReads, ReadStands

LEMMA IdleOutside == ~InTransaction(Idle)
  BY DEF InTransaction, Idle

\* The same without an eye on the rows.
LEMMA OutsideStep ==
    ASSUME TypeInv, OneTransaction, NEW s \in Sessions,
           NEW c, ~InTransaction(c), call' = [call EXCEPT ![s] = c]
    PROVE  OneTransaction' /\ \A t \in Sessions : call'[t] = call[t] \/ ~InTransaction(call'[t])
<1>1. \A t \in Sessions : call'[t] = IF t = s THEN c ELSE call[t]
  BY DEF TypeInv, TypeOK
<1>2. QED
  BY <1>1 DEF OneTransaction

\* A row is marked and nothing else of it.
LEMMA MarkKeeps ==
    ASSUME TypeInv, NEW x \in Keys, secret[x] \in Secret,
           secret' = [secret EXCEPT ![x].spent = TRUE]
    PROVE  /\ \A k \in Keys : KeepsIdentity(k)
           /\ \A k \in Keys \ {x} : secret'[k] = secret[k]
           /\ secret'[x].spent
<1>1. secret'[x] = [secret[x] EXCEPT !.spent = TRUE] /\ \A k \in Keys \ {x} : secret'[k] = secret[k]
  BY DEF TypeInv, TypeOK
<1>2. KeepsIdentity(x) /\ secret'[x].spent
  <2>1. secret[x] \in Secret
    OBVIOUS
  <2>2. QED
    BY <1>1, <2>1 DEF Secret, KeepsIdentity
<1>3. \A k \in Keys \ {x} : KeepsIdentity(k)
  BY <1>1 DEF KeepsIdentity
<1>4. QED
  BY <1>1, <1>2, <1>3

\* Numbering is kept by a step that makes nothing.
LEMMA SameBatches ==
    ASSUME TypeInv, BatchesInOrder, made' = made, NEW x \in 1 .. made,
           \A k \in Keys : KeepsIdentity(k),
           \A k \in Keys \ {x} : guesses'[k] = guesses[k]
    PROVE  BatchesInOrder'
<1>1. made \in Nat /\ \A k \in Keys : k \in Nat
  BY Positive DEF TypeInv
<1> SUFFICES ASSUME NEW k \in Keys
             PROVE  IF k <= made THEN secret'[k].batch <= made ELSE guesses'[k] = 0
  BY DEF BatchesInOrder, Keys
<1>2. CASE k <= made
  BY <1>2 DEF BatchesInOrder, KeepsIdentity
<1>3. CASE ~(k <= made)
  BY <1>1, <1>3 DEF BatchesInOrder
<1>4. QED
  BY <1>2, <1>3

\* A row that was read is there.
LEMMA OfKeys ==
    ASSUME TypeInv, NEW kind \in Kinds, NEW x \in Of(kind)
    PROVE  /\ x \in Keys /\ x \in 1 .. made /\ secret[x] \in Secret /\ secret[x].kind = kind
           /\ secret[x].attempts \in 0 .. MaxAttempts
           /\ used[x] \in Nat /\ guesses[x] \in Nat /\ MaxAttempts \in Nat
<1>1. x \in Keys /\ secret[x] \in Secret /\ secret[x].kind = kind
  BY OfIsMade DEF TypeInv
<1>2. x \in 1 .. made
  BY <1>1, Positive DEF TypeInv, KeysInOrder
<1>3. secret[x].attempts \in 0 .. MaxAttempts
  BY <1>1 DEF Secret
<1>4. QED
  BY <1>1, <1>2, <1>3, Positive DEF TypeInv, TypeOK

LEMMA ResetCalm ==
    ASSUME TypeInv, CalmInv, NEW s \in Sessions, ResetCommit(s)
    PROVE  CalmInv'
<1>x. PICK x : x = call[s].key
  OBVIOUS
<1>1. /\ x \in Of("reset") /\ secret' = [secret EXCEPT ![x].spent = TRUE]
      /\ used' = [used EXCEPT ![x] = @ + 1] /\ made' = made
      /\ UNCHANGED <<calm, guesses>> /\ call' = [call EXCEPT ![s] = Idle]
      /\ call[s].op = "reset" /\ InTransaction(call[s])
  BY <1>x DEF ResetCommit, Accepts, Ends, TypeInv, KindsKnown, InTransaction
<1>2. /\ x \in Keys /\ x \in 1 .. made /\ secret[x] \in Secret /\ secret[x].kind = "reset"
      /\ used[x] \in Nat
  BY <1>1, OfKeys DEF Kinds
<1>3. /\ \A k \in Keys : KeepsIdentity(k)
      /\ \A k \in Keys \ {x} : secret'[k] = secret[k]
      /\ secret'[x].spent
  BY <1>1, <1>2, MarkKeeps
<1>4. BatchesInOrder'
  BY <1>1, <1>2, <1>3, SameBatches DEF CalmInv
<1>5. ASSUME calm PROVE OneTransaction' /\ CalmRows' /\ CalmReads'
  <2>1. OneTransaction' /\ CalmReads'
    BY <1>1, <1>5, NoneLeft, IdleOutside DEF CalmInv
  <2>2. ~secret[x].spent
    BY <1>x, <1>1, <1>5 DEF CalmInv, CalmReads, ReadStands
  <2>3. OneUse(x)
    BY <1>1, <1>5 DEF CalmInv, CalmRows
  <2>4. OneUse(x)'
    <3>1. used'[x] = used[x] + 1 /\ used[x] = 0
      BY <1>1, <1>2, <2>2, <2>3 DEF OneUse, TypeInv, TypeOK
    <3>2. QED
      BY <1>3, <3>1 DEF OneUse
  <2>5. \A k \in Keys \ {x} : used'[k] = used[k] /\ guesses'[k] = guesses[k]
    BY <1>1 DEF TypeInv, TypeOK
  <2>6. x \notin Of("phone")
    BY <1>2 DEF Of
  <2>7. CalmRows'
    BY <1>2, <1>3, <1>5, <2>4, <2>5, <2>6, MarkedCalm DEF CalmInv
  <2>8. QED
    BY <2>1, <2>7
<1>6. QED
  BY <1>1, <1>4, <1>5 DEF CalmInv

LEMMA StaleCalm ==
    ASSUME TypeInv, CalmInv, NEW s \in Sessions, CheckStale(s)
    PROVE  CalmInv'
<1>x. PICK x : x = call[s].key
  OBVIOUS
<1>1. /\ x \in Of("phone") /\ secret' = [secret EXCEPT ![x].spent = TRUE]
      /\ made' = made /\ UNCHANGED <<calm, used, guesses>>
      /\ call' = [call EXCEPT ![s] = Idle] /\ InTransaction(call[s])
  BY <1>x DEF CheckStale, Ends, TypeInv, KindsKnown, InTransaction, history
<1>2. /\ x \in Keys /\ x \in 1 .. made /\ secret[x] \in Secret
  BY <1>1, OfKeys DEF Kinds
<1>3. /\ \A k \in Keys : KeepsIdentity(k)
      /\ \A k \in Keys \ {x} : secret'[k] = secret[k]
      /\ secret'[x].spent
  BY <1>1, <1>2, MarkKeeps
<1>4. BatchesInOrder'
  BY <1>1, <1>2, <1>3, SameBatches DEF CalmInv
<1>5. ASSUME calm PROVE OneTransaction' /\ CalmRows' /\ CalmReads'
  <2>1. OneTransaction' /\ CalmReads'
    BY <1>1, <1>5, NoneLeft, IdleOutside DEF CalmInv
  <2>2. OneUse(x) /\ GuessesCounted(x)
    BY <1>1, <1>5 DEF CalmInv, CalmRows
  <2>3. OneUse(x)' /\ GuessesCounted(x)'
    BY <1>1, <1>3, <2>2 DEF OneUse, GuessesCounted
  <2>4. CalmRows'
    BY <1>1, <1>2, <1>3, <1>5, <2>3, MarkedCalm DEF CalmInv
  <2>5. QED
    BY <2>1, <2>4
<1>6. QED
  BY <1>1, <1>4, <1>5 DEF CalmInv

LEMMA WrongCalm ==
    ASSUME TypeInv, CalmInv, NEW s \in Sessions, CheckWrong(s)
    PROVE  CalmInv'
<1>x. PICK x : x = call[s].key
  OBVIOUS
<1>n. PICK n : n = call[s].attempts + 1
  OBVIOUS
<1>1. /\ x \in Of("phone")
      /\ secret' = [secret EXCEPT ![x] = [secret[x] EXCEPT !.attempts = n, !.spent = Retires(n)]]
      /\ guesses' = IF calm THEN [guesses EXCEPT ![x] = @ + 1] ELSE guesses
      /\ made' = made /\ UNCHANGED <<calm, used>>
      /\ call' = [call EXCEPT ![s] = Idle] /\ call[s].op = "check" /\ InTransaction(call[s])
  BY <1>x, <1>n DEF CheckWrong, Ends, TypeInv, KindsKnown, InTransaction, Retires
<1>2. /\ x \in Keys /\ x \in 1 .. made /\ secret[x] \in Secret
      /\ secret[x].attempts \in 0 .. MaxAttempts
      /\ used[x] \in Nat /\ guesses[x] \in Nat /\ MaxAttempts \in Nat
  BY <1>1, OfKeys DEF Kinds
<1>3. n \in 0 .. MaxAttempts
  <2>1. call[s].attempts < MaxAttempts /\ call[s].attempts \in 0 .. MaxAttempts
    BY <1>1, <1>n, CallShapes DEF GuessLeft, TypeInv, TypeOK, CheckCall
  <2>2. QED
    BY <1>n, <2>1, Positive DEF TypeInv
<1>4. calm => ~secret[x].spent /\ secret[x].attempts + 1 = n
  BY <1>x, <1>n, <1>1 DEF CalmInv, CalmReads, ReadStands
<1>5. secret'[x] = [secret[x] EXCEPT !.attempts = n, !.spent = Retires(n)]
      /\ \A k \in Keys \ {x} : secret'[k] = secret[k] /\ guesses'[k] = guesses[k]
  BY <1>1, <1>2 DEF TypeInv, TypeOK
<1>6. secret'[x].attempts = n /\ secret'[x].spent = Retires(n) /\ KeepsIdentity(x)
  BY <1>2, <1>3, <1>5 DEF Secret, KeepsIdentity
<1>7. \A k \in Keys : KeepsIdentity(k)
  BY <1>5, <1>6 DEF KeepsIdentity
<1>8. BatchesInOrder'
  BY <1>1, <1>2, <1>5, <1>7, SameBatches DEF CalmInv
<1>9. ASSUME calm PROVE OneTransaction' /\ CalmRows' /\ CalmReads'
  <2>1. OneTransaction' /\ CalmReads'
    BY <1>1, <1>9, NoneLeft, IdleOutside DEF CalmInv
  <2>2. OneUse(x) /\ GuessesCounted(x)
    BY <1>1, <1>9 DEF CalmInv, CalmRows
  <2>3. OneUse(x)'
    BY <1>1, <1>4, <1>9, <2>2 DEF OneUse
  <2>4. guesses'[x] = guesses[x] + 1
    BY <1>1, <1>2, <1>9 DEF TypeInv, TypeOK
  <2>5. used[x] = 0 /\ guesses[x] + 1 = n
    BY <1>4, <1>9, <2>2 DEF OneUse, GuessesCounted
  <2>6. GuessesCounted(x)'
    BY <1>1, <1>2, <1>3, <1>6, <2>4, <2>5 DEF GuessesCounted
  <2>7. CalmRows'
    BY <1>1, <1>2, <1>4, <1>5, <1>7, <1>9, <2>3, <2>6, MarkedCalm DEF CalmInv
  <2>8. QED
    BY <2>1, <2>7
<1>10. QED
  BY <1>1, <1>8, <1>9 DEF CalmInv

LEMMA RightCalm ==
    ASSUME TypeInv, CalmInv, NEW s \in Sessions, CheckRight(s)
    PROVE  CalmInv'
<1>x. PICK x : x = call[s].key
  OBVIOUS
<1>c. PICK c : c = [op |-> "enroll", key |-> x]
  OBVIOUS
<1>1. /\ x \in Of("phone") /\ made' = made /\ UNCHANGED <<calm, guesses>>
      /\ call[s].op = "check" /\ InTransaction(call[s])
  BY <1>x DEF CheckRight, TypeInv, KindsKnown, InTransaction
<1>2. ~InTransaction(c)
  BY <1>c DEF InTransaction
<1>3. \/ secret[x].spent /\ call' = [call EXCEPT ![s] = Idle] /\ UNCHANGED <<secret, used>>
      \/ /\ ~secret[x].spent /\ secret' = [secret EXCEPT ![x].spent = TRUE]
         /\ used' = [used EXCEPT ![x] = @ + 1] /\ call' = [call EXCEPT ![s] = c]
  BY <1>x, <1>c DEF CheckRight, Accepts, Ends
<1>4. calm => ~secret[x].spent
  BY <1>x, <1>1 DEF CalmInv, CalmReads, ReadStands
<1>5. /\ x \in Keys /\ x \in 1 .. made /\ secret[x] \in Secret
      /\ used[x] \in Nat /\ guesses[x] \in Nat /\ MaxAttempts \in Nat
      /\ secret[x].attempts \in 0 .. MaxAttempts
  BY <1>1, OfKeys DEF Kinds
<1>6. CASE secret' = secret /\ used' = used /\ secret[x].spent
  BY <1>1, <1>4, <1>6 DEF CalmInv, BatchesInOrder, Keys
<1>7. CASE /\ ~secret[x].spent /\ secret' = [secret EXCEPT ![x].spent = TRUE]
           /\ used' = [used EXCEPT ![x] = @ + 1] /\ call' = [call EXCEPT ![s] = c]
  <2>1. /\ \A k \in Keys : KeepsIdentity(k)
        /\ \A k \in Keys \ {x} : secret'[k] = secret[k]
        /\ secret'[x].spent
    BY <1>5, <1>7, MarkKeeps
  <2>2. BatchesInOrder'
    BY <1>1, <1>5, <2>1, SameBatches DEF CalmInv
  <2>3. ASSUME calm PROVE OneTransaction' /\ CalmRows' /\ CalmReads'
    <3>1. OneTransaction' /\ CalmReads'
      BY <1>1, <1>2, <1>7, <2>3, NoneLeft DEF CalmInv
    <3>2. OneUse(x) /\ GuessesCounted(x)
      BY <1>1, <2>3 DEF CalmInv, CalmRows
    <3>3. used'[x] = used[x] + 1 /\ \A k \in Keys \ {x} : used'[k] = used[k]
      BY <1>5, <1>7 DEF TypeInv, TypeOK
    <3>4. used[x] = 0 /\ guesses[x] = secret[x].attempts
      BY <1>7, <3>2 DEF OneUse, GuessesCounted
    <3>5. secret[x].attempts < MaxAttempts
      BY <1>5, <1>7 DEF TypeInv, GuessLeft
    <3>6. OneUse(x)' /\ GuessesCounted(x)'
      BY <1>1, <1>5, <2>1, <3>3, <3>4, <3>5 DEF OneUse, GuessesCounted
    <3>7. CalmRows'
      BY <1>1, <1>5, <2>1, <2>3, <3>3, <3>6, MarkedCalm DEF CalmInv
    <3>8. QED
      BY <3>1, <3>7
  <2>4. QED
    BY <1>1, <2>2, <2>3 DEF CalmInv
<1>8. QED
  BY <1>3, <1>6, <1>7

\* A recovery code is spent in a statement of its own, beside a transaction or
\* not: no transaction has read of it what it still needs.
LEMMA RecoveryCalm ==
    ASSUME TypeInv, CalmInv, NEW s \in Sessions, NEW x \in Keys, UseRecoveryCode(s, x)
    PROVE  CalmInv'
<1>c. PICK c : c = [op |-> "list"]
  OBVIOUS
<1>1. /\ x \in Of("recovery") /\ secret' = [secret EXCEPT ![x].spent = TRUE]
      /\ used' = [used EXCEPT ![x] = @ + 1] /\ made' = made
      /\ UNCHANGED <<calm, guesses>> /\ call' = [call EXCEPT ![s] = c]
  BY <1>c DEF UseRecoveryCode, Accepts, Starts, Recoverable, Live
<1>2. ~InTransaction(c)
  BY <1>c DEF InTransaction
<1>3. x \in 1 .. made /\ secret[x] \in Secret /\ secret[x].kind = "recovery"
  BY <1>1, OfKeys DEF Kinds
<1>4. /\ \A k \in Keys : KeepsIdentity(k)
      /\ \A k \in Keys \ {x} : secret'[k] = secret[k]
      /\ secret'[x].spent
  BY <1>1, <1>3, MarkKeeps
<1>5. BatchesInOrder'
  BY <1>1, <1>3, <1>4, SameBatches DEF CalmInv
<1>6. ASSUME calm PROVE OneTransaction' /\ CalmRows' /\ CalmReads'
  <2>1. x \notin Of("reset") /\ x \notin Of("phone")
    BY <1>3 DEF Of
  <2>2. \A k \in Keys \ {x} : used'[k] = used[k] /\ guesses'[k] = guesses[k]
    BY <1>1 DEF TypeInv, TypeOK
  <2>3. CalmRows' /\ \A kind : Live(kind)' \subseteq Live(kind)
    BY <1>4, <1>6, <2>1, <2>2, MarkedCalm DEF CalmInv
  <2>4. OneTransaction' /\ \A t \in Sessions : call'[t] = call[t] \/ ~InTransaction(call'[t])
    BY <1>1, <1>2, <1>6, OutsideStep DEF CalmInv
  <2>5. ASSUME NEW t \in Sessions PROVE ReadStands(call[t])'
    <3>1. CASE ~InTransaction(call'[t])
      BY <3>1 DEF InTransaction, ReadStands
    <3>2. CASE call'[t] = call[t]
      <4>1. ReadStands(call[t])
        BY <1>6 DEF CalmInv, CalmReads
      <4>2. Of("phone")' = Of("phone") /\ Of("phone") \subseteq Keys
        BY <1>4, SameRows DEF Of
      <4>3. \A j \in Of("phone")' : secret'[j].at = secret[j].at
        BY <1>4, <4>2 DEF KeepsIdentity
      <4>4. call[t].op = "reset" => secret'[call[t].key] = secret[call[t].key]
        BY <1>4, <2>1 DEF TypeInv, KindsKnown, Of
      <4>5. call[t].op = "check" => secret'[call[t].key] = secret[call[t].key]
        BY <1>4, <2>1 DEF TypeInv, KindsKnown, Of
      <4>6. call[t].op = "start" /\ call[t].kind = "phone" =>
              /\ Cardinality(Window(call[t].at))' = Cardinality(Window(call[t].at))
              /\ Cardinality(Texts(call[t].at, call[t].number))' = Cardinality(Texts(call[t].at, call[t].number))
        BY <1>4, <3>2, SameRows
      <4> QED
        BY <2>3, <3>2, <4>1, <4>2, <4>3, <4>4, <4>5, <4>6 DEF ReadStands
    <3>3. QED
      BY <2>4, <3>1, <3>2
  <2>6. CalmReads'
    BY <2>5 DEF CalmReads
  <2>7. QED
    BY <2>3, <2>4, <2>6
<1>7. QED
  BY <1>1, <1>5, <1>6 DEF CalmInv

\* Nothing that the invariant is about is written.
LEMMA RowsAsRead ==
    ASSUME UNCHANGED <<made, secret, used, guesses>>
    PROVE  /\ BatchesInOrder => BatchesInOrder'
           /\ CalmRows => CalmRows'
           /\ \A c : ReadStands(c) => ReadStands(c)'
<1>1. /\ \A kind : Of(kind)' = Of(kind)
      /\ \A t : Window(t)' = Window(t)
      /\ \A t, n : Texts(t, n)' = Texts(t, n)
  BY SameRows DEF KeepsIdentity
<1>2. \A kind : Live(kind)' = Live(kind)
  BY <1>1 DEF Live
<1>3. BatchesInOrder => BatchesInOrder'
  BY DEF BatchesInOrder, Keys
<1>4. WindowsBounded => WindowsBounded'
  BY <1>1 DEF WindowsBounded
<1>5. LastIsLive => LastIsLive'
  BY <1>1, <1>2 DEF LastIsLive
<1>6. CalmRows => CalmRows'
  BY <1>1, <1>4, <1>5 DEF CalmRows, OneUse, GuessesCounted
<1>7. ASSUME NEW c, ReadStands(c) PROVE ReadStands(c)'
  BY <1>1, <1>2, <1>7 DEF ReadStands
<1>8. QED
  BY <1>3, <1>6, <1>7

\* A transaction that begins alone has read what is so.
LEMMA BeginsCalm ==
    ASSUME TypeInv, CalmInv, NEW s \in Sessions, NEW c, call' = [call EXCEPT ![s] = c],
           Begins, UNCHANGED <<made, secret, used, guesses>>, calm => ReadStands(c)
    PROVE  CalmInv'
<1>1. \A t \in Sessions : call'[t] = IF t = s THEN c ELSE call[t]
  BY DEF TypeInv, TypeOK
<1>2. calm' => calm /\ \A t \in Sessions : ~InTransaction(call[t])
  BY DEF Begins
<1>3. ASSUME calm' PROVE OneTransaction'
  BY <1>1, <1>2, <1>3 DEF OneTransaction
<1>4. ASSUME calm' PROVE CalmReads'
  <2>1. \A t \in Sessions : ReadStands(call[t])
    BY <1>2, <1>4 DEF CalmInv, CalmReads
  <2>2. ReadStands(c)' /\ \A t \in Sessions : ReadStands(call[t])
    BY <1>2, <1>4, <2>1, RowsAsRead
  <2>3. \A t \in Sessions \ {s} : ~InTransaction(call'[t])
    BY <1>1, <1>2, <1>4
  <2>4. \A d : ~InTransaction(d) => ReadStands(d)'
    BY DEF InTransaction, ReadStands
  <2>5. \A t \in Sessions : call'[t] = c \/ ~InTransaction(call'[t])
    BY <1>1, <2>3
  <2>6. ASSUME NEW t \in Sessions, NEW d, d = call'[t] PROVE ReadStands(d)'
    BY <2>2, <2>4, <2>5, <2>6
  <2>7. QED
    BY <2>6 DEF CalmReads
<1>5. QED
  BY <1>2, <1>3, <1>4, RowsAsRead DEF CalmInv

LEMMA GuardsCalm ==
    ASSUME TypeInv, CalmInv, NEW s \in Sessions,
           \/ \E kind \in Kinds, number \in Numbers \union {NoNumber} : Start(s, kind, number)
           \/ \E k \in Keys : ResetGuard(s, k)
           \/ \E k \in Keys, right \in BOOLEAN : CheckGuard(s, k, right)
    PROVE  CalmInv'
<1>1. ASSUME NEW kind \in Kinds, NEW number \in Numbers \union {NoNumber}, Start(s, kind, number)
      PROVE  CalmInv'
  <2>c. PICK c : c = [op |-> "start", kind |-> kind, number |-> number,
                      seen |-> ToRetire(kind), at |-> clock]
    OBVIOUS
  <2>1. /\ c.op = "start" /\ c.kind = kind /\ c.number = number /\ c.seen = Live(kind) /\ c.at = clock
    BY <2>c DEF ToRetire
  <2>2. /\ call' = [call EXCEPT ![s] = c] /\ Begins /\ UNCHANGED <<made, secret, used, guesses>>
        /\ kind = "phone" => MayText(number)
    BY <1>1, <2>c DEF Start, Starts, rows
  <2>3. ASSUME kind = "phone"
        PROVE  /\ \A j \in Of("phone") : secret[j].at < clock
               /\ Cardinality(Window(clock)) < MaxPerAccount
               /\ Cardinality(Texts(clock, number)) < MaxPerNumber
    <3>1. clock \in Nat /\ Cooldown \in Nat \ {0} /\ Hour \in Nat
      BY ConstantsAssumption, Positive DEF TypeInv
    <3>2. \A j \in Of("phone") : secret[j].at \in Nat
      BY OfKeys DEF Kinds, Secret
    <3>3. \A j \in Of("phone") : secret[j].at < clock
      BY <2>2, <2>3, <3>1, <3>2 DEF MayText
    <3>4. Window(clock) = Recent
      BY <3>1, <3>2, <3>3 DEF Window, Recent
    <3>5. Texts(clock, number) = {k \in Recent : secret[k].number = number}
      BY <3>4 DEF Texts
    <3>6. QED
      BY <2>2, <2>3, <3>3, <3>4, <3>5 DEF MayText
  <2>4. ReadStands(c)
    BY <2>1, <2>3 DEF ReadStands
  <2>5. QED
    BY <2>2, <2>4, BeginsCalm
<1>2. ASSUME NEW k \in Keys, ResetGuard(s, k) PROVE CalmInv'
  <2>c. PICK c : c = [op |-> "reset", key |-> k]
    OBVIOUS
  <2>1. /\ call' = [call EXCEPT ![s] = c] /\ Begins /\ UNCHANGED <<made, secret, used, guesses>>
        /\ ~secret[k].spent
    BY <1>2, <2>c DEF ResetGuard, Starts, rows, Live
  <2>2. ReadStands(c)
    BY <2>c, <2>1 DEF ReadStands
  <2>3. QED
    BY <2>1, <2>2, BeginsCalm
<1>3. ASSUME NEW k \in Keys, NEW right \in BOOLEAN, CheckGuard(s, k, right) PROVE CalmInv'
  <2>c. PICK c : c = [op |-> "check", key |-> k, right |-> right,
                      attempts |-> secret[k].attempts, stale |-> Stale(k)]
    OBVIOUS
  <2>1. /\ call' = [call EXCEPT ![s] = c] /\ Begins /\ UNCHANGED <<made, secret, used, guesses>>
        /\ ~secret[k].spent
    BY <1>3, <2>c DEF CheckGuard, Starts, rows, Live, Outstanding
  <2>2. c.op = "check" /\ c.key = k /\ c.attempts = secret[k].attempts
    BY <2>c
  <2>3. ReadStands(c)
    BY <2>1, <2>2 DEF ReadStands
  <2>4. QED
    BY <2>1, <2>3, BeginsCalm
<1>4. QED
  BY <1>1, <1>2, <1>3

\* A step that writes no rows and leaves a request outside of a transaction.
LEMMA AsideCalm ==
    ASSUME TypeInv, CalmInv, UNCHANGED <<made, secret, used, guesses, calm>>,
           \/ call' = call
           \/ \E s \in Sessions : \E c : ~InTransaction(c) /\ call' = [call EXCEPT ![s] = c]
    PROVE  CalmInv'
<1>1. CASE call' = call
  BY <1>1, RowsAsRead DEF CalmInv, OneTransaction, CalmReads
<1>2. ASSUME NEW s \in Sessions, NEW c, ~InTransaction(c), call' = [call EXCEPT ![s] = c]
      PROVE  CalmInv'
  <2>1. ASSUME calm PROVE OneTransaction' /\ CalmReads'
    <3>1. OneTransaction' /\ \A t \in Sessions : call'[t] = call[t] \/ ~InTransaction(call'[t])
      BY <1>2, <2>1, OutsideStep DEF CalmInv
    <3>2. \A d : ~InTransaction(d) => ReadStands(d)'
      BY DEF InTransaction, ReadStands
    <3>3. \A t \in Sessions : ReadStands(call[t])
      BY <2>1 DEF CalmInv, CalmReads
    <3>4. ASSUME NEW t \in Sessions, NEW d, d = call'[t] PROVE ReadStands(d)'
      BY <3>1, <3>2, <3>3, <3>4, RowsAsRead
    <3>5. QED
      BY <3>1, <3>4 DEF CalmReads
  <2>2. QED
    BY <2>1, RowsAsRead DEF CalmInv
<1>3. QED
  BY <1>1, <1>2

LEMMA OthersCalm ==
    ASSUME TypeInv, CalmInv,
           \/ UNCHANGED vars \/ Tick \/ AppEnrolled
           \/ \E s \in Sessions :
                \/ EnrollPhone(s) \/ ListFactors(s) \/ Finishes(s)
                \/ \E kind \in {"app", "sms"} : Disable(s, kind) \/ RemoveFactor(s, kind)
    PROVE  CalmInv'
<1> USE DEF rows, history
<1>1. CASE UNCHANGED vars \/ Tick \/ AppEnrolled
  BY <1>1, AsideCalm DEF vars, Tick, AppEnrolled
<1>2. ASSUME NEW s \in Sessions, EnrollPhone(s) \/ Finishes(s) PROVE CalmInv'
  BY <1>2, IdleOutside, AsideCalm DEF EnrollPhone, Finishes, Ends
<1>3. \A left : ~InTransaction([op |-> "strip", left |-> left])
  BY DEF InTransaction
<1>4. ASSUME NEW s \in Sessions, ListFactors(s) PROVE CalmInv'
  BY <1>3, <1>4, AsideCalm DEF ListFactors
<1>5. ASSUME NEW s \in Sessions, NEW kind \in {"app", "sms"}, Disable(s, kind) PROVE CalmInv'
  BY <1>3, <1>5, AsideCalm DEF Disable, Starts
<1>6. ASSUME NEW s \in Sessions, NEW kind \in {"app", "sms"}, RemoveFactor(s, kind) PROVE CalmInv'
  <2>1. call[s] \in StripCall
    BY <1>6, CallShapes DEF RemoveFactor, TypeInv, TypeOK
  <2>2. [call[s] EXCEPT !.left = @ \ {kind}].op = "strip"
    BY <2>1 DEF StripCall
  <2>3. ~InTransaction([call[s] EXCEPT !.left = @ \ {kind}])
    BY <2>2 DEF InTransaction
  <2>4. /\ call' = [call EXCEPT ![s] = [call[s] EXCEPT !.left = @ \ {kind}]]
        /\ UNCHANGED <<made, secret, used, guesses, calm>>
    BY <1>6 DEF RemoveFactor
  <2>5. QED
    BY <2>3, <2>4, AsideCalm
<1>7. QED
  BY <1>1, <1>2, <1>4, <1>5, <1>6

\* What a start leaves of a row that was there: its own set retires the last.
LEMMA StartKeeps ==
    ASSUME TypeInv, NEW s \in Sessions, StartCommit(s), NEW k \in Keys, k <= made
    PROVE  /\ KeepsIdentity(k)
           /\ secret'[k].attempts = secret[k].attempts
           /\ ~secret'[k].spent => ~secret[k].spent /\ k \notin call[s].seen
<1>1. secret[k] \in Secret
  BY DEF TypeInv, KeysInOrder
<1>2. secret'[k] = IF k \in call[s].seen THEN [secret[k] EXCEPT !.spent = TRUE] ELSE secret[k]
  BY StartWrites
<1>3. CASE k \in call[s].seen
  BY <1>1, <1>2, <1>3 DEF Secret, KeepsIdentity
<1>4. CASE k \notin call[s].seen
  BY <1>2, <1>4 DEF KeepsIdentity
<1>5. QED
  BY <1>3, <1>4

\* Rows of a kind are those that were there and, of its kind, the new ones.
LEMMA StartMakes ==
    ASSUME TypeInv, NEW s \in Sessions, StartCommit(s)
    PROVE  /\ \A k \in Keys : k <= made \/ k \in NewKeys(s) \/ k > made'
           /\ \A k \in NewKeys(s) :
                /\ k \in Keys /\ k > made /\ made' \in Nat /\ made \in Nat
                /\ secret'[k].kind = call[s].kind /\ secret'[k].number = call[s].number
                /\ secret'[k].at = call[s].at /\ secret'[k].batch = made + 1
                /\ secret'[k].attempts = 0 /\ used'[k] = 0
           /\ \A kind \in Kinds : \A k \in Of(kind)' :
                \/ k \in Of(kind) /\ k <= made
                \/ k \in NewKeys(s) /\ kind = call[s].kind
           /\ \A kind \in Kinds : \A k \in Of(kind) : k \in Of(kind)' /\ k <= made
           /\ call[s].kind \in Kinds /\ call[s].at \in Nat
<1>1. made \in Nat /\ made' \in Nat /\ \A k \in Keys : k \in Nat
  <2>1. made' \in 0 .. MaxMade
    BY StartWrites
  <2>2. QED
    BY <2>1, Positive DEF TypeInv
<1>2. \A k \in Keys : k <= made \/ k \in NewKeys(s) \/ k > made'
  BY <1>1, StartWrites
<1>3. ASSUME NEW k \in NewKeys(s)
      PROVE  /\ k \in Keys /\ k > made
             /\ secret'[k].kind = call[s].kind /\ secret'[k].number = call[s].number
             /\ secret'[k].at = call[s].at /\ secret'[k].batch = made + 1
             /\ secret'[k].attempts = 0 /\ used'[k] = 0
  <2>1. k \in Keys /\ k > made /\ secret'[k] = NewRow(s)
    BY StartWrites
  <2>2. used'[k] = used[k] /\ used[k] = 0
    BY <1>1, <2>1, StartWrites DEF TypeInv, KeysInOrder
  <2>3. QED
    BY <2>1, <2>2 DEF NewRow, New
<1>4. call[s].kind \in Kinds /\ call[s].at \in Nat
  <2>1. call[s] \in StartCall
    BY StartWrites
  <2>2. QED
    BY <2>1 DEF StartCall
<1>5. ASSUME NEW kind \in Kinds, NEW k \in Of(kind)'
      PROVE  \/ k \in Of(kind) /\ k <= made
             \/ k \in NewKeys(s) /\ kind = call[s].kind
  <2>1. k \in Keys /\ secret'[k].kind = kind
    BY DEF Of, Keys
  <2>2. CASE k <= made
    BY <2>1, <2>2, StartKeeps DEF Of, KeepsIdentity
  <2>3. CASE k \in NewKeys(s)
    BY <1>3, <2>1, <2>3
  <2>4. CASE k > made'
    <3>1. secret'[k] = Unmade
      BY <2>1, <2>4, StartWrites
    <3>2. QED
      BY <2>1, <3>1 DEF Unmade, Kinds
  <2>5. QED
    BY <1>2, <2>1, <2>2, <2>3, <2>4
<1>6. ASSUME NEW kind \in Kinds, NEW k \in Of(kind) PROVE k \in Of(kind)' /\ k <= made
  <2>1. k \in Keys /\ k \in 1 .. made /\ secret[k].kind = kind
    BY OfKeys
  <2>2. k <= made
    BY <1>1, <2>1
  <2>3. QED
    BY <2>1, <2>2, StartKeeps DEF Of, Keys, KeepsIdentity
<1>7. QED
  BY <1>1, <1>2, <1>3, <1>4, <1>5, <1>6

\* A set of rows with one more.
LEMMA OneMore ==
    ASSUME NEW S \in SUBSET Keys, NEW x, NEW n \in Nat, Cardinality(S) < n,
           NEW T \in SUBSET (S \union {x})
    PROVE  Cardinality(T) <= n
<1>1. IsFiniteSet(Keys)
  <2>1. MaxMade \in Nat
    BY ConstantsAssumption
  <2>2. QED
    BY <2>1, FS_Interval DEF Keys
<1>2. IsFiniteSet(S) /\ Cardinality(S) \in Nat
  BY <1>1, FS_Subset, FS_CardinalityType
<1>3. IsFiniteSet(S \union {x}) /\ Cardinality(S \union {x}) <= Cardinality(S) + 1
  BY <1>2, FS_AddElement
<1>4. Cardinality(T) <= Cardinality(S \union {x}) /\ Cardinality(T) \in Nat
      /\ Cardinality(S \union {x}) \in Nat
  BY <1>3, FS_Subset, FS_CardinalityType
<1>5. QED
  BY <1>2, <1>3, <1>4

\* A message counts in the hour that begins with it; no hour before it sees it,
\* and every hour after it sees no more of the earlier ones than it read.
LEMMA StartWindows ==
    ASSUME TypeInv, NEW s \in Sessions, StartCommit(s), WindowsBounded, ReadStands(call[s])
    PROVE  WindowsBounded'
<1>p. "phone" \in Kinds
  BY DEF Kinds
<1>l. MaxPerAccount \in Nat /\ MaxPerNumber \in Nat /\ Hour \in Nat
  BY ConstantsAssumption
<1>a. PICK a \in Nat : a = call[s].at
  BY StartMakes
<1>m. PICK m : m = call[s].number
  OBVIOUS
<1>1. \A j \in Of("phone") : j \in Of("phone")' /\ secret'[j].at = secret[j].at
                             /\ secret'[j].number = secret[j].number /\ secret[j].at \in Nat
  BY <1>p, OfKeys, StartMakes, StartKeeps DEF KeepsIdentity, Secret
<1>2. CASE call[s].kind # "phone"
  <2>1. Of("phone")' = Of("phone")
    BY <1>p, <1>1, <1>2, StartMakes
  <2>2. \A t \in Nat : Window(t)' = Window(t)
    BY <1>1, <2>1 DEF Window
  <2>3. \A t : Window(t) \subseteq Of("phone")
    BY DEF Window
  <2>4. \A t \in Nat : \A n : Texts(t, n)' = Texts(t, n)
    BY <1>1, <2>2, <2>3 DEF Texts
  <2>5. QED
    BY <2>2, <2>4 DEF WindowsBounded
<1>3. CASE call[s].kind = "phone"
  <2>0. call[s].op = "start"
    BY DEF StartCommit
  <2>1. PICK x \in Keys : NewKeys(s) = {x}
    <3>1. made \in Nat
      BY Positive DEF TypeInv
    <3>2. NewKeys(s) = {made + 1}
      BY <1>3, <3>1 DEF NewKeys, Size
    <3>3. made + 1 \in Keys
      BY <3>2, StartWrites
    <3>4. QED
      BY <3>2, <3>3
  <2>2. secret'[x].at = a /\ secret'[x].number = m
    BY <1>a, <1>m, <2>1, StartMakes
  <2>3. Of("phone")' \subseteq Of("phone") \union {x}
    BY <1>p, <2>1, StartMakes
  <2>4. /\ \A j \in Of("phone") : secret[j].at < a
        /\ Cardinality(Window(a)) < MaxPerAccount /\ Cardinality(Texts(a, m)) < MaxPerNumber
    BY <1>3, <1>a, <1>m, <2>0 DEF ReadStands
  <2>5. Of("phone") \subseteq Keys
    BY DEF Of
  <2>6. ASSUME NEW t \in Nat, t < a
        PROVE  Window(t)' = Window(t) /\ \A n : Texts(t, n)' = Texts(t, n)
    <3>1. ~(secret'[x].at <= t)
      BY <2>2, <2>6
    <3>2. x \notin Window(t)'
      BY <3>1 DEF Window
    <3>3. Window(t)' \subseteq Of("phone")
      BY <2>3, <3>2 DEF Window
    <3>4. Window(t)' = Window(t)
      BY <1>1, <3>3 DEF Window
    <3>5. QED
      BY <1>1, <3>3, <3>4 DEF Texts
  <2>7. ASSUME NEW t \in Nat, t >= a
        PROVE  /\ Window(t)' \subseteq Window(a) \union {x}
               /\ Texts(t, m)' \subseteq Texts(a, m) \union {x}
               /\ \A n : n # m => Texts(t, n)' = Texts(t, n)
    <3>1. ASSUME NEW j \in Window(t)', j # x
          PROVE  j \in Window(a) /\ j \in Window(t) /\ secret'[j].number = secret[j].number
      <4>1. j \in Of("phone")
        BY <2>3, <3>1 DEF Window
      <4>2. secret[j].at \in Nat /\ secret[j].at <= t /\ secret[j].at + Hour > t /\ secret[j].at < a
        BY <1>1, <2>4, <3>1, <4>1 DEF Window
      <4>3. secret[j].at + Hour > a
        BY <1>l, <2>7, <4>2
      <4>4. QED
        BY <1>1, <4>1, <4>2, <4>3 DEF Window
    <3>2. Window(t)' \subseteq Window(a) \union {x}
      BY <3>1
    <3>3. Texts(t, m)' \subseteq Texts(a, m) \union {x}
      BY <3>1 DEF Texts
    <3>4. ASSUME NEW n, n # m PROVE Texts(t, n)' = Texts(t, n)
      <4>1. x \notin Texts(t, n)'
        BY <2>2, <3>4 DEF Texts
      <4>2. Texts(t, n)' \subseteq Texts(t, n)
        BY <3>1, <4>1 DEF Texts
      <4>3. \A j \in Window(t) : j \in Window(t)' /\ secret'[j].number = secret[j].number
        BY <1>1 DEF Window
      <4>4. QED
        BY <4>2, <4>3 DEF Texts
    <3>5. QED
      BY <3>2, <3>3, <3>4
  <2>8. \A t, n : Window(t) \in SUBSET Keys /\ Texts(t, n) \in SUBSET Keys
    BY <2>5 DEF Window, Texts
  <2>9. ASSUME NEW t \in Nat, t < a
        PROVE  /\ Cardinality(Window(t)') <= MaxPerAccount
               /\ \A n \in Numbers : Cardinality(Texts(t, n)') <= MaxPerNumber
    BY <2>6, <2>9 DEF WindowsBounded
  <2>10. ASSUME NEW t \in Nat, t >= a
         PROVE  /\ Cardinality(Window(t)') <= MaxPerAccount
                /\ \A n \in Numbers : Cardinality(Texts(t, n)') <= MaxPerNumber
    <3>1. Cardinality(Window(t)') <= MaxPerAccount
      BY <1>l, <2>4, <2>7, <2>8, <2>10, OneMore
    <3>2. Cardinality(Texts(t, m)') <= MaxPerNumber
      BY <1>l, <2>4, <2>7, <2>8, <2>10, OneMore
    <3>3. ASSUME NEW n \in Numbers, n # m PROVE Cardinality(Texts(t, n)') <= MaxPerNumber
      BY <2>7, <2>10, <3>3 DEF WindowsBounded
    <3>4. QED
      BY <3>1, <3>2, <3>3
  <2>11. QED
    BY <1>a, <2>9, <2>10 DEF WindowsBounded
<1>4. QED
  BY <1>2, <1>3

LEMMA StartCalm ==
    ASSUME TypeInv, CalmInv, NEW s \in Sessions, StartCommit(s)
    PROVE  CalmInv'
<1>1. made \in Nat /\ made' \in Nat /\ made' > made /\ \A k \in Keys : k \in Nat
  <2>1. made' \in 0 .. MaxMade /\ made' > made
    BY StartWrites
  <2>2. QED
    BY <2>1, Positive DEF TypeInv
<1>2. calm' = calm /\ guesses' = guesses /\ used' = used
      /\ call' = [call EXCEPT ![s] = Idle] /\ InTransaction(call[s]) /\ call[s].op = "start"
  BY DEF StartCommit, Ends, history, InTransaction
<1>3. BatchesInOrder'
  <2> SUFFICES ASSUME NEW k \in Keys
               PROVE  IF k <= made' THEN secret'[k].batch <= made' ELSE guesses'[k] = 0
    BY DEF BatchesInOrder, Keys
  <2>1. CASE k <= made
    <3>1. secret[k] \in Secret /\ secret'[k].batch = secret[k].batch /\ secret[k].batch <= made
      BY <2>1, StartKeeps DEF TypeInv, KeysInOrder, CalmInv, BatchesInOrder, KeepsIdentity
    <3>2. secret[k].batch \in Nat
      BY <1>1, <3>1 DEF Secret
    <3>3. QED
      BY <1>1, <2>1, <3>1, <3>2
  <2>2. CASE k \in NewKeys(s)
    <3>1. secret'[k].batch = made + 1
      BY <2>2, StartMakes
    <3>2. k <= made'
      BY <2>2, StartWrites
    <3>3. QED
      BY <1>1, <3>1, <3>2
  <2>3. CASE k > made'
    <3>1. ~(k <= made) /\ ~(k <= made')
      BY <1>1, <2>3
    <3>2. guesses[k] = 0
      BY <3>1 DEF CalmInv, BatchesInOrder
    <3>3. QED
      BY <1>2, <3>1, <3>2
  <2>4. QED
    BY <2>1, <2>2, <2>3, StartMakes
<1>4. ASSUME calm PROVE OneTransaction' /\ CalmRows' /\ CalmReads'
  <2>1. OneTransaction' /\ CalmReads'
    BY <1>2, <1>4, NoneLeft, IdleOutside DEF CalmInv
  <2>2. CalmRows /\ ReadStands(call[s])
    BY <1>4 DEF CalmInv, CalmReads
  <2>3. WindowsBounded'
    BY <2>2, StartWindows DEF CalmRows
  <2>4. "reset" \in Kinds /\ "phone" \in Kinds
    BY DEF Kinds
  <2>5. \A k \in (Of("reset") \union Of("phone"))' : OneUse(k)'
    <3> SUFFICES ASSUME NEW kind \in {"reset", "phone"}, NEW k \in Of(kind)' PROVE OneUse(k)'
      OBVIOUS
    <3>1. CASE k \in Of(kind) /\ k <= made
      <4>1. k \in Keys /\ OneUse(k)
        BY <2>2, <3>1 DEF CalmRows, Of
      <4>2. ~secret'[k].spent => ~secret[k].spent
        BY <3>1, <4>1, StartKeeps
      <4>3. QED
        BY <1>2, <4>1, <4>2 DEF OneUse
    <3>2. CASE k \in NewKeys(s)
      <4>1. used'[k] = 0
        BY <3>2, StartMakes
      <4>2. QED
        BY <4>1 DEF OneUse
    <3>3. QED
      BY <2>4, <3>1, <3>2, StartMakes
  <2>6. \A k \in Of("phone")' : GuessesCounted(k)'
    <3> SUFFICES ASSUME NEW k \in Of("phone")' PROVE GuessesCounted(k)'
      OBVIOUS
    <3>1. CASE k \in Of("phone") /\ k <= made
      <4>1. k \in Keys /\ GuessesCounted(k)
        BY <2>2, <3>1 DEF CalmRows, Of
      <4>2. (~secret'[k].spent => ~secret[k].spent) /\ secret'[k].attempts = secret[k].attempts
        BY <3>1, <4>1, StartKeeps
      <4>3. QED
        BY <1>2, <4>1, <4>2 DEF GuessesCounted
    <3>2. CASE k \in NewKeys(s)
      <4>1. used'[k] = 0 /\ secret'[k].attempts = 0 /\ k \in Keys /\ k > made
        BY <3>2, StartMakes
      <4>2. guesses[k] = 0
        BY <1>1, <4>1 DEF CalmInv, BatchesInOrder
      <4>3. MaxAttempts \in Nat
        BY ConstantsAssumption
      <4>4. QED
        BY <1>2, <4>1, <4>2, <4>3 DEF GuessesCounted
    <3>3. QED
      BY <2>4, <3>1, <3>2, StartMakes
  <2>7. LastIsLive'
    <3> SUFFICES ASSUME NEW kind \in Kinds, NEW k \in Live(kind)', NEW j \in Of(kind)'
                 PROVE  secret'[j].batch <= secret'[k].batch
      BY DEF LastIsLive
    <3>1. k \in Of(kind)' /\ ~secret'[k].spent
      BY DEF Live
    <3>2. \A i \in Keys : i <= made => secret'[i].batch = secret[i].batch /\ secret[i].batch <= made
                                       /\ secret[i].batch \in Nat
      <4> SUFFICES ASSUME NEW i \in Keys, i <= made
                   PROVE  secret'[i].batch = secret[i].batch /\ secret[i].batch <= made
                          /\ secret[i].batch \in Nat
        OBVIOUS
      <4>1. secret[i] \in Secret
        BY DEF TypeInv, KeysInOrder
      <4>2. secret[i].batch \in Nat
        BY <1>1, <4>1 DEF Secret
      <4>3. QED
        BY <4>2, StartKeeps DEF CalmInv, BatchesInOrder, KeepsIdentity
    <3>3. \A i : i \in Of(kind) => i \in Keys
      BY DEF Of
    <3>4. CASE k \in NewKeys(s)
      <4>1. secret'[k].batch = made + 1
        BY <3>4, StartMakes
      <4>2. CASE j \in NewKeys(s)
        BY <1>1, <4>1, <4>2, StartMakes
      <4>3. CASE j \in Of(kind) /\ j <= made
        BY <1>1, <3>2, <3>3, <4>1, <4>3
      <4>4. QED
        BY <4>2, <4>3, StartMakes
    <3>5. CASE k \in Of(kind) /\ k <= made
      <4>1. k \in Keys /\ ~secret[k].spent /\ k \notin call[s].seen
        BY <3>1, <3>3, <3>5, StartKeeps
      <4>2. k \in Live(kind)
        BY <3>5, <4>1 DEF Live
      <4>3. kind # call[s].kind
        BY <1>2, <2>2, <4>1, <4>2 DEF ReadStands
      <4>4. j \in Of(kind) /\ j <= made
        BY <4>3, StartMakes
      <4>5. secret[j].batch <= secret[k].batch
        BY <2>2, <4>2, <4>4 DEF CalmRows, LastIsLive
      <4>6. QED
        BY <3>2, <3>3, <3>5, <4>4, <4>5
    <3>6. QED
      BY <3>1, <3>4, <3>5, StartMakes
  <2>8. QED
    BY <2>1, <2>3, <2>5, <2>6, <2>7 DEF CalmRows
<1>5. QED
  BY <1>2, <1>3, <1>4 DEF CalmInv

LEMMA CalmKept ==
    ASSUME TypeInv, CalmInv, [Next]_vars
    PROVE  CalmInv'
<1>1. CASE UNCHANGED vars \/ Tick \/ AppEnrolled
  BY <1>1, OthersCalm
<1>2. ASSUME NEW s \in Sessions, SessionSteps(s) PROVE CalmInv'
  <2>1. CASE \/ EnrollPhone(s) \/ ListFactors(s) \/ Finishes(s)
             \/ \E kind \in {"app", "sms"} : Disable(s, kind) \/ RemoveFactor(s, kind)
    BY <2>1, OthersCalm
  <2>2. CASE \/ \E kind \in Kinds, number \in Numbers \union {NoNumber} : Start(s, kind, number)
             \/ \E k \in Keys : ResetGuard(s, k)
             \/ \E k \in Keys, right \in BOOLEAN : CheckGuard(s, k, right)
    BY <2>2, GuardsCalm
  <2>3. CASE \E k \in Keys : UseRecoveryCode(s, k)
    BY <2>3, RecoveryCalm
  <2>4. CASE StartCommit(s) \/ ResetCommit(s) \/ CheckStale(s) \/ CheckWrong(s) \/ CheckRight(s)
    BY <2>4, StartCalm, ResetCalm, StaleCalm, WrongCalm, RightCalm
  <2>5. QED
    BY <1>2, <2>1, <2>2, <2>3, <2>4 DEF SessionSteps
<1>3. QED
  BY <1>1, <1>2 DEF Next

LEMMA CalmAtFirst == Init => CalmInv
<1> SUFFICES ASSUME Init PROVE CalmInv
  OBVIOUS
<1>1. \A k \in Keys : k \in Nat /\ ~(k <= 0)
  BY DEF Keys
<1>2. BatchesInOrder
  BY <1>1 DEF Init, BatchesInOrder
<1>3. \A s \in Sessions : call[s].op = "idle"
  BY DEF Init, Idle
<1>4. OneTransaction /\ CalmReads
  BY <1>3 DEF OneTransaction, InTransaction, CalmReads, ReadStands
<1>5. \A kind \in Kinds : Of(kind) = {}
  BY DEF Init, Of, Kinds, Unmade
<1>6. "reset" \in Kinds /\ "phone" \in Kinds
  BY DEF Kinds
<1>7. \A t, n : Window(t) = {} /\ Texts(t, n) = {}
  BY <1>5, <1>6 DEF Window, Texts
<1>8. WindowsBounded
  BY <1>7, FS_EmptySet, ConstantsAssumption DEF WindowsBounded
<1>9. CalmRows
  BY <1>5, <1>6, <1>8 DEF CalmRows, LastIsLive, Live
<1>10. QED
  BY <1>2, <1>4, <1>9 DEF CalmInv

LEMMA AlwaysCalmInv == Spec => [](TypeInv /\ CalmInv)
<1>1. Init => CalmInv
  BY CalmAtFirst
<1>2. IInv /\ CalmInv /\ [Next]_vars => CalmInv'
  BY CalmKept DEF IInv
<1>3. IInv => TypeInv
  BY DEF IInv
<1>4. QED
  BY Invariant, <1>1, <1>2, <1>3, PTL DEF Spec

\* "A link works once whatever happens next", and so does a texted code, for
\* any number of requests, as long as no two transactions have overlapped.
THEOREM SpentOnce == Spec => []SecretWorksOnce
<1>1. CalmInv => SecretWorksOnce
  BY DEF CalmInv, CalmRows, OneUse, SecretWorksOnce
<1>2. QED
  BY AlwaysCalmInv, <1>1, PTL

\* "Every earlier link/code for the account stops working the moment this
\* runs": what is live is of the last set made, until transactions overlap.
THEOREM LastAlone == Spec => []OnlyTheLastIsLive
<1>1. CalmInv => OnlyTheLastIsLive
  BY DEF CalmInv, CalmRows, LastIsLive, OnlyTheLastIsLive
<1>2. QED
  BY AlwaysCalmInv, <1>1, PTL

\* Five wrong guesses at a code and no more, and no hour with more messages to
\* the account or to a number than allowed, for any limits and any clock, until
\* transactions overlap.
THEOREM LimitsHold == Spec => []LimitsKept
<1>1. TypeInv /\ CalmInv => LimitsKept
  <2> SUFFICES ASSUME TypeInv, CalmInv, calm PROVE LimitsKept
    BY DEF LimitsKept, GuessesBounded, MessagesBounded
  <2>1. CalmRows
    BY DEF CalmInv
  <2>2. GuessesBounded
    BY <2>1 DEF CalmRows, GuessesCounted, GuessesBounded
  <2>3. ASSUME NEW k \in Of("phone"), NEW hour,
               hour = {j \in Of("phone") : secret[j].at <= secret[k].at
                                            /\ secret[j].at + Hour > secret[k].at}
        PROVE  /\ Cardinality(hour) <= MaxPerAccount
               /\ \A n \in Numbers : Cardinality({j \in hour : secret[j].number = n}) <= MaxPerNumber
    <3>1. secret[k].at \in Nat
      BY OfKeys DEF Kinds, Secret
    <3>2. hour = Window(secret[k].at)
      BY <2>3 DEF Window
    <3>3. \A n : {j \in hour : secret[j].number = n} = Texts(secret[k].at, n)
      BY <3>2 DEF Texts
    <3>4. QED
      BY <2>1, <3>1, <3>2, <3>3 DEF CalmRows, WindowsBounded
  <2>4. MessagesBounded
    BY <2>3 DEF MessagesBounded
  <2>5. QED
    BY <2>2, <2>4 DEF LimitsKept
<1>2. QED
  BY AlwaysCalmInv, <1>1, PTL
=============================================================================

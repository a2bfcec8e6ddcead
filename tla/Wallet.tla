------------------------------- MODULE Wallet -------------------------------
(***************************************************************************)
(* What the wallet promises: of the cards and accounts that are kept,      *)
(* exactly one is the default.  Each function of the database that changes *)
(* the wallet is one step.                                                 *)
(***************************************************************************)
CONSTANT Methods    \* cards and bank accounts
VARIABLE wallet     \* what each of them is: absent, held or the default

WalletStatuses == {"absent", "held", "default"}

\* Every method is absent, held or the default.
WalletTypeOK == wallet \in [Methods -> WalletStatuses]

IsDefault(m) == wallet[m] = "default"

\* The first thing in an empty wallet is its default.
IsFirst(rows) == \A m \in Methods : rows[m] = "absent"

\* Every default is cleared, and then one is set.
Cleared(rows, m) == IF rows[m] = "default" THEN "held" ELSE rows[m]

WalletInit == wallet = [m \in Methods |-> "absent"]

AddMethod(m) ==
    /\ wallet[m] = "absent"
    /\ wallet' = [wallet EXCEPT ![m] = IF IsFirst(wallet) THEN "default" ELSE "held"]

SetDefault(m) ==
    /\ wallet[m] # "absent"
    /\ wallet' = [n \in Methods |-> IF n = m THEN "default" ELSE Cleared(wallet, n)]

\* The default is handed on to the oldest of what is left; which one that is
\* is not told apart.
RemoveMethod(m) ==
    /\ wallet[m] # "absent"
    /\ LET left == {n \in Methods \ {m} : wallet[n] # "absent"} IN
       \/ /\ IsDefault(m) /\ left # {}
          /\ \E n \in left :
               wallet' = [wallet EXCEPT ![m] = "absent", ![n] = "default"]
       \/ /\ ~(IsDefault(m) /\ left # {})
          /\ wallet' = [wallet EXCEPT ![m] = "absent"]

WalletNext == \E m \in Methods : AddMethod(m) \/ SetDefault(m) \/ RemoveMethod(m)

WalletSpec == WalletInit /\ [][WalletNext]_wallet

\* A wallet that holds something has exactly one default.
OneDefault ==
    /\ (\E m \in Methods : wallet[m] # "absent") => \E m \in Methods : IsDefault(m)
    /\ \A m, n \in Methods : IsDefault(m) /\ IsDefault(n) => m = n
=============================================================================

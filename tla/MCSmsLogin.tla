----------------------------- MODULE MCSmsLogin -----------------------------
(* Instances of SmsLogin: one tick is fifteen seconds or more, a window has *)
(* room for two messages, and a code dies before its window does.           *)
EXTENDS SmsLogin, TLC

CONSTANTS
    r1, r2,
    BusyTime    \* bound: ticks of a behaviour that is no longer calm

RequestSymmetry == Permutations(Requests)

\* Overlapping and failing requests are followed for a shorter time.
ShortWhenBusy == calm \/ clock <= BusyTime
=============================================================================

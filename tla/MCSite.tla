------------------------------- MODULE MCSite -------------------------------
(* Two rows, one of them the texted code; a trip and another after it.       *)
EXTENDS Site

Most == [emails |-> 4, sso |-> 4, passkeys |-> 4, factors |-> 4, wallet |-> 5, activity |-> 4,
         password |-> 3, profile |-> 4, notifications |-> 5, entrance |-> 2]
=============================================================================

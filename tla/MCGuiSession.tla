---------------------------- MODULE MCGuiSession ----------------------------
(* Instances of GuiSession: one tab, with three logins and with two.       *)
EXTENDS GuiSession
=============================================================================

-------------------------- MODULE MCProviderEvents --------------------------
(* An instance of ProviderEvents, with a page that holds the whole log.     *)
EXTENDS ProviderEvents
=============================================================================

---------------------------- MODULE MCExchanges ----------------------------
(* A small instance of the store with exchanges for TLC.                   *)
EXTENDS MCStore, Exchanges
=============================================================================

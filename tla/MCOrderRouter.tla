---------------------------- MODULE MCOrderRouter ----------------------------
(* Instance of OrderRouter for TLC: three venues of different kinds, the   *)
(* fallback list names the primary once more.                              *)
EXTENDS OrderRouter
CONSTANTS binance, alpaca, kraken
MCFallbacks == <<alpaca, binance, kraken>>
=============================================================================

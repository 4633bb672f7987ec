---------------------------- MODULE MCTradingLoop ----------------------------
(* Instances of TradingLoop for TLC: one instrument, interchangeable loops. *)
EXTENDS TradingLoop
CONSTANT btc
MCInstruments == <<btc>>
LoopSymmetry == Permutations(Loops)
(* Bound: runs with two loops do not explore the process ending. *)
NoTermination == ~rootDone
(* Bound: they end with the second nuke. *)
OneNuke == halted => nuke = "idle"
(* Bound: two live loops place one order each, a loop alone places a second. *)
AgainOnlyAlone ==
  (\E l \in Loops : at[l] = "place" /\ at'[l] = "fill")
    => orders = <<>> \/ Cardinality({l \in Loops : Alive(l)}) = 1
=============================================================================

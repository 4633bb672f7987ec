------------------------------- MODULE MCVenues -------------------------------
(* Two venues, one the fallback of the other.                              *)
EXTENDS Venues, TLC

MCChain == <<"main", "spare">>
=============================================================================

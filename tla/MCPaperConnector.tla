-------------------------- MODULE MCPaperConnector --------------------------
(* Instance of PaperConnector for TLC: one lot bought, two lots sold short. *)
EXTENDS PaperConnector
MCQtys == {1, -2}
=============================================================================

--------------------------- MODULE MCPaperTrader ---------------------------
(* Instances of PaperTrader for TLC.                                       *)
EXTENDS PaperTrader, TLC

SymbolSymmetry == Permutations(Symbols)
=============================================================================

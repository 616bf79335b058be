------------------------------ MODULE MCStock ------------------------------
(***************************************************************************)
(* Stock for TLC: two warehouses, one document that two calls may book.    *)
(***************************************************************************)
EXTENDS Stock, TLC

CONSTANTS w1, w2, d1, h1, h2

Symmetric == Permutations(Warehouses) \union Permutations(Calls)

\* The bound on movements is reached.
Rest == moves = MaxMoves /\ UNCHANGED stockVars

MCNext == StockNext \/ Rest
MCSpec == StockInit /\ [][MCNext]_stockVars
=============================================================================

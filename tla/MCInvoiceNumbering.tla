------------------------- MODULE MCInvoiceNumbering -------------------------
(***************************************************************************)
(* InvoiceNumbering for TLC: two direct creators, one Storno and one       *)
(* recurring job racing for the same company's numbers, with 2 attempts in *)
(* each loop so that both loops are exhausted.                             *)
(***************************************************************************)
EXTENDS InvoiceNumbering, TLC

CONSTANTS d1, d2, s1, r1

MCCreators == {d1, d2, s1, r1}

MCKind == d1 :> "direct" @@ d2 :> "direct" @@ s1 :> "storno" @@ r1 :> "recurring"

\* Once every creator has ended nothing is left to do.
AllEnded == \A c \in Creators : pc[c] \in {"done", "failed"}
Stop == AllEnded /\ UNCHANGED numVars

MCNext == NumNext \/ Stop
MCSpec == NumInit /\ [][MCNext]_numVars /\ NumFairness
=============================================================================

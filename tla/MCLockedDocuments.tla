------------------------- MODULE MCLockedDocuments -------------------------
(***************************************************************************)
(* LockedDocuments for TLC: one bill and one expense, which share nothing  *)
(* but the ledger, and three handlers.                                     *)
(***************************************************************************)
EXTENDS LockedDocuments, TLC

CONSTANTS b1, e1, h1, h2, h3

Symmetric == Permutations(Handlers)

\* Nobody asks for anything any more.
Rest == (\A h \in Handlers : Idling(h)) /\ UNCHANGED vars

MCNext == Next \/ Rest
MCSpec == Init /\ [][MCNext]_vars
=============================================================================

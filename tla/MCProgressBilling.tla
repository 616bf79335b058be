-------------------------- MODULE MCProgressBilling --------------------------
(***************************************************************************)
(* ProgressBilling for TLC: a contract of 10 cents drawn in quarters, so   *)
(* that every slice is rounded.                                            *)
(***************************************************************************)
EXTENDS ProgressBilling

CONSTANTS h1, h2

\* Nothing is under way: the project is at rest.
Rest == (\A h \in Handlers : Start(h)) /\ UNCHANGED vars

MCNext == Next \/ Rest
MCSpec == Init /\ [][MCNext]_vars /\ Fairness
=============================================================================

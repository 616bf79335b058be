------------------------------ MODULE MCSeats ------------------------------
(***************************************************************************)
(* Seats for TLC: an owner, two people, an invite, two handlers.           *)
(***************************************************************************)
EXTENDS Seats, TLC

CONSTANTS owner, p1, p2, i1, h1, h2

\* Nobody has to do anything.
Rest == (\A h \in Handlers : Idling(h)) /\ UNCHANGED vars

MCNext == Next \/ Rest
MCSpec == Init /\ [][MCNext]_vars /\ Fairness
=============================================================================

------------------------------ MODULE MCOutbox ------------------------------
(***************************************************************************)
(* Outbox for TLC. Two workers, so that batches overlap; two attempts, so  *)
(* that a row is retried, closed after a retry and given up.               *)
(***************************************************************************)
EXTENDS Outbox, TLC

CONSTANTS w1, w2, e1, e2

\* Every row is closed, or stuck with its worker gone.
Quiet == \A r \in Rows : status[r] \in {"delivered", "failed", "processing"}
Rest == Quiet /\ (\A w \in Workers : pc[w] = "idle") /\ UNCHANGED vars

MCNext == Next \/ Rest
MCSpec == Init /\ [][MCNext]_vars /\ Fairness
=============================================================================

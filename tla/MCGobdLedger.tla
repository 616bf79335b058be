---------------------------- MODULE MCGobdLedger ----------------------------
(***************************************************************************)
(* GobdLedger for TLC: a send, a vendor bill approval and a void (two      *)
(* rows) racing, with two attempts each and at most one manipulation.      *)
(***************************************************************************)
EXTENDS GobdLedger, TLC

CONSTANTS send, bill, storno

MCRequests == {send, bill, storno}
MCEntries == send :> 1 @@ bill :> 1 @@ storno :> 2

AllEnded == \A t \in Requests : pc[t] \in {"done", "failed"}
Rest == AllEnded /\ UNCHANGED vars

MCNext == Next \/ Rest
MCSpec == Init /\ [][MCNext]_vars /\ Fairness
=============================================================================

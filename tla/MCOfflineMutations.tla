------------------------ MODULE MCOfflineMutations ------------------------
(***************************************************************************)
(* OfflineMutations for TLC: two mutations, so that one waits behind the   *)
(* other, and two calls at a time.                                         *)
(***************************************************************************)
EXTENDS OfflineMutations

Rest == (\A t \in Tasks : task[t].pc = "idle") /\ UNCHANGED vars

MCNext == Next \/ Rest
MCSpec == Init /\ [][MCNext]_vars /\ Fairness
=============================================================================

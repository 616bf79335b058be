----------------------------- MODULE MCInvoices -----------------------------
(***************************************************************************)
(* Invoices for TLC. An instance is a choice of operations and bounds: one *)
(* invoice (with its Storno) is enough for every race between handlers,    *)
(* since no handler touches two invoices other than a Storno's original.   *)
(***************************************************************************)
EXTENDS Invoices, TLC

CONSTANTS h1, h2, c1, c2

Symmetric == Permutations(Handlers) \union Permutations(Charges)

\* Nothing is under way and no operation is open: the company has gone quiet.
Rest == (\A h \in Handlers : req[h].op = "none") /\ UNCHANGED vars

MCNext == Next \/ Rest
MCSpec == Init /\ [][MCNext]_vars /\ Fairness
=============================================================================

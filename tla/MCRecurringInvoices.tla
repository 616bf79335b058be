------------------------ MODULE MCRecurringInvoices ------------------------
(***************************************************************************)
(* RecurringInvoices for TLC: two workers, so that two attempts at one     *)
(* period, an edit and a charge, or a charge and its webhook overlap.      *)
(***************************************************************************)
EXTENDS RecurringInvoices

MCChanges == {[NoChange EXCEPT !.autopay = TRUE], [NoChange EXCEPT !.active = FALSE],
              [NoChange EXCEPT !.end = 1], [NoChange EXCEPT !.frequency = 2, !.active = TRUE]}

Rest == (\A w \in Workers : At(w, "idle")) /\ UNCHANGED vars

MCNext == Next \/ Rest
MCSpec == Init /\ [][MCNext]_vars /\ Fairness
=============================================================================

--------------------------- MODULE ProgressBilling ---------------------------
(***************************************************************************)
(* Progress billing of one approved estimate (generateProgressInvoice,     *)
(* releaseRetainage and calculateProgressDraw of finance/): each draw      *)
(* bills the slice of the contract from the last draw's percentage to the  *)
(* new one, less retainage, and retainage is released later in invoices of *)
(* their own.                                                              *)
(*                                                                         *)
(* Both operations READ the estimate's other invoices and then create      *)
(* theirs, with no transaction around the two; a retry for the invoice     *)
(* number (createInvoiceWithNumber) repeats only the creation, with the    *)
(* old figures. Amounts are cents, percentages whole.                      *)
(*                                                                         *)
(* A voided draw or release does not count any more, and neither does its  *)
(* Storno, which belongs to no estimate.                                   *)
(***************************************************************************)
EXTENDS Integers, Sequences, FiniteSets, Sums

CONSTANTS
    Handlers,           \* requests in progress at one time
    Contract,           \* the estimate's grandTotal, in cents
    Percents,           \* percentages a user may ask to have billed
    RetainagePercents,  \* retainage a user may ask to have withheld
    Partial,            \* amounts a user may ask to have released
    Fees,               \* late fees
    MaxDraws,           \* bound: draws
    MaxReleases,        \* bound: retainage releases
    MaxFees             \* bound: late fees charged on one release

ASSUME ProgressAssumption ==
    /\ Contract \in Nat
    /\ Percents \subseteq 1..100 /\ RetainagePercents \subseteq 0..100
    /\ Partial \subseteq Nat \ {0} /\ Fees \subseteq Nat \ {0}
    /\ MaxDraws \in Nat /\ MaxReleases \in Nat /\ MaxFees \in Nat

VARIABLES
    inv,    \* the estimate's draws and releases, in the order they were created
    req     \* what each handler has read and is about to create

vars == <<inv, req>>

Kinds == {"draw", "release"}
Invoice == [kind : Kinds, from : 0..100, to : 0..100, gross : Nat, retained : Nat,
            total : Nat, fees : 0..MaxFees, status : {"draft", "sent", "void"}]

Idle == [op |-> "none", from |-> 0, to |-> 0, retain |-> 0, amount |-> 0]
Request == [op : Kinds \union {"none"}, from : 0..100, to : 0..100, retain : 0..100, amount : Nat]

Ids == 1..Len(inv)
Live(kind) == {k \in Ids : inv[k].kind = kind /\ inv[k].status # "void"}

\* The sum of f over the invoices in S.
SumOf(f, S) == Total([k \in Ids |-> IF k \in S THEN f[k] ELSE 0])

Init == inv = <<>> /\ req = [h \in Handlers |-> Idle]

\* Handler h is free; the bound on invoices of this kind is not reached.
Start(h) == req[h].op = "none"
Room(kind, max) ==
    Cardinality({k \in Ids : inv[k].kind = kind}) + Cardinality({h \in Handlers : req[h].op = kind}) < max

-----------------------------------------------------------------------------
(***************************************************************************)
(* calculateProgressDraw, on cents.                                        *)
(***************************************************************************)

\* round2: a hundredth part, half a cent up.
Round(x) == (2 * x + 100) \div 200

\* The whole work done is billed, not what was done since the last draw.
Gross_cumulative(from, to) == Round(Contract * to)

Gross(from, to) == Round(Contract * (to - from))

Retained(gross, retain) == Round(gross * retain)

Net(gross, retained) == gross - retained

-----------------------------------------------------------------------------
(***************************************************************************)
(* generateProgressInvoice.                                                *)
(***************************************************************************)

\* Draws that have not been sent yet are overlooked.
LastPercent_sentOnly(p) ==
    LET sent == {k \in Live("draw") : inv[k].status = "sent"}
    IN  IF sent = {} THEN p = 0
        ELSE (\E k \in sent : inv[k].to = p) /\ \A k \in sent : inv[k].to <= p

\* p is the percentage of the last draw that is not void, 0 if there is none.
LastPercent(p) ==
    IF Live("draw") = {} THEN p = 0
    ELSE (\E k \in Live("draw") : inv[k].to = p) /\ \A k \in Live("draw") : inv[k].to <= p

BeginDraw(h, last, percent, retain) ==
    /\ Start(h) /\ Room("draw", MaxDraws)
    /\ LastPercent(last)
    /\ percent > last
    /\ req' = [req EXCEPT ![h] = [op |-> "draw", from |-> last, to |-> percent,
                                  retain |-> retain, amount |-> 0]]
    /\ UNCHANGED inv

DrawOf(r) ==
    LET gross == Gross(r.from, r.to)
    IN  [kind |-> "draw", from |-> r.from, to |-> r.to, gross |-> gross,
         retained |-> Retained(gross, r.retain), total |-> Net(gross, Retained(gross, r.retain)),
         fees |-> 0, status |-> "draft"]

CommitDraw(h) ==
    /\ req[h].op = "draw"
    /\ inv' = Append(inv, DrawOf(req[h]))
    /\ req' = [req EXCEPT ![h] = Idle]

-----------------------------------------------------------------------------
(***************************************************************************)
(* releaseRetainage.                                                       *)
(***************************************************************************)

Held == SumOf([k \in Ids |-> inv[k].retained], Live("draw"))
AlreadyReleased == SumOf([k \in Ids |-> inv[k].total], Live("release"))

\* Releases that have not been sent yet are overlooked.
Remaining_sentOnly ==
    Held - SumOf([k \in Ids |-> inv[k].total], {k \in Live("release") : inv[k].status = "sent"})

Remaining == Held - AlreadyReleased

\* amount is what the user asked for, or all that remains.
BeginRelease(h, amount) ==
    /\ Start(h) /\ Room("release", MaxReleases)
    /\ amount \in Partial \/ amount = Remaining
    /\ Remaining > 0 /\ amount <= Remaining
    /\ req' = [req EXCEPT ![h] = [op |-> "release", from |-> 0, to |-> 0,
                                  retain |-> 0, amount |-> amount]]
    /\ UNCHANGED inv

ReleaseOf(r) ==
    [kind |-> "release", from |-> 0, to |-> 0, gross |-> r.amount, retained |-> 0,
     total |-> r.amount, fees |-> 0, status |-> "draft"]

CommitRelease(h) ==
    /\ req[h].op = "release"
    /\ inv' = Append(inv, ReleaseOf(req[h]))
    /\ req' = [req EXCEPT ![h] = Idle]

-----------------------------------------------------------------------------
(***************************************************************************)
(* What module Invoices says of these invoices too, each in one step.      *)
(***************************************************************************)

Send(h, k) ==
    /\ Start(h) /\ inv[k].status = "draft"
    /\ inv' = [inv EXCEPT ![k].status = "sent"]
    /\ UNCHANGED req

Void(h, k) ==
    /\ Start(h) /\ inv[k].status = "sent"
    /\ inv' = [inv EXCEPT ![k].status = "void"]
    /\ UNCHANGED req

\* chargeLateFee: the invoice's total grows.
ChargeLateFee(h, k, fee) ==
    /\ Start(h) /\ inv[k].kind = "release" /\ inv[k].status = "sent"
    /\ inv[k].fees < MaxFees
    /\ inv' = [inv EXCEPT ![k].total = @ + fee, ![k].fees = @ + 1]
    /\ UNCHANGED req

\* The request fails or its process dies before the creation.
Fail(h) ==
    /\ ~Start(h)
    /\ req' = [req EXCEPT ![h] = Idle]
    /\ UNCHANGED inv

Next ==
    \E h \in Handlers :
        \/ \E last \in Percents \union {0}, p \in Percents, r \in RetainagePercents : BeginDraw(h, last, p, r)
        \/ CommitDraw(h)
        \/ \E a \in 1..(Contract + MaxDraws) : BeginRelease(h, a)
        \/ CommitRelease(h)
        \/ \E k \in Ids : Send(h, k) \/ Void(h, k) \/ \E f \in Fees : ChargeLateFee(h, k, f)
        \/ Fail(h)

\* A handler that has read goes on to create its invoice.
Fairness == \A h \in Handlers : WF_vars(CommitDraw(h) \/ CommitRelease(h))

Spec == Init /\ [][Next]_vars /\ Fairness

-----------------------------------------------------------------------------
(***************************************************************************)
(* Properties that hold when requests come one at a time.                  *)
(***************************************************************************)

TypeOK == inv \in Seq(Invoice) /\ req \in [Handlers -> Request]

\* No part of the contract is billed twice: the slices of two draws that count
\* never overlap, whichever draws were voided in between ("the incremental
\* slice of the contract earned since the last draw", calculateProgressDraw).
DisjointSlices ==
    \A j, k \in Live("draw") : j # k => inv[j].to <= inv[k].from \/ inv[k].to <= inv[j].from

\* A client is never billed for more than the progress reported, but for the
\* half cent by which each draw may have been rounded up.
OverbillingIsRounding ==
    \A p \in Percents \union {0} : (\A k \in Live("draw") : inv[k].to <= p) =>
        200 * SumOf([k \in Ids |-> inv[k].gross], Live("draw"))
            <= 2 * Contract * p + 100 * Cardinality(Live("draw"))

Released == SumOf([k \in Ids |-> inv[k].gross], Live("release"))

\* A release is "capped at whatever's still held".
ReleaseCapped == [][Released' > Released => Released' <= Held']_vars

=============================================================================

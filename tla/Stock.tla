------------------------------- MODULE Stock -------------------------------
(***************************************************************************)
(* One material in a company's warehouses: StockService with its costing   *)
(* (materials/stock.service.ts, inventory-costing.ts), transfers by truck  *)
(* (StockTransfersService), and two documents that are booked in several   *)
(* steps, a stock count (StockCountsService.finalize) and a purchase order *)
(* (PurchaseOrdersService.receive).                                        *)
(*                                                                         *)
(* What runs inside runSerializable is one step. The two documents check   *)
(* their status first, then book their movement in a transaction of its    *)
(* own, then close: three steps.                                           *)
(*                                                                         *)
(* Quantities are whole units; a cost is a number of the smallest amounts  *)
(* a Decimal(12,4) column can tell apart, and is rounded to them where the *)
(* code divides. Lots and serial numbers, which are tracked beside the     *)
(* level and the cost, are left out.                                       *)
(***************************************************************************)
EXTENDS Integers, SequencesExt, FiniteSetsExt, Sums

CONSTANTS
    Warehouses,
    Quantities,     \* what one movement may move
    Costs,          \* what a unit may cost
    Documents,      \* the counts and purchase orders
    Calls,          \* calls of finalize and receive in progress at one time
    NoCost,         \* null: a receipt or a movement without a cost
    MaxMoves,       \* bound: stock movements and transfers
    MaxFails        \* bound: handlers that die

ASSUME StockAssumption ==
    /\ Quantities \subseteq Nat \ {0} /\ Costs \subseteq Nat
    /\ NoCost \notin Nat
    /\ MaxMoves \in Nat /\ MaxFails \in Nat

VARIABLES
    method,     \* the company's inventoryCostingMethod
    level,      \* StockLevel.quantityOnHand
    average,    \* StockLevel.averageCost
    layers,     \* the InventoryCostLayer rows, oldest first
    transfers,  \* the StockTransfer rows
    booked,     \* what the StockMovement rows of each warehouse add up to
    value,      \* totals over all movements (not in the code)
    doc,        \* the counts and purchase orders
    job,        \* what each handler is at
    moves, fails

goods == <<level, average, layers, transfers>>
stockVars == <<method, goods, booked, value, doc, job, moves, fails>>

-----------------------------------------------------------------------------
Layer == [warehouse : Warehouses, quantity : Nat \ {0}, cost : Nat]
Transfer == [from : Warehouses, to : Warehouses, quantity : Nat \ {0}, cost : Nat \union {NoCost},
             status : {"in_transit", "received", "cancelled"}]
Document == [status : {"none", "open", "closed"}, warehouse : Warehouses, delta : Int, booked : Nat,
             excused : BOOLEAN]

NoJob == [pc |-> "idle"]
Job == {NoJob} \union [pc : {"book", "close"}, doc : Documents]

StockInit ==
    /\ method \in {"fifo", "weighted_average"}
    /\ level = [w \in Warehouses |-> 0]
    /\ average = [w \in Warehouses |-> NoCost]
    /\ layers = <<>>
    /\ transfers = <<>>
    /\ booked = [w \in Warehouses |-> 0]
    /\ value = [bought |-> 0, spent |-> 0, dearest |-> 0, blended |-> 0, short |-> FALSE]
    /\ doc \in [Documents -> [status : {"none"}, warehouse : Warehouses, delta : {0}, booked : {0},
                              excused : {FALSE}]]
    /\ job = [h \in Calls |-> NoJob]
    /\ moves = 0 /\ fails = 0

-----------------------------------------------------------------------------
(***************************************************************************)
(* inventory-costing.ts                                                    *)
(***************************************************************************)

\* round4, and what a Decimal(12,4) column does to a quotient: to the nearest.
Round4(n, d) == (2 * n + d) \div (2 * d)

\* Stock that was issued before it came in counts against the new average.
CalculateWeightedAverageCost_negative(quantity, cost, received, unitCost) ==
    LET prior == IF quantity > 0 /\ cost # NoCost THEN quantity * cost ELSE 0
    IN  IF quantity + received <= 0 THEN unitCost
        ELSE Round4(prior + received * unitCost, quantity + received)

CalculateWeightedAverageCost(quantity, cost, received, unitCost) ==
    LET prior == IF quantity > 0 /\ cost # NoCost THEN quantity * cost ELSE 0
    IN  Round4(prior + received * unitCost, Max({quantity, 0}) + received)

\* The loop body takes every row in full until the quantity is reached.
ConsumeLayer_whole(w, done, row) ==
    LET take == IF row.warehouse = w /\ done.remaining > 0 THEN row.quantity ELSE 0
    IN  [remaining |-> done.remaining - Min({take, done.remaining}),
         totalCost |-> done.totalCost + take * row.cost,
         left |-> IF take = row.quantity THEN done.left ELSE Append(done.left, row)]

\* One row of the table: those of other warehouses are not looked at; one that is
\* used up is deleted.
ConsumeLayer(w, done, row) ==
    LET take == IF row.warehouse = w THEN Min({row.quantity, done.remaining}) ELSE 0
    IN  [remaining |-> done.remaining - take,
         totalCost |-> done.totalCost + take * row.cost,
         left |-> IF take = row.quantity THEN done.left
                  ELSE Append(done.left, [row EXCEPT !.quantity = @ - take])]

\* The loop over the rows of w, oldest first: what is not covered, what the rest
\* cost, and the table afterwards. after[i] is what the first i rows come to.
FifoLoop(old, w, quantity) ==
    LET after[i \in 0..Len(old)] ==
          IF i = 0 THEN [remaining |-> quantity, totalCost |-> 0, left |-> <<>>]
          ELSE ConsumeLayer(w, after[i - 1], old[i])
    IN  after

CalculateFifoConsumption(w, quantity) == FifoLoop(layers, w, quantity)[Len(layers)]

-----------------------------------------------------------------------------
(***************************************************************************)
(* computeSingleWarehouseCosting.                                          *)
(***************************************************************************)
Add(w, n) == level' = [level EXCEPT ![w] = @ + n]

\* A receipt. Without a cost there is nothing to cost.
CostReceipt(w, quantity, cost) ==
    /\ average' = IF cost = NoCost THEN average
                  ELSE [average EXCEPT ![w] =
                          CalculateWeightedAverageCost(level[w], @, quantity, cost)]
    /\ layers' = IF cost = NoCost \/ method # "fifo" THEN layers
                 ELSE Append(layers, [warehouse |-> w, quantity |-> quantity, cost |-> cost])

Layered(w) == \E i \in 1..Len(layers) : layers[i].warehouse = w
Consumed(w, quantity) == quantity - CalculateFifoConsumption(w, quantity).remaining
Spent(w, quantity) == IF method = "fifo" THEN CalculateFifoConsumption(w, quantity).totalCost ELSE 0

\* The unit cost of an issue, a write-off or a transfer that takes quantity from w.
IssueCost(w, quantity) ==
    IF method = "weighted_average" THEN average[w]
    ELSE IF ~Layered(w) THEN NoCost
    ELSE Round4(Spent(w, quantity), Consumed(w, quantity))

\* What was consumed is not written back.
LayersAfterIssue_untouched(w, quantity) == layers

LayersAfterIssue(w, quantity) ==
    IF method = "fifo" THEN CalculateFifoConsumption(w, quantity).left ELSE layers

Move == moves < MaxMoves /\ moves' = moves + 1

-----------------------------------------------------------------------------
(***************************************************************************)
(* StockService: recordMovement, transferStock, issueFromEstimate.         *)
(***************************************************************************)
Book(w, n) == booked' = [booked EXCEPT ![w] = @ + n]

\* recordMovement's transaction.
Receipt(w, quantity, cost) ==
    /\ Move
    /\ CostReceipt(w, quantity, cost) /\ Add(w, quantity) /\ Book(w, quantity)
    /\ value' = IF cost = NoCost THEN value
                ELSE [value EXCEPT !.bought = @ + quantity * cost, !.dearest = Max({@, cost})]
    /\ UNCHANGED <<method, transfers>>

Issue(w, quantity) ==
    /\ Move
    /\ layers' = LayersAfterIssue(w, quantity)
    /\ Add(w, -quantity) /\ Book(w, -quantity)
    /\ value' = [value EXCEPT !.spent = @ + Spent(w, quantity)]
    /\ UNCHANGED <<method, average, transfers>>

RecordMovement(w, quantity) ==
    /\ (\E cost \in Costs \union {NoCost} : Receipt(w, quantity, cost)) \/ Issue(w, quantity)
    /\ UNCHANGED <<doc, job, fails>>

\* transferStock with computeTransferCosting: under fifo one new layer of what was
\* consumed at its blended cost, and nothing at all where there was nothing.
TransferStock(from, to, quantity) ==
    LET cost == IssueCost(from, quantity)
        costed == IF method = "fifo" THEN Consumed(from, quantity) ELSE quantity
    IN  /\ from # to /\ Move
        /\ level' = [level EXCEPT ![from] = @ - quantity, ![to] = @ + quantity]
        /\ booked' = [booked EXCEPT ![from] = @ - quantity, ![to] = @ + quantity]
        /\ average' = IF cost = NoCost THEN average
                      ELSE [average EXCEPT ![to] =
                              CalculateWeightedAverageCost(level[to], @, costed, cost)]
        /\ layers' = IF method # "fifo" \/ cost = NoCost THEN layers
                     ELSE Append(LayersAfterIssue(from, quantity),
                                 [warehouse |-> to, quantity |-> costed, cost |-> cost])
        /\ value' = IF method = "fifo" THEN [value EXCEPT !.blended = @ + costed] ELSE value
        /\ UNCHANGED <<method, transfers, doc, job, fails>>

\* issueFromEstimate: a movement and the level; lots, layers and costs are not touched.
IssueFromEstimate(w, quantity) ==
    /\ Move
    /\ Add(w, -quantity) /\ Book(w, -quantity)
    /\ UNCHANGED <<method, average, layers, transfers, value, doc, job, fails>>

-----------------------------------------------------------------------------
(***************************************************************************)
(* StockTransfersService.                                                  *)
(***************************************************************************)

\* initiate: the stock leaves the source at the cost of an issue.
Initiate(from, to, quantity) ==
    /\ from # to /\ Move
    /\ transfers' = Append(transfers, [from |-> from, to |-> to, quantity |-> quantity,
                                       cost |-> IssueCost(from, quantity), status |-> "in_transit"])
    /\ layers' = LayersAfterIssue(from, quantity)
    /\ Add(from, -quantity)
    /\ value' = IF method # "fifo" \/ ~Layered(from) THEN value
                ELSE [value EXCEPT !.blended = @ + quantity,
                                   !.short = @ \/ Consumed(from, quantity) < quantity]
    /\ UNCHANGED <<method, average, booked, doc, job, fails>>

\* The transfer ends at warehouse w: a receipt there, at the cost it travelled with.
Arrive(k, w, status) ==
    /\ transfers' = [transfers EXCEPT ![k].status = status]
    /\ CostReceipt(w, transfers[k].quantity, transfers[k].cost)
    /\ Add(w, transfers[k].quantity)
    /\ UNCHANGED <<method, booked, value, doc, job, moves, fails>>

\* The status was looked at before the transaction.
InTransit_earlier(k) == transfers[k].status \in {"in_transit", "received"}

InTransit(k) == transfers[k].status = "in_transit"

ReceiveTransfer(k) == InTransit(k) /\ Arrive(k, transfers[k].to, "received")
CancelTransfer(k) == InTransit(k) /\ Arrive(k, transfers[k].from, "cancelled")

-----------------------------------------------------------------------------
(***************************************************************************)
(* Stock counts and purchase orders.                                       *)
(***************************************************************************)

\* A count with its variance (create, updateLine), or an order of so many.
OpenDocument(d, delta) ==
    /\ doc[d].status = "none"
    /\ doc' = [doc EXCEPT ![d].status = "open", ![d].delta = delta]
    /\ UNCHANGED <<method, goods, booked, value, job, moves, fails>>

AtDocument(d) == {h \in Calls : job[h].pc # "idle" /\ job[h].doc = d}

\* A closed document is booked again.
StartBooking_closedToo(h, d) ==
    /\ job[h] = NoJob /\ doc[d].status # "none"
    /\ job' = [job EXCEPT ![h] = [pc |-> "book", doc |-> d]]
    /\ doc' = [doc EXCEPT ![d].excused = @ \/ AtDocument(d) # {}]
    /\ UNCHANGED <<method, goods, booked, value, moves, fails>>

\* finalize and receive read the document and refuse one that is closed.
StartBooking(h, d) ==
    /\ job[h] = NoJob /\ doc[d].status = "open"
    /\ job' = [job EXCEPT ![h] = [pc |-> "book", doc |-> d]]
    /\ doc' = [doc EXCEPT ![d].excused = @ \/ AtDocument(d) # {}]
    /\ UNCHANGED <<method, goods, booked, value, moves, fails>>

\* recordMovement, without a cost: a receipt of what is more, a write-off of what is less.
BookMovement(h) ==
    LET d == job[h].doc IN
    /\ job[h].pc = "book"
    /\ IF doc[d].delta > 0 THEN Receipt(doc[d].warehouse, doc[d].delta, NoCost)
       ELSE Issue(doc[d].warehouse, -doc[d].delta)
    /\ doc' = [doc EXCEPT ![d].booked = @ + 1]
    /\ job' = [job EXCEPT ![h].pc = "close"]
    /\ UNCHANGED fails

\* The status update at the end.
CloseDocument(h) ==
    /\ job[h].pc = "close"
    /\ doc' = [doc EXCEPT ![job[h].doc].status = "closed"]
    /\ job' = [job EXCEPT ![h] = NoJob]
    /\ UNCHANGED <<method, goods, booked, value, moves, fails>>

\* The process dies between two steps: an open document can be booked once more.
CallDies(h) ==
    /\ job[h].pc # "idle" /\ fails < MaxFails
    /\ fails' = fails + 1
    /\ doc' = [doc EXCEPT ![job[h].doc].excused = @ \/ job[h].pc = "close"]
    /\ job' = [job EXCEPT ![h] = NoJob]
    /\ UNCHANGED <<method, goods, booked, value, moves>>

-----------------------------------------------------------------------------
StockNext ==
    \/ \E w \in Warehouses, quantity \in Quantities :
         \/ RecordMovement(w, quantity) \/ IssueFromEstimate(w, quantity)
         \/ \E to \in Warehouses : TransferStock(w, to, quantity) \/ Initiate(w, to, quantity)
    \/ \E k \in 1..Len(transfers) : ReceiveTransfer(k) \/ CancelTransfer(k)
    \/ \E d \in Documents, quantity \in Quantities : OpenDocument(d, quantity) \/ OpenDocument(d, -quantity)
    \/ \E h \in Calls :
         \/ \E d \in Documents : StartBooking(h, d)
         \/ BookMovement(h) \/ CloseDocument(h) \/ CallDies(h)

StockSpec == StockInit /\ [][StockNext]_stockVars

-----------------------------------------------------------------------------
(***************************************************************************)
(* Properties.                                                             *)
(***************************************************************************)

StockTypeOK ==
    /\ method \in {"fifo", "weighted_average"}
    /\ level \in [Warehouses -> Int] /\ booked \in [Warehouses -> Int]
    /\ average \in [Warehouses -> Nat \union {NoCost}]
    /\ layers \in Seq(Layer)
    /\ transfers \in Seq(Transfer)
    /\ value \in [bought : Nat, spent : Nat, dearest : Nat, blended : Nat, short : BOOLEAN]
    /\ doc \in [Documents -> Document] /\ job \in [Calls -> Job]
    /\ moves \in 0..MaxMoves /\ fails \in 0..MaxFails

Ks == 1..Len(transfers)

\* What transfer k took from w and did not bring back, and what it brought to w.
Departed(w, k) ==
    IF transfers[k].from = w /\ transfers[k].status # "cancelled" THEN transfers[k].quantity ELSE 0
Arrived(w, k) ==
    IF transfers[k].to = w /\ transfers[k].status = "received" THEN transfers[k].quantity ELSE 0

\* Nothing appears or disappears: the level of a warehouse is what its movements
\* add up to, less what left it on a truck and was not cancelled, plus what
\* arrived on one. A transfer is credited once, by its receipt or its cancellation.
LevelsAddUp ==
    \A w \in Warehouses :
        level[w] = booked[w] - Total([k \in Ks |-> Departed(w, k)])
                             + Total([k \in Ks |-> Arrived(w, k)])

\* What the layers are worth, and what is on the road.
Worth(ls) == Total([i \in 1..Len(ls) |-> ls[i].quantity * ls[i].cost])
Carried(k) ==
    IF transfers[k].status = "in_transit" /\ transfers[k].cost # NoCost
      THEN transfers[k].quantity * transfers[k].cost ELSE 0

PresentValue == Worth(layers) + Total([k \in Ks |-> Carried(k)])

\* "keeps the total value right": under fifo the layers, with what is on the road,
\* are worth what was bought less what was used up; every unit that travelled at a
\* blended cost may be off by half of the smallest amount. A truck that takes more
\* than its source has layers for is the exception: all of it travels at the cost
\* of the part that was covered.
ValueIsKept ==
    LET off == value.bought - value.spent - PresentValue
    IN  method = "fifo" /\ ~value.short => 2 * off <= value.blended /\ -2 * off <= value.blended

\* No unit is carried at more than the dearest one that was ever bought, whatever was
\* issued before it came in, moved, blended, rounded or sent back: not by an average
\* (stock without a cost pulls it down, to 0 at most), a layer or a truck.
CostsStayWithin ==
    /\ \A w \in Warehouses : average[w] # NoCost => average[w] <= value.dearest
    /\ \A i \in 1..Len(layers) : layers[i].cost <= value.dearest
    /\ \A k \in Ks : transfers[k].cost # NoCost => transfers[k].cost <= value.dearest

\* The layers of w, one entry per unit, oldest first: those of the first i rows.
Copies(n, cost) == [i \in 1..n |-> cost]
AddUnits(units, row, w) == units \o Copies(IF row.warehouse = w THEN row.quantity ELSE 0, row.cost)
UnitsTo(ls, w) ==
    LET units[i \in 0..Len(ls)] == IF i = 0 THEN <<>> ELSE AddUnits(units[i - 1], ls[i], w)
    IN  units
Units(ls, w) == UnitsTo(ls, w)[Len(ls)]

\* calculateFifoConsumption uses up exactly the oldest units of a warehouse, whole
\* layers and parts of them, reports what they cost and what was missing, and
\* leaves those of the other warehouses alone.
OldestFirst ==
    \A w \in Warehouses, quantity \in 1..(2 * Max(Quantities)) :
        LET result == CalculateFifoConsumption(w, quantity)
            units == Units(layers, w)
            taken == Min({quantity, Len(units)})
        IN  /\ result.remaining = quantity - taken
            /\ result.totalCost = Total(SubSeq(units, 1, taken))
            /\ Units(result.left, w) = SubSeq(units, taken + 1, Len(units))
            /\ \A v \in Warehouses \ {w} : Units(result.left, v) = Units(layers, v)

\* Costing is right after any sequence of movements: fifo uses up the oldest units
\* and conserves value up to rounding, and nothing is valued at more than the
\* dearest unit bought.
ValuationHolds == StockTypeOK /\ ValueIsKept /\ CostsStayWithin /\ OldestFirst

\* A count or an order is booked once, unless two calls had started on it or a call
\* died after it had booked and before it closed it.
BookedOnce == \A d \in Documents : doc[d].booked > 1 => doc[d].excused

=============================================================================

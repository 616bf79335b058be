---------------------------- MODULE AmountsProofs ----------------------------
(***************************************************************************)
(* What the amounts of two components come to: progress billing, for any   *)
(* contract, any percentages and any number of draws and releases; and the *)
(* stock, for any warehouses, quantities and costs and any number of       *)
(* movements, transfers and documents. Both rest on sums over tables.      *)
(*                                                                         *)
(* Progress billing: type correctness holds however requests overlap. The  *)
(* rest holds for one request at a time (Serial), which is needed: two     *)
(* draws that have both read bill the same slice. The invariant behind it  *)
(* says of a handler that has read that the percentage it starts from is   *)
(* still at or above every draw that counts, and that what it releases is  *)
(* still held.                                                             *)
(*                                                                         *)
(* Stock: the loop over the layers conserves value, a rounded cost is off  *)
(* by half a smallest amount per unit, and a truck changes one term of the *)
(* sums over the transfers. Row by row, the loop has taken and left what a *)
(* cut through the list of single units takes and leaves. The documents    *)
(* have an invariant of their own.                                         *)
(*                                                                         *)
(* Sums and the loop are recursive functions. What they come to is proved  *)
(* by induction (SetInduction: a set of numbers with 0 and with every      *)
(* successor holds them all), from the well-foundedness of < on the        *)
(* naturals.                                                               *)
(***************************************************************************)
EXTENDS ProgressBilling, Stock, FiniteSetTheorems, WellFoundedInduction, TLAPS

Serial == \A g, h \in Handlers : g = h

\* A handler about to draw bills something ...
DrawsForward == \A h \in Handlers : req[h].op = "draw" => req[h].from < req[h].to

\* ... and starts at or above every draw that counts.
StartsAbove ==
    \A h \in Handlers : req[h].op = "draw" =>
        \A k \in Live("draw") : inv[k].to <= req[h].from

TypeInv == TypeOK /\ DrawsForward
SliceInv == TypeInv /\ StartsAbove /\ DisjointSlices

-----------------------------------------------------------------------------
\* Rounding a hundredth of a whole number of cents gives a whole number.
LEMMA RoundNat == \A x \in Nat : Round(x) \in Nat
BY DEF Round

\* A draw never withholds more than it bills.
LEMMA RoundPart == ASSUME NEW g \in Nat, NEW r \in 0..100 PROVE Round(g * r) <= g
<1>1. g * r <= g * 100 /\ g * r \in Nat
  OBVIOUS
<1>2. \A x \in Nat : x <= g * 100 => (2 * x + 100) \div 200 <= g
  OBVIOUS
<1> QED
  BY <1>1, <1>2 DEF Round

\* The invoice calculateProgressDraw leads to is well formed.
LEMMA DrawTyped ==
    ASSUME NEW r \in Request, r.from < r.to
    PROVE  DrawOf(r) \in Invoice
<1> DEFINE g == Gross(r.from, r.to)
           w == Retained(g, r.retain)
<1>1. r.to - r.from \in Nat /\ r.from \in 0..100 /\ r.to \in 0..100 /\ r.retain \in 0..100
  BY DEF Request
<1>2. Contract * (r.to - r.from) \in Nat
  BY <1>1, ProgressAssumption
<1>3. g \in Nat
  BY <1>2, RoundNat DEF Gross
<1> HIDE DEF g
<1>4. w \in Nat /\ w <= g
  <2>1. g * r.retain \in Nat
    BY <1>1, <1>3
  <2> QED
    BY <2>1, <1>1, <1>3, RoundNat, RoundPart DEF Retained
<1> HIDE DEF w
<1>5. Net(g, w) \in Nat
  BY <1>3, <1>4 DEF Net
<1> QED
  BY <1>1, <1>3, <1>4, <1>5, ProgressAssumption DEF DrawOf, Invoice, Kinds, g, w

\* An invoice of the estimate is replaced by another of the same kind and slice.
LEMMA RowTyped ==
    ASSUME TypeOK, NEW k \in Ids, NEW row \in Invoice, inv' = [inv EXCEPT ![k] = row]
    PROVE  inv' \in Seq(Invoice) /\ Ids' = Ids /\ \A j \in Ids : inv'[j] = IF j = k THEN row ELSE inv[j]
BY DEF TypeOK, Ids

\* The rows that send, void and chargeLateFee write.
LEMMA RowsWritten ==
    ASSUME NEW row \in Invoice
    PROVE  /\ \A t \in {"draft", "sent", "void"} : [row EXCEPT !.status = t] \in Invoice
           /\ \A fee \in Nat : row.fees < MaxFees =>
                 [row EXCEPT !.total = @ + fee, !.fees = @ + 1] \in Invoice
<1>1. \A t \in {"draft", "sent", "void"} : [row EXCEPT !.status = t] \in Invoice
  BY DEF Invoice
<1>2. ASSUME NEW fee \in Nat, row.fees < MaxFees
      PROVE  [row EXCEPT !.total = @ + fee, !.fees = @ + 1] \in Invoice
  <2>1. row.total \in Nat /\ row.fees \in 0..MaxFees
    BY DEF Invoice
  <2>2. row.total + fee \in Nat /\ row.fees + 1 \in 0..MaxFees
    BY <2>1, <1>2, ProgressAssumption
  <2> QED
    BY <2>2 DEF Invoice
<1> QED
  BY <1>1, <1>2

\* What an action that rewrites one row does to it: its kind, slice and
\* gross stay, its total may grow, and a void row stays void.
RewritesRow(k) ==
    /\ UNCHANGED req
    /\ \E row \in Invoice :
          /\ inv' = [inv EXCEPT ![k] = row]
          /\ row.kind = inv[k].kind /\ row.from = inv[k].from /\ row.to = inv[k].to
          /\ row.gross = inv[k].gross /\ row.total >= inv[k].total
          /\ inv[k].status = "void" => row.status = "void"

\* send, void and chargeLateFee rewrite one row.
LEMMA Rewrites ==
    ASSUME TypeOK, NEW h \in Handlers, NEW k \in Ids,
           Send(h, k) \/ Void(h, k) \/ \E fee \in Fees : ChargeLateFee(h, k, fee)
    PROVE  RewritesRow(k)
<1>1. inv[k] \in Invoice
  BY DEF TypeOK, Ids
<1>2. CASE Send(h, k)
  <2>1. PICK row : row = [inv[k] EXCEPT !.status = "sent"]
    OBVIOUS
  <2>2. row \in Invoice /\ inv' = [inv EXCEPT ![k] = row] /\ inv[k].status # "void"
    BY <1>1, <1>2, <2>1, RowsWritten DEF Send
  <2>3. /\ row.kind = inv[k].kind /\ row.from = inv[k].from /\ row.to = inv[k].to
        /\ row.gross = inv[k].gross /\ row.total = inv[k].total /\ inv[k].total \in Nat
    BY <1>1, <2>1 DEF Invoice
  <2>4. row.total >= inv[k].total
    BY <2>3
  <2> QED
    BY <1>2, <2>2, <2>3, <2>4 DEF RewritesRow, Send
<1>3. CASE Void(h, k)
  <2>1. PICK row : row = [inv[k] EXCEPT !.status = "void"]
    OBVIOUS
  <2>2. row \in Invoice /\ inv' = [inv EXCEPT ![k] = row] /\ inv[k].status # "void"
    BY <1>1, <1>3, <2>1, RowsWritten DEF Void
  <2>3. /\ row.kind = inv[k].kind /\ row.from = inv[k].from /\ row.to = inv[k].to
        /\ row.gross = inv[k].gross /\ row.total = inv[k].total /\ inv[k].total \in Nat
    BY <1>1, <2>1 DEF Invoice
  <2>4. row.total >= inv[k].total
    BY <2>3
  <2> QED
    BY <1>3, <2>2, <2>3, <2>4 DEF RewritesRow, Void
<1>4. ASSUME NEW fee \in Fees, ChargeLateFee(h, k, fee) PROVE RewritesRow(k)
  <2>1. PICK row : row = [inv[k] EXCEPT !.total = @ + fee, !.fees = @ + 1]
    OBVIOUS
  <2>2. row \in Invoice /\ inv[k].status # "void"
    BY <1>1, <1>4, <2>1, RowsWritten, ProgressAssumption DEF ChargeLateFee
  <2>3. inv' = [inv EXCEPT ![k] = row]
    BY <1>1, <1>4, <2>1 DEF ChargeLateFee, Invoice
  <2>4. /\ row.kind = inv[k].kind /\ row.from = inv[k].from /\ row.to = inv[k].to
        /\ row.gross = inv[k].gross /\ row.total = inv[k].total + fee /\ inv[k].total \in Nat
    BY <1>1, <2>1 DEF Invoice
  <2>5. row.total >= inv[k].total
    BY <2>4, ProgressAssumption
  <2> QED
    BY <1>4, <2>2, <2>3, <2>4, <2>5 DEF RewritesRow, ChargeLateFee
<1> QED
  BY <1>2, <1>3, <1>4

\* Every step keeps the types, and every draw begun bills something.
LEMMA NextTyped == TypeInv /\ [Next]_vars => TypeInv'
<1> SUFFICES ASSUME TypeInv, [Next]_vars PROVE TypeInv'
  OBVIOUS
<1> USE DEF TypeInv
<1>1. CASE UNCHANGED vars
  BY <1>1 DEF vars, TypeOK, DrawsForward
<1>2. ASSUME NEW h \in Handlers, NEW last \in Percents \union {0}, NEW p \in Percents,
             NEW r \in RetainagePercents, BeginDraw(h, last, p, r)
      PROVE  TypeInv'
  <2>1. [op |-> "draw", from |-> last, to |-> p, retain |-> r, amount |-> 0] \in Request
    BY ProgressAssumption DEF Request, Kinds
  <2> QED
    BY <1>2, <2>1 DEF BeginDraw, TypeOK, DrawsForward
<1>3. Idle \in Request
  BY DEF Idle, Request
<1>4. ASSUME NEW h \in Handlers, CommitDraw(h) PROVE TypeInv'
  <2>1. req[h] \in Request /\ req[h].from < req[h].to
    BY <1>4 DEF CommitDraw, TypeOK, DrawsForward
  <2>2. DrawOf(req[h]) \in Invoice
    BY <2>1, DrawTyped
  <2>3. TypeOK'
    BY <1>3, <1>4, <2>2 DEF CommitDraw, TypeOK
  <2>4. DrawsForward'
    BY <1>4 DEF CommitDraw, DrawsForward, TypeOK, Idle
  <2> QED
    BY <2>3, <2>4
<1>5. ASSUME NEW h \in Handlers, NEW a \in 1..(Contract + MaxDraws), BeginRelease(h, a)
      PROVE  TypeInv'
  <2>1. [op |-> "release", from |-> 0, to |-> 0, retain |-> 0, amount |-> a] \in Request
    BY ProgressAssumption DEF Request, Kinds
  <2> QED
    BY <1>5, <2>1 DEF BeginRelease, TypeOK, DrawsForward
<1>6. ASSUME NEW h \in Handlers, CommitRelease(h) PROVE TypeInv'
  <2>1. req[h] \in Request
    BY DEF TypeOK
  <2>2. ReleaseOf(req[h]) \in Invoice
    BY <2>1, ProgressAssumption DEF ReleaseOf, Request, Invoice, Kinds
  <2>3. TypeOK'
    BY <1>3, <1>6, <2>2 DEF CommitRelease, TypeOK
  <2>4. DrawsForward'
    BY <1>6 DEF CommitRelease, DrawsForward, TypeOK, Idle
  <2> QED
    BY <2>3, <2>4
<1>7. ASSUME NEW k \in Ids, RewritesRow(k) PROVE TypeInv'
  BY <1>7, RowTyped DEF RewritesRow, TypeOK, DrawsForward
<1>8. ASSUME NEW h \in Handlers, NEW k \in Ids,
             Send(h, k) \/ Void(h, k) \/ \E f \in Fees : ChargeLateFee(h, k, f)
      PROVE  RewritesRow(k)
  BY <1>8, Rewrites
<1>9. ASSUME NEW h \in Handlers, Fail(h) PROVE TypeInv'
  BY <1>3, <1>9 DEF Fail, TypeOK, DrawsForward, Idle
<1> QED
  BY <1>1, <1>2, <1>4, <1>5, <1>6, <1>7, <1>8, <1>9 DEF Next

\* The invoices of an estimate, and what its draws bill, are well formed: a
\* draw never withholds more than it bills, however requests overlap.
THEOREM TypeCorrect == Spec => []TypeOK
<1>1. Init => TypeInv
  BY DEF Init, TypeInv, TypeOK, DrawsForward, Idle, Request
<1>2. TypeInv => TypeOK
  BY DEF TypeInv
<1> QED
  BY <1>1, <1>2, NextTyped, PTL DEF Spec

-----------------------------------------------------------------------------
(***************************************************************************)
(* Slices.                                                                 *)
(***************************************************************************)

\* A new invoice that is not a draw, or none: the draws that count stay.
LEMMA SlicesKept ==
    ASSUME SliceInv, TypeInv',
           \A k \in Live("draw")' : k \in Live("draw") /\ inv'[k].to = inv[k].to
                                                     /\ inv'[k].from = inv[k].from,
           \A h \in Handlers : req'[h].op = "draw" => req'[h] = req[h]
    PROVE  SliceInv'
<1>1. DisjointSlices'
  BY DEF SliceInv, DisjointSlices
<1>2. StartsAbove'
  BY DEF SliceInv, StartsAbove
<1> QED
  BY <1>1, <1>2 DEF SliceInv

\* One request at a time keeps the slices apart.
LEMMA NextSlices == ASSUME Serial PROVE SliceInv /\ [Next]_vars => SliceInv'
<1> SUFFICES ASSUME SliceInv, [Next]_vars PROVE SliceInv'
  OBVIOUS
<1>0. TypeInv' /\ TypeOK /\ TypeOK'
  BY NextTyped DEF SliceInv, TypeInv
<1>1. CASE UNCHANGED vars
  BY <1>1, <1>0, SlicesKept DEF vars, Live, Ids
<1>2. ASSUME NEW h \in Handlers, NEW last \in Percents \union {0}, NEW p \in Percents,
             NEW r \in RetainagePercents, BeginDraw(h, last, p, r)
      PROVE  SliceInv'
  <2>1. inv' = inv /\ Live("draw")' = Live("draw")
    BY <1>2 DEF BeginDraw, Live, Ids
  <2>2. \A k \in Live("draw") : inv[k].to <= last
    BY <1>2 DEF BeginDraw, LastPercent
  <2>3. \A g \in Handlers : req'[g].from = last
    BY <1>0, <1>2 DEF BeginDraw, Serial, TypeOK
  <2>4. StartsAbove'
    BY <2>1, <2>2, <2>3 DEF StartsAbove
  <2>5. DisjointSlices'
    BY <2>1 DEF DisjointSlices, SliceInv
  <2> QED
    BY <1>0, <2>4, <2>5 DEF SliceInv
<1>3. ASSUME NEW h \in Handlers, CommitDraw(h) PROVE SliceInv'
  <2> DEFINE n == Len(inv) + 1
             r == req[h]
  <2>1. /\ Len(inv) \in Nat /\ Len(inv') = n
        /\ \A k \in Ids : inv'[k] = inv[k]
        /\ inv'[n] = DrawOf(r)
    BY <1>0, <1>3 DEF CommitDraw, TypeOK, Ids
  <2>2. inv'[n].from = r.from /\ inv'[n].to = r.to
    BY <2>1 DEF DrawOf
  <2>3. \A k \in Live("draw")' : k = n \/ (k \in Live("draw") /\ inv'[k] = inv[k])
    BY <2>1 DEF Live, Ids
  <2>4. \A k \in Live("draw") : inv[k].to <= r.from
    BY <1>3 DEF CommitDraw, SliceInv, StartsAbove
  <2> HIDE DEF n
  <2>5. DisjointSlices'
    BY <2>2, <2>3, <2>4 DEF DisjointSlices, SliceInv
  <2>6. \A g \in Handlers : req'[g].op # "draw"
    BY <1>0, <1>3 DEF CommitDraw, Serial, TypeOK, Idle
  <2>7. StartsAbove'
    BY <2>6 DEF StartsAbove
  <2> QED
    BY <1>0, <2>5, <2>7 DEF SliceInv
<1>4. ASSUME NEW h \in Handlers, NEW a \in 1..(Contract + MaxDraws), BeginRelease(h, a)
      PROVE  SliceInv'
  <2>1. inv' = inv /\ Live("draw")' = Live("draw")
    BY <1>4 DEF BeginRelease, Live, Ids
  <2>2. \A g \in Handlers : req'[g].op = "draw" => req'[g] = req[g]
    BY <1>0, <1>4 DEF BeginRelease, TypeOK
  <2> QED
    BY <1>0, <2>1, <2>2, SlicesKept
<1>5. ASSUME NEW h \in Handlers, CommitRelease(h) PROVE SliceInv'
  <2> DEFINE n == Len(inv) + 1
  <2>1. /\ Len(inv) \in Nat /\ Len(inv') = n
        /\ \A k \in Ids : inv'[k] = inv[k]
        /\ inv'[n] = ReleaseOf(req[h])
    BY <1>0, <1>5 DEF CommitRelease, TypeOK, Ids
  <2>2. inv'[n].kind = "release"
    BY <2>1 DEF ReleaseOf
  <2>3. \A k \in Live("draw")' : k \in Live("draw") /\ inv'[k] = inv[k]
    BY <2>1, <2>2 DEF Live, Ids
  <2>4. \A g \in Handlers : req'[g].op = "draw" => req'[g] = req[g]
    BY <1>0, <1>5 DEF CommitRelease, TypeOK, Idle
  <2> QED
    BY <1>0, <2>3, <2>4, SlicesKept
<1>6. ASSUME NEW k \in Ids, RewritesRow(k) PROVE SliceInv'
  <2>1. PICK row \in Invoice :
              /\ inv' = [inv EXCEPT ![k] = row]
              /\ row.kind = inv[k].kind /\ row.from = inv[k].from /\ row.to = inv[k].to
              /\ row.gross = inv[k].gross /\ row.total >= inv[k].total
              /\ inv[k].status = "void" => row.status = "void"
    BY <1>6 DEF RewritesRow
  <2>2. Ids' = Ids /\ \A j \in Ids : inv'[j] = IF j = k THEN row ELSE inv[j]
    BY <1>0, <2>1, RowTyped
  <2>3. \A j \in Live("draw")' : /\ j \in Live("draw") /\ inv'[j].to = inv[j].to
                                 /\ inv'[j].from = inv[j].from
    BY <2>1, <2>2 DEF Live
  <2>4. req' = req
    BY <1>6 DEF RewritesRow
  <2> QED
    BY <1>0, <2>3, <2>4, SlicesKept
<1>7. ASSUME NEW h \in Handlers, NEW k \in Ids,
             Send(h, k) \/ Void(h, k) \/ \E f \in Fees : ChargeLateFee(h, k, f)
      PROVE  SliceInv'
  BY <1>0, <1>6, <1>7, Rewrites
<1>8. ASSUME NEW h \in Handlers, Fail(h) PROVE SliceInv'
  <2>1. inv' = inv /\ Live("draw")' = Live("draw")
    BY <1>8 DEF Fail, Live, Ids
  <2>2. \A g \in Handlers : req'[g].op = "draw" => req'[g] = req[g]
    BY <1>0, <1>8 DEF Fail, TypeOK, Idle
  <2> QED
    BY <1>0, <2>1, <2>2, SlicesKept
<1> QED
  BY <1>1, <1>2, <1>3, <1>4, <1>5, <1>7, <1>8 DEF Next

\* With one request at a time no part of a contract is billed twice, whatever
\* is voided in between (generateProgressInvoice).
THEOREM NoSliceBilledTwice == ASSUME Serial PROVE Spec => []DisjointSlices
<1>1. Init => SliceInv
  BY DEF Init, SliceInv, TypeInv, TypeOK, DrawsForward, StartsAbove, DisjointSlices, Idle, Request,
         Live, Ids
<1>2. SliceInv => DisjointSlices
  BY DEF SliceInv
<1> QED
  BY <1>1, <1>2, NextSlices, PTL DEF Spec

-----------------------------------------------------------------------------
(***************************************************************************)
(* Sums.                                                                   *)
(***************************************************************************)

\* Induction on the naturals, for sets.
LEMMA SetInduction ==
    ASSUME NEW T, 0 \in T, \A n \in Nat : n \in T => n + 1 \in T
    PROVE  Nat \subseteq T
<1> SUFFICES ASSUME Nat \ T # {} PROVE FALSE  OBVIOUS
<1>1. PICK R : R = OpToRel(<, Nat)
  OBVIOUS
<1>2. IsWellFoundedOn(R, Nat)
  BY <1>1, NatLessThanWellFounded
<1>3. PICK x \in Nat \ T : \A y \in Nat \ T : ~(<<y, x>> \in R)
  <2>1. PICK B : B = Nat \ T
    OBVIOUS
  <2>2. B \subseteq Nat /\ B # {}
    BY <2>1
  <2>3. \E x \in B : \A y \in B : ~(<<y, x>> \in R)
    BY <1>2, <2>2, WFMin
  <2> QED BY <2>1, <2>3
<1>4. \A y \in Nat : y < x => <<y, x>> \in R
  BY <1>1 DEF OpToRel
<1>5. x - 1 \in Nat /\ x - 1 < x /\ x - 1 + 1 = x
  OBVIOUS
<1>6. x - 1 \in T
  BY <1>3, <1>4, <1>5
<1> QED BY <1>5, <1>6

\* A recursive function unfolds.
LEMMA PartialSumsUnfold ==
    ASSUME NEW f, Len(f) \in Nat
    PROVE  PartialSums(f) = [n \in 0..Len(f) |->
              IF n = 0 THEN 0 ELSE PartialSums(f)[n - 1] + f[n]]
<1> DEFINE Is(g, m) == g = [n \in 0..m |-> IF n = 0 THEN 0 ELSE g[n - 1] + f[n]]
             T == {m \in Nat : \E g : Is(g, m)}
<1>1. 0 \in T
  <2> DEFINE g == [n \in 0..0 |-> 0]
  <2>1. Is(g, 0)
    OBVIOUS
  <2> QED BY <2>1
<1>2. ASSUME NEW m \in T PROVE m + 1 \in T
  <2>1. PICK g : Is(g, m)
    OBVIOUS
  <2> DEFINE h == [n \in 0..(m + 1) |-> IF n = m + 1 THEN g[m] + f[m + 1] ELSE g[n]]
               u == [n \in 0..(m + 1) |-> IF n = 0 THEN 0 ELSE h[n - 1] + f[n]]
  <2>2. m \in Nat /\ DOMAIN g = 0..m
    BY <2>1
  <2>3. ASSUME NEW n \in 0..(m + 1) PROVE h[n] = IF n = 0 THEN 0 ELSE h[n - 1] + f[n]
    <3>1. CASE n = 0
      BY <2>1, <2>2, <3>1
    <3>2. CASE n \in 1..m
      <4>1. n \in 0..m /\ n - 1 \in 0..m /\ n # m + 1 /\ n - 1 # m + 1 /\ n - 1 \in 0..(m + 1)
        BY <2>2, <3>2
      <4>2. g[n] = g[n - 1] + f[n]
        BY <2>1, <3>2, <4>1
      <4> QED BY <4>1, <4>2, <3>2
    <3>3. CASE n = m + 1
      <4>1. n - 1 = m /\ m # m + 1 /\ m \in 0..(m + 1) /\ n # 0
        BY <2>2, <3>3
      <4> QED BY <4>1, <3>3
    <3> QED BY <2>2, <3>1, <3>2, <3>3
  <2>4. h = u
    <3>1. \A n \in 0..(m + 1) : u[n] = IF n = 0 THEN 0 ELSE h[n - 1] + f[n]
      OBVIOUS
    <3>2. \A n \in 0..(m + 1) : h[n] = u[n]
      BY <2>3, <3>1
    <3>3. h = [n \in 0..(m + 1) |-> h[n]] /\ u = [n \in 0..(m + 1) |-> u[n]]
      OBVIOUS
    <3> HIDE DEF h, u
    <3> QED BY <3>2, <3>3
  <2>5. Is(h, m + 1)
    BY <2>4
  <2> HIDE DEF h, u
  <2>6. \E x : Is(x, m + 1)
    BY <2>5
  <2> QED BY <2>2, <2>6
<1>3. Nat \subseteq T
  <2> HIDE DEF T
  <2> QED BY <1>1, <1>2, SetInduction
<1>4. \E g : Is(g, Len(f))
  BY <1>3
<1>5. PartialSums(f) = CHOOSE g : Is(g, Len(f))
  BY DEF PartialSums
<1>6. Is(PartialSums(f), Len(f))
  <2> HIDE DEF Is
  <2> QED BY <1>4, <1>5
<1> QED BY <1>6

\* The sums of whole numbers are whole numbers, one element at a time.
LEMMA PartialSumsStep ==
    ASSUME NEW f, Len(f) \in Nat
    PROVE  /\ PartialSums(f)[0] = 0
           /\ \A n \in 1..Len(f) : PartialSums(f)[n] = PartialSums(f)[n - 1] + f[n]
<1> DEFINE s == PartialSums(f)
<1>1. s = [n \in 0..Len(f) |-> IF n = 0 THEN 0 ELSE s[n - 1] + f[n]]
  BY PartialSumsUnfold
<1> HIDE DEF s
<1>2. s[0] = 0
  BY <1>1
<1>3. \A n \in 1..Len(f) : s[n] = s[n - 1] + f[n]
  BY <1>1
<1> QED BY <1>2, <1>3 DEF s

LEMMA TotalNat ==
    ASSUME NEW f \in Seq(Nat)
    PROVE  /\ Total(f) \in Nat
           /\ \A n \in 0..Len(f) : PartialSums(f)[n] \in Nat
<1> DEFINE s == PartialSums(f)
             T == {n \in Nat : n <= Len(f) => s[n] \in Nat}
<1>1. Len(f) \in Nat /\ \A n \in 1..Len(f) : f[n] \in Nat
  OBVIOUS
<1>2. s[0] = 0 /\ \A n \in 1..Len(f) : s[n] = s[n - 1] + f[n]
  BY <1>1, PartialSumsStep
<1> HIDE DEF s
<1>3. 0 \in T
  BY <1>2
<1>4. ASSUME NEW n \in Nat, n \in T PROVE n + 1 \in T
  <2> SUFFICES ASSUME n + 1 <= Len(f) PROVE s[n + 1] \in Nat
    OBVIOUS
  <2>1. s[n] \in Nat /\ n + 1 \in 1..Len(f) /\ n + 1 - 1 = n
    BY <1>1, <1>4
  <2>2. s[n + 1] = s[n] + f[n + 1]
    BY <1>2, <2>1
  <2> QED BY <1>1, <2>1, <2>2
<1>5. Nat \subseteq T
  <2> HIDE DEF T
  <2> QED BY <1>3, <1>4, SetInduction
<1> QED BY <1>1, <1>5 DEF Total, s

\* Sequences that agree up to n have the same sums up to n.
LEMMA TotalMonotone ==
    ASSUME NEW f \in Seq(Nat), NEW g \in Seq(Nat), NEW m \in Nat, m <= Len(f), m <= Len(g),
           \A k \in 1..m : f[k] <= g[k]
    PROVE  PartialSums(f)[m] <= PartialSums(g)[m]
<1> DEFINE s == PartialSums(f)
             t == PartialSums(g)
             T == {n \in Nat : n <= m => s[n] <= t[n]}
<1>1. /\ Len(f) \in Nat /\ \A n \in 1..Len(f) : f[n] \in Nat
      /\ Len(g) \in Nat /\ \A n \in 1..Len(g) : g[n] \in Nat
  OBVIOUS
<1>2. s[0] = 0 /\ \A n \in 1..Len(f) : s[n] = s[n - 1] + f[n]
  BY <1>1, PartialSumsStep
<1>3. t[0] = 0 /\ \A n \in 1..Len(g) : t[n] = t[n - 1] + g[n]
  BY <1>1, PartialSumsStep
<1>4. /\ \A n \in 0..Len(f) : s[n] \in Nat
      /\ \A n \in 0..Len(g) : t[n] \in Nat
  BY TotalNat
<1> HIDE DEF s, t
<1>5. 0 \in T
  BY <1>2, <1>3
<1>6. ASSUME NEW n \in Nat, n \in T PROVE n + 1 \in T
  <2> SUFFICES ASSUME n + 1 <= m PROVE s[n + 1] <= t[n + 1]
    OBVIOUS
  <2>1. /\ s[n] <= t[n] /\ n + 1 \in 1..m /\ n + 1 - 1 = n
        /\ n + 1 \in 1..Len(f) /\ n + 1 \in 1..Len(g) /\ n \in 0..Len(f) /\ n \in 0..Len(g)
    BY <1>1, <1>6
  <2>2. s[n + 1] = s[n] + f[n + 1] /\ t[n + 1] = t[n] + g[n + 1]
    BY <1>2, <1>3, <2>1
  <2>3. f[n + 1] <= g[n + 1] /\ f[n + 1] \in Nat /\ g[n + 1] \in Nat /\ s[n] \in Nat /\ t[n] \in Nat
    BY <1>1, <1>4, <2>1
  <2>4. \A a, b, c, d \in Nat : a <= b /\ c <= d => a + c <= b + d
    OBVIOUS
  <2>5. s[n] + f[n + 1] <= t[n] + g[n + 1]
    BY <2>1, <2>3, <2>4
  <2> QED BY <2>2, <2>5
<1>7. Nat \subseteq T
  <2> HIDE DEF T
  <2> QED BY <1>5, <1>6, SetInduction
<1> QED BY <1>7 DEF s, t

\* One more element.
LEMMA TotalAppend ==
    ASSUME NEW f \in Seq(Nat), NEW g \in Seq(Nat), Len(g) = Len(f) + 1,
           \A k \in 1..Len(f) : f[k] = g[k]
    PROVE  Total(g) = Total(f) + g[Len(g)]
<1>1. Len(f) \in Nat /\ Len(f) <= Len(g) /\ Len(g) \in 1..Len(g) /\ Len(g) - 1 = Len(f)
      /\ Len(f) \in 0..Len(f) /\ Len(f) \in 0..Len(g)
  OBVIOUS
<1>2. \A k \in 1..Len(f) : f[k] <= g[k] /\ g[k] <= f[k]
  BY SMTT(30)
<1>a. PICK m \in Nat : m = Len(f)
  BY <1>1
<1>b. m <= Len(f) /\ m <= Len(g) /\ \A k \in 1..m : f[k] <= g[k] /\ g[k] <= f[k]
  BY <1>a, <1>1, <1>2
<1>c. PartialSums(f)[m] <= PartialSums(g)[m]
  BY <1>b, TotalMonotone
<1>d. PartialSums(g)[m] <= PartialSums(f)[m]
  BY <1>b, TotalMonotone
<1>3. PartialSums(f)[Len(f)] <= PartialSums(g)[Len(f)]
  BY <1>a, <1>c
<1>4. PartialSums(g)[Len(f)] <= PartialSums(f)[Len(f)]
  BY <1>a, <1>d
<1>5. PartialSums(f)[Len(f)] \in Nat /\ PartialSums(g)[Len(f)] \in Nat
  BY <1>1, TotalNat
<1>6. PartialSums(f)[Len(f)] = PartialSums(g)[Len(f)]
  BY <1>3, <1>4, <1>5
<1>7. PartialSums(g)[Len(g)] = PartialSums(g)[Len(f)] + g[Len(g)]
  <2>a. Len(g) \in Nat
    OBVIOUS
  <2>1. \A n \in 1..Len(g) : PartialSums(g)[n] = PartialSums(g)[n - 1] + g[n]
    BY ONLY <2>a, PartialSumsStep, ZenonT(30)
  <2>2. PartialSums(g)[Len(g)] = PartialSums(g)[Len(g) - 1] + g[Len(g)]
    BY ONLY <1>1, <2>1
  <2> QED BY ONLY <1>1, <2>2
<1> QED BY <1>6, <1>7 DEF Total

-----------------------------------------------------------------------------
(***************************************************************************)
(* What the draws bill together.                                           *)
(***************************************************************************)

\* The draws that count are in the order of their slices, and each bills its own.
InOrder == \A j, k \in Live("draw") : j < k => inv[j].to <= inv[k].from
Priced ==
    \A k \in Ids : inv[k].kind = "draw" =>
        inv[k].from <= inv[k].to /\ inv[k].gross = Gross(inv[k].from, inv[k].to)

BillInv == SliceInv /\ InOrder /\ Priced

\* What SumOf adds up, as a sequence of amounts.
LEMMA Summands ==
    ASSUME TypeOK, NEW S, NEW f, \A k \in Ids : f[k] \in Nat
    PROVE  /\ [k \in Ids |-> IF k \in S THEN f[k] ELSE 0] \in Seq(Nat)
           /\ Len([k \in Ids |-> IF k \in S THEN f[k] ELSE 0]) = Len(inv)
<1>1. PICK n : n = Len(inv)
  OBVIOUS
<1>2. n \in Nat /\ Ids = 1..n
  BY <1>1 DEF TypeOK, Ids
<1>3. PICK g : g = [k \in 1..n |-> IF k \in S THEN f[k] ELSE 0]
  OBVIOUS
<1>4. g \in [1..n -> Nat]
  BY <1>2, <1>3
<1>5. g \in Seq(Nat) /\ Len(g) = n
  BY <1>2, <1>4
<1> QED BY <1>1, <1>2, <1>3, <1>5

\* Half a cent at most is added to a hundredth.
LEMMA RoundUp == ASSUME NEW x \in Nat PROVE 200 * Round(x) <= 2 * x + 100
  BY DEF Round

\* The part of a percentage that was billed before and the part billed now.
LEMMA SliceOf ==
    ASSUME NEW from \in 0..100, NEW to \in 0..100, from <= to
    PROVE  /\ Contract * from \in Nat /\ Contract * to \in Nat /\ Contract * (to - from) \in Nat
           /\ Contract * (to - from) = Contract * to - Contract * from
           /\ Contract * from <= Contract * to
<1>1. \A c, d \in Nat : c * d \in Nat
  OBVIOUS
<1>2. Contract \in Nat /\ from \in Nat /\ to \in Nat /\ to - from \in Nat
  BY ProgressAssumption
<1>3. /\ Contract * from \in Nat /\ Contract * to \in Nat /\ Contract * (to - from) \in Nat
  BY <1>1, <1>2
<1>4. Contract * (to - from) = Contract * to - Contract * from
  BY <1>2
<1> QED BY <1>3, <1>4

\* Induction over the invoices: the first n of them bill no more than the percentage
\* their draws have reached, and half a cent for each.
LEMMA BilledUpTo ==
    ASSUME BillInv, NEW p \in 0..100, \A k \in Live("draw") : inv[k].to <= p
    PROVE  200 * SumOf([k \in Ids |-> inv[k].gross], Live("draw"))
             <= 2 * (Contract * p) + 100 * Cardinality(Live("draw"))
<1>1. PICK N, D : N = Len(inv) /\ D = Live("draw")
  OBVIOUS
<1>2. TypeOK /\ N \in Nat /\ Ids = 1..N /\ D \subseteq 1..N
  BY <1>1 DEF BillInv, SliceInv, TypeInv, TypeOK, Ids, Live
<1>3. \A k \in Ids : inv[k] \in Invoice
  BY <1>2 DEF TypeOK, Ids
<1>4. PICK f : f = [k \in Ids |-> inv[k].gross]
  OBVIOUS
<1>5. \A k \in Ids : f[k] = inv[k].gross /\ f[k] \in Nat
  BY <1>3, <1>4 DEF Invoice
<1>6. PICK g : g = [k \in Ids |-> IF k \in D THEN f[k] ELSE 0]
  OBVIOUS
<1>7. g \in Seq(Nat) /\ Len(g) = N
  BY <1>1, <1>2, <1>5, <1>6, Summands
<1>8. \A k \in 1..N : g[k] = IF k \in D THEN inv[k].gross ELSE 0
  BY <1>2, <1>5, <1>6
<1>9. PICK t : t = PartialSums(g)
  OBVIOUS
<1>10. t[0] = 0 /\ \A n \in 1..N : t[n] = t[n - 1] + g[n]
  BY <1>2, <1>7, <1>9, PartialSumsStep
<1>11. \A n \in 0..N : t[n] \in Nat
  BY <1>7, <1>9, TotalNat
<1> DEFINE Upto(n) == {k \in D : k <= n}
           Reach(n, q) == \A k \in Upto(n) : inv[k].to <= q
           Bound(n) == \A q \in 0..100 : Reach(n, q) =>
                          200 * t[n] <= 2 * (Contract * q) + 100 * Cardinality(Upto(n))
           T == {n \in Nat : n <= N => Bound(n)}
<1>12. \A n \in Nat : IsFiniteSet(Upto(n)) /\ Cardinality(Upto(n)) \in Nat
  <2> TAKE n \in Nat
  <2>1. Upto(n) \subseteq 1..N
    BY <1>2
  <2>2. IsFiniteSet(1..N)
    BY <1>2, 1 \in Int, N \in Int, FS_Interval
  <2> HIDE DEF Upto
  <2> QED BY <2>1, <2>2, FS_Subset, FS_CardinalityType
<1>13. 0 \in T
  <2> SUFFICES ASSUME NEW q \in 0..100
               PROVE  200 * t[0] <= 2 * (Contract * q) + 100 * Cardinality(Upto(0))
    OBVIOUS
  <2>1. q <= q
    BY SMTT(30)
  <2>a. Contract * q \in Nat
    BY <2>1, SliceOf
  <2>2. Cardinality(Upto(0)) \in Nat
    BY <1>12
  <2> HIDE DEF Upto
  <2> QED BY <1>10, <2>a, <2>2, SMTT(30)
<1>14. ASSUME NEW n \in Nat, n \in T PROVE n + 1 \in T
  <2> SUFFICES ASSUME n + 1 <= N, NEW q \in 0..100, Reach(n + 1, q)
               PROVE  200 * t[n + 1] <= 2 * (Contract * q) + 100 * Cardinality(Upto(n + 1))
    OBVIOUS
  <2>1. n + 1 \in 1..N /\ n \in 0..N /\ n <= N /\ n + 1 - 1 = n
    BY <1>2
  <2>a. \A k \in D : k \in Int /\ (k <= n + 1 <=> k <= n \/ k = n + 1)
    BY <1>2
  <2>2. Bound(n)
    BY <1>14, <2>1
  <2>3. t[n + 1] = t[n] + g[n + 1] /\ t[n] \in Nat
    BY <1>10, <1>11, <2>1
  <2>4. CASE n + 1 \notin D
    <3>1. Upto(n + 1) = Upto(n)
      BY <2>a, <2>4
    <3>2. Reach(n, q)
      BY <3>1
    <3>3. t[n + 1] = t[n]
      BY <1>8, <2>1, <2>3, <2>4
    <3>4. 200 * t[n] <= 2 * (Contract * q) + 100 * Cardinality(Upto(n))
      BY <2>2, <3>2
    <3> QED BY <3>1, <3>3, <3>4
  <2>5. CASE n + 1 \in D
    <3>1. PICK row : row = inv[n + 1]
      OBVIOUS
    <3>2. row.from \in 0..100 /\ row.to \in 0..100 /\ row.gross \in Nat
      BY <1>2, <1>3, <2>1, <3>1 DEF Invoice
    <3>3. row.from <= row.to /\ row.gross = Gross(row.from, row.to)
      BY <1>1, <1>2, <2>1, <2>5, <3>1 DEF BillInv, Priced, Live
    <3>4. \A k \in Upto(n) : inv[k].to <= row.from
      BY <1>1, <1>2, <2>1, <2>5, <3>1 DEF BillInv, InOrder
    <3>5. 200 * t[n] <= 2 * (Contract * row.from) + 100 * Cardinality(Upto(n))
      BY <2>2, <3>2, <3>4
    <3>6. row.to <= q
      BY <1>2, <2>1, <2>5, <3>1
    <3>a. ~(n + 1 <= n)
      OBVIOUS
    <3>b. n + 1 \notin Upto(n)
      BY <3>a
    <3>c. Upto(n + 1) = Upto(n) \union {n + 1}
      BY <2>a, <2>5
    <3>7. Upto(n + 1) = Upto(n) \union {n + 1} /\ n + 1 \notin Upto(n)
      BY <3>b, <3>c
    <3>8. Cardinality(Upto(n + 1)) = Cardinality(Upto(n)) + 1
      <4> HIDE DEF Upto
      <4> QED BY <1>12, <3>7, FS_AddElement
    <3>9. PICK c, a, b, d \in Nat : /\ c = Cardinality(Upto(n)) /\ a = Contract * row.from
                                   /\ b = Contract * row.to /\ d = Contract * q
      <4>1. Cardinality(Upto(n)) \in Nat
        BY <1>12, SMTT(30)
      <4>2. Contract * row.from \in Nat /\ Contract * row.to \in Nat /\ Contract * q \in Nat
        BY <3>2, <3>3, <3>6, SliceOf, ZenonT(30)
      <4> HIDE DEF Upto
      <4> QED BY <4>1, <4>2
    <3>10. 200 * row.gross <= 2 * (b - a) + 100
      <4>1. Contract * (row.to - row.from) = b - a /\ Contract * (row.to - row.from) \in Nat
        BY <3>2, <3>3, <3>9, SliceOf, ZenonT(30)
      <4>2. row.gross = Round(Contract * (row.to - row.from))
        BY <3>3 DEF Gross
      <4> QED BY <4>1, <4>2, RoundUp
    <3>11. b <= d
      BY <3>2, <3>6, <3>9, SliceOf
    <3>12. t[n + 1] = t[n] + row.gross
      BY <1>8, <2>1, <2>3, <2>5, <3>1
    <3>13. PICK u \in Nat : u = t[n]
      BY <2>3
    <3>14. 200 * u <= 2 * a + 100 * c
      BY <3>5, <3>9, <3>13
    <3>15. 200 * (u + row.gross) <= 2 * d + 100 * (c + 1)
      BY <3>2, <3>10, <3>11, <3>14
    <3> HIDE DEF Upto
    <3> QED BY <3>8, <3>9, <3>12, <3>13, <3>15
  <2> QED BY <2>4, <2>5
<1>15. Nat \subseteq T
  <2> HIDE DEF T
  <2> QED BY <1>13, <1>14, SetInduction
<1>a. N <= N /\ \A k \in 1..N : k <= N
  BY <1>2
<1>16. Bound(N)
  <2>1. N \in T
    BY <1>2, <1>15
  <2> HIDE DEF Bound
  <2> QED BY <2>1, <1>a
<1>17. Upto(N) = D
  BY <1>2, <1>a
<1>18. 200 * t[N] <= 2 * (Contract * p) + 100 * Cardinality(D)
  <2>1. Reach(N, p)
    BY <1>1, <1>17
  <2> QED BY <1>16, <1>17, <2>1
<1>19. SumOf(f, D) = t[N]
  BY <1>6, <1>7, <1>9 DEF SumOf, Total
<1> QED BY <1>1, <1>4, <1>18, <1>19

\* What a step does to the invoices.
LEMMA StepsOfInvoices ==
    ASSUME TypeOK, [Next]_vars
    PROVE  \/ inv' = inv
           \/ \E h \in Handlers : CommitDraw(h)
           \/ \E h \in Handlers : CommitRelease(h)
           \/ \E k \in Ids : RewritesRow(k)
<1>1. CASE UNCHANGED vars
  BY <1>1 DEF vars
<1>2. CASE Next
  <2>1. PICK h \in Handlers :
            \/ \E last \in Percents \union {0}, p \in Percents, r \in RetainagePercents : BeginDraw(h, last, p, r)
            \/ CommitDraw(h)
            \/ \E a \in 1..(Contract + MaxDraws) : BeginRelease(h, a)
            \/ CommitRelease(h)
            \/ \E k \in Ids : Send(h, k) \/ Void(h, k) \/ \E f \in Fees : ChargeLateFee(h, k, f)
            \/ Fail(h)
    BY <1>2 DEF Next
  <2>2. (\E k \in Ids : Send(h, k) \/ Void(h, k) \/ \E f \in Fees : ChargeLateFee(h, k, f))
          => \E k \in Ids : RewritesRow(k)
    BY Rewrites
  <2>3. /\ \A last, p, r : BeginDraw(h, last, p, r) => inv' = inv
        /\ \A a : BeginRelease(h, a) => inv' = inv
        /\ Fail(h) => inv' = inv
    BY DEF BeginDraw, BeginRelease, Fail
  <2> QED
    BY <2>1, <2>2, <2>3
<1> QED
  BY <1>1, <1>2

\* A new invoice comes last and leaves the others as they were.
LEMMA Appended ==
    ASSUME TypeOK, NEW row, inv' = Append(inv, row)
    PROVE  /\ Len(inv) \in Nat /\ Len(inv') = Len(inv) + 1
           /\ Ids' = Ids \union {Len(inv) + 1} /\ Len(inv) + 1 \notin Ids
           /\ \A k \in Ids : inv'[k] = inv[k] /\ k < Len(inv) + 1
           /\ inv'[Len(inv) + 1] = row
<1>1. Len(inv) \in Nat /\ Len(inv') = Len(inv) + 1
  BY DEF TypeOK
<1>2. 1..(Len(inv) + 1) = (1..Len(inv)) \union {Len(inv) + 1} /\ Len(inv) + 1 \notin 1..Len(inv)
  BY <1>1
<1>3. \A k \in Ids : inv'[k] = inv[k] /\ k < Len(inv) + 1
  BY <1>1 DEF Ids, TypeOK
<1>4. inv'[Len(inv) + 1] = row
  BY <1>1 DEF TypeOK
<1> QED
  BY <1>1, <1>2, <1>3, <1>4 DEF Ids

\* One request at a time: draws that count are in order, and priced by their slices.
LEMMA NextBill == ASSUME Serial PROVE BillInv /\ [Next]_vars => BillInv'
<1> SUFFICES ASSUME BillInv, [Next]_vars PROVE BillInv'
  OBVIOUS
<1>1. SliceInv' /\ TypeOK /\ DrawsForward /\ StartsAbove
  BY NextSlices DEF BillInv, SliceInv, TypeInv
<1>2. CASE inv' = inv
  BY <1>1, <1>2 DEF BillInv, InOrder, Priced, Live, Ids
<1>3. ASSUME NEW h \in Handlers, CommitDraw(h) PROVE BillInv'
  <2>1. PICK n, r : n = Len(inv) + 1 /\ r = req[h]
    OBVIOUS
  <2>2. /\ Ids' = Ids \union {n} /\ n \notin Ids /\ \A k \in Ids : inv'[k] = inv[k] /\ k < n
        /\ inv'[n] = DrawOf(r) /\ n \in Int
    <3>1. inv' = Append(inv, DrawOf(r))
      BY <1>3, <2>1 DEF CommitDraw
    <3>2. Len(inv) \in Nat
      BY <1>1 DEF TypeOK
    <3>3. n \in Int
      BY <2>1, <3>2
    <3> QED BY <1>1, <2>1, <3>1, <3>3, Appended
  <2>3. r \in Request /\ r.from < r.to /\ r.from \in Int /\ r.to \in Int
    <3>1. r \in Request /\ r.from < r.to
      BY <1>1, <1>3, <2>1 DEF CommitDraw, TypeOK, DrawsForward
    <3>2. r.from \in 0..100 /\ r.to \in 0..100
      BY <3>1 DEF Request
    <3> QED BY <3>1, <3>2
  <2>4. /\ inv'[n].kind = "draw" /\ inv'[n].from = r.from /\ inv'[n].to = r.to
        /\ inv'[n].gross = Gross(r.from, r.to)
    BY <2>2 DEF DrawOf
  <2>5. Priced'
    <3> SUFFICES ASSUME NEW k \in Ids', inv'[k].kind = "draw"
                 PROVE  inv'[k].from <= inv'[k].to /\ inv'[k].gross = Gross(inv'[k].from, inv'[k].to)
      BY DEF Priced, Gross
    <3>1. CASE k = n
      BY <2>3, <2>4, <3>1
    <3>2. CASE k \in Ids
      BY <2>2, <3>2 DEF BillInv, Priced
    <3> QED BY <2>2, <3>1, <3>2
  <2>6. \A k \in Live("draw") : inv[k].to <= r.from
    BY <1>1, <1>3, <2>1 DEF CommitDraw, StartsAbove
  <2>7. \A k \in Live("draw")' : k = n \/ (k \in Live("draw") /\ k \in Ids /\ inv'[k] = inv[k])
    BY <2>2 DEF Live
  <2>8. InOrder'
    <3> SUFFICES ASSUME NEW j \in Live("draw")', NEW k \in Live("draw")', j < k
                 PROVE  inv'[j].to <= inv'[k].from
      BY DEF InOrder
    <3>1. \A i \in Ids : i \in Int
      BY DEF Ids
    <3>2. j # n
      BY <2>2, <2>7, <3>1
    <3>3. j \in Live("draw") /\ inv'[j] = inv[j]
      BY <2>7, <3>2
    <3>4. CASE k = n
      BY <2>4, <2>6, <3>3, <3>4
    <3>5. CASE k \in Live("draw") /\ inv'[k] = inv[k]
      BY <3>3, <3>5 DEF BillInv, InOrder
    <3> QED BY <2>7, <3>4, <3>5
  <2> QED BY <1>1, <2>5, <2>8 DEF BillInv
<1>4. ASSUME NEW h \in Handlers, CommitRelease(h) PROVE BillInv'
  <2>1. PICK n : n = Len(inv) + 1
    OBVIOUS
  <2>2. /\ Ids' = Ids \union {n} /\ n \notin Ids /\ \A k \in Ids : inv'[k] = inv[k]
        /\ inv'[n] = ReleaseOf(req[h])
    BY <1>1, <1>4, <2>1, Appended DEF CommitRelease
  <2>3. inv'[n].kind = "release"
    BY <2>2 DEF ReleaseOf
  <2>4. Priced'
    BY <2>2, <2>3 DEF BillInv, Priced, Gross
  <2>5. \A k \in Live("draw")' : k \in Live("draw") /\ inv'[k] = inv[k]
    BY <2>2, <2>3 DEF Live
  <2>6. InOrder'
    BY <2>5 DEF BillInv, InOrder
  <2> QED BY <1>1, <2>4, <2>6 DEF BillInv
<1>5. ASSUME NEW k \in Ids, RewritesRow(k) PROVE BillInv'
  <2>1. PICK row \in Invoice :
              /\ inv' = [inv EXCEPT ![k] = row]
              /\ row.kind = inv[k].kind /\ row.from = inv[k].from /\ row.to = inv[k].to
              /\ row.gross = inv[k].gross /\ row.total >= inv[k].total
              /\ inv[k].status = "void" => row.status = "void"
    BY <1>5 DEF RewritesRow
  <2>2. Ids' = Ids /\ \A j \in Ids : inv'[j] = IF j = k THEN row ELSE inv[j]
    BY <1>1, <2>1, RowTyped
  <2>3. \A j \in Ids : /\ inv'[j].kind = inv[j].kind /\ inv'[j].from = inv[j].from
                       /\ inv'[j].to = inv[j].to /\ inv'[j].gross = inv[j].gross
    BY <2>1, <2>2
  <2>4. Priced'
    BY <2>2, <2>3 DEF BillInv, Priced, Gross
  <2>5. \A j \in Live("draw")' : j \in Live("draw") /\ j \in Ids
    BY <2>1, <2>2 DEF Live
  <2>6. InOrder'
    BY <2>3, <2>5 DEF BillInv, InOrder
  <2> QED BY <1>1, <2>4, <2>6 DEF BillInv
<1> QED
  BY <1>1, <1>2, <1>3, <1>4, <1>5, StepsOfInvoices

\* With one request at a time a client is never billed for more than the
\* progress reported, but for half a cent a draw: the gross amounts of the
\* draws that count, added up, whatever was voided (calculateProgressDraw).
THEOREM BilledWhatIsReported == ASSUME Serial PROVE Spec => []OverbillingIsRounding
<1>1. Init => BillInv
  BY DEF Init, BillInv, InOrder, Priced, SliceInv, TypeInv, TypeOK, DrawsForward, StartsAbove,
         DisjointSlices, Idle, Request, Live, Ids
<1>2. BillInv => OverbillingIsRounding
  <2> SUFFICES ASSUME BillInv, NEW p \in Percents \union {0}, \A k \in Live("draw") : inv[k].to <= p
               PROVE  200 * SumOf([k \in Ids |-> inv[k].gross], Live("draw"))
                        <= 2 * Contract * p + 100 * Cardinality(Live("draw"))
    BY DEF OverbillingIsRounding
  <2>1. p \in 0..100
    BY ProgressAssumption
  <2>2. 2 * (Contract * p) = 2 * Contract * p
    BY <2>1, ProgressAssumption
  <2> QED BY <2>1, <2>2, BilledUpTo
<1> QED
  BY <1>1, <1>2, NextBill, PTL DEF Spec

-----------------------------------------------------------------------------
(***************************************************************************)
(* Retainage.                                                              *)
(***************************************************************************)

\* What the three sums of releaseRetainage add up, row by row.
Counts(row, kind) == row.kind = kind /\ row.status # "void"
HeldOf(rows) == [k \in 1..Len(rows) |-> IF Counts(rows[k], "draw") THEN rows[k].retained ELSE 0]
GivenOf(rows) == [k \in 1..Len(rows) |-> IF Counts(rows[k], "release") THEN rows[k].gross ELSE 0]
OwedOf(rows) == [k \in 1..Len(rows) |-> IF Counts(rows[k], "release") THEN rows[k].total ELSE 0]

\* A release is owed with its late fees; the handler about to release has read what is left.
FeesOnTop == \A k \in Ids : inv[k].kind = "release" => inv[k].gross <= inv[k].total
Affordable == \A h \in Handlers : req[h].op = "release" => req[h].amount <= Remaining

CapInv == TypeInv /\ FeesOnTop /\ Affordable

\* They are sequences of amounts.
LEMMA Columns ==
    ASSUME NEW rows \in Seq(Invoice)
    PROVE  /\ HeldOf(rows) \in Seq(Nat) /\ Len(HeldOf(rows)) = Len(rows)
           /\ GivenOf(rows) \in Seq(Nat) /\ Len(GivenOf(rows)) = Len(rows)
           /\ OwedOf(rows) \in Seq(Nat) /\ Len(OwedOf(rows)) = Len(rows)
<1>1. PICK n \in Nat : n = Len(rows)
  OBVIOUS
<1>a. \A k \in 1..n : rows[k] \in Invoice
  BY <1>1
<1>2. \A k \in 1..n : rows[k].retained \in Nat /\ rows[k].gross \in Nat /\ rows[k].total \in Nat
  BY <1>a DEF Invoice
<1>3. /\ HeldOf(rows) \in [1..n -> Nat] /\ GivenOf(rows) \in [1..n -> Nat]
      /\ OwedOf(rows) \in [1..n -> Nat]
  BY <1>1, <1>2 DEF HeldOf, GivenOf, OwedOf
<1>4. ASSUME NEW f \in [1..n -> Nat] PROVE f \in Seq(Nat) /\ Len(f) = n
  OBVIOUS
<1> QED BY <1>1, <1>3, <1>4

\* Their totals are whole amounts.
LEMMA TotalsNat == ASSUME NEW f \in Seq(Nat) PROVE Total(f) \in Nat
<1>1. Len(f) \in 0..Len(f)
  OBVIOUS
<1> QED BY <1>1, TotalNat DEF Total

LEMMA TotalsMonotone ==
    ASSUME NEW f \in Seq(Nat), NEW g \in Seq(Nat), Len(f) = Len(g),
           \A k \in 1..Len(f) : f[k] <= g[k]
    PROVE  Total(f) <= Total(g)
<1>1. PICK m \in Nat : m = Len(f)
  OBVIOUS
<1>2. m <= Len(f) /\ m <= Len(g) /\ \A k \in 1..m : f[k] <= g[k]
  BY <1>1
<1>3. PartialSums(f)[m] <= PartialSums(g)[m]
  BY <1>2, TotalMonotone
<1> QED BY <1>1, <1>3 DEF Total

LEMMA ColumnSums ==
    /\ Held = Total(HeldOf(inv)) /\ Released = Total(GivenOf(inv))
    /\ AlreadyReleased = Total(OwedOf(inv))
<1>1. [k \in Ids |-> IF k \in Live("draw") THEN [j \in Ids |-> inv[j].retained][k] ELSE 0] = HeldOf(inv)
  BY DEF Ids, Live, HeldOf, Counts
<1>2. [k \in Ids |-> IF k \in Live("release") THEN [j \in Ids |-> inv[j].gross][k] ELSE 0] = GivenOf(inv)
  BY DEF Ids, Live, GivenOf, Counts
<1>3. [k \in Ids |-> IF k \in Live("release") THEN [j \in Ids |-> inv[j].total][k] ELSE 0] = OwedOf(inv)
  BY DEF Ids, Live, OwedOf, Counts
<1> QED BY <1>1, <1>2, <1>3 DEF Held, Released, AlreadyReleased, SumOf

LEMMA ColumnSumsNext ==
    /\ Held' = Total(HeldOf(inv')) /\ Released' = Total(GivenOf(inv'))
    /\ AlreadyReleased' = Total(OwedOf(inv'))
<1>1. (/\ Held = Total(HeldOf(inv)) /\ Released = Total(GivenOf(inv))
       /\ AlreadyReleased = Total(OwedOf(inv)))'
  BY ColumnSums, PTL
<1> QED BY <1>1

\* No more is released than is owed.
LEMMA GivenIsOwed == ASSUME TypeOK, FeesOnTop PROVE Released <= AlreadyReleased
<1>1. inv \in Seq(Invoice) /\ \A k \in 1..Len(inv) : inv[k] \in Invoice
  BY DEF TypeOK
<1>2. \A k \in 1..Len(inv) : GivenOf(inv)[k] <= OwedOf(inv)[k]
  <2> TAKE k \in 1..Len(inv)
  <2>1. inv[k].gross \in Nat /\ inv[k].total \in Nat
    BY <1>1 DEF Invoice
  <2>2. inv[k].kind = "release" => inv[k].gross <= inv[k].total
    BY DEF FeesOnTop, Ids
  <2> QED BY <2>1, <2>2 DEF GivenOf, OwedOf, Counts
<1> QED BY <1>1, <1>2, Columns, TotalsMonotone, ColumnSums

\* With one request at a time, whoever changes the invoices was the only one at work.
LEMMA NoOtherReads ==
    ASSUME Serial, TypeOK, [Next]_vars
    PROVE  inv' = inv \/ \A g \in Handlers : req'[g].op = "none"
<1>1. CASE UNCHANGED vars
  BY <1>1 DEF vars
<1>2. CASE Next
  <2>1. PICK h \in Handlers :
            \/ \E last \in Percents \union {0}, p \in Percents, r \in RetainagePercents : BeginDraw(h, last, p, r)
            \/ CommitDraw(h)
            \/ \E a \in 1..(Contract + MaxDraws) : BeginRelease(h, a)
            \/ CommitRelease(h)
            \/ \E k \in Ids : Send(h, k) \/ Void(h, k) \/ \E f \in Fees : ChargeLateFee(h, k, f)
            \/ Fail(h)
    BY <1>2 DEF Next
  <2>2. \A g \in Handlers : g = h
    BY DEF Serial
  <2>3. /\ \A last, p, r : BeginDraw(h, last, p, r) => inv' = inv
        /\ \A a : BeginRelease(h, a) => inv' = inv
        /\ Fail(h) => inv' = inv
    BY DEF BeginDraw, BeginRelease, Fail
  <2>4. CommitDraw(h) \/ CommitRelease(h) => req'[h].op = "none"
    BY DEF CommitDraw, CommitRelease, Idle, TypeOK
  <2>5. \A k, f : Send(h, k) \/ Void(h, k) \/ ChargeLateFee(h, k, f) => req'[h].op = "none"
    BY DEF Send, Void, ChargeLateFee, Start
  <2> QED BY <2>1, <2>2, <2>3, <2>4, <2>5
<1> QED BY <1>1, <1>2

LEMMA NextCap == ASSUME Serial PROVE CapInv /\ [Next]_vars => CapInv'
<1> SUFFICES ASSUME CapInv, [Next]_vars PROVE CapInv'
  OBVIOUS
<1>1. TypeInv' /\ TypeOK /\ TypeOK'
  BY NextTyped DEF CapInv, TypeInv
<1>2. FeesOnTop'
  <2>1. CASE inv' = inv
    BY <2>1 DEF CapInv, FeesOnTop, Ids
  <2>2. ASSUME NEW h \in Handlers, CommitDraw(h) PROVE FeesOnTop'
    <3>1. inv' = Append(inv, DrawOf(req[h])) /\ DrawOf(req[h]).kind = "draw"
      BY <2>2 DEF CommitDraw, DrawOf
    <3> QED BY <1>1, <3>1, Appended DEF CapInv, FeesOnTop
  <2>3. ASSUME NEW h \in Handlers, CommitRelease(h) PROVE FeesOnTop'
    <3>1. PICK row : row = ReleaseOf(req[h])
      OBVIOUS
    <3>2. inv' = Append(inv, row) /\ row.gross = req[h].amount /\ row.total = req[h].amount
      BY <2>3, <3>1 DEF CommitRelease, ReleaseOf
    <3>3. req[h].amount \in Nat
      BY <1>1 DEF TypeOK, Request
    <3>4. row.gross <= row.total
      BY <3>2, <3>3
    <3> QED BY <1>1, <3>2, <3>4, Appended DEF CapInv, FeesOnTop
  <2>4. ASSUME NEW k \in Ids, RewritesRow(k) PROVE FeesOnTop'
    <3>1. PICK row \in Invoice :
              /\ inv' = [inv EXCEPT ![k] = row] /\ row.kind = inv[k].kind
              /\ row.gross = inv[k].gross /\ row.total >= inv[k].total
      BY <2>4 DEF RewritesRow
    <3>2. Ids' = Ids /\ \A j \in Ids : inv'[j] = IF j = k THEN row ELSE inv[j]
      BY <1>1, <3>1, RowTyped
    <3>a. inv[k] \in Invoice
      BY <1>1 DEF TypeOK, Ids
    <3>3. row.total \in Nat /\ inv[k].total \in Nat /\ inv[k].gross \in Nat
      BY <3>a DEF Invoice
    <3>b. inv[k].kind = "release" => inv[k].gross <= inv[k].total
      BY DEF CapInv, FeesOnTop
    <3>4. row.kind = "release" => row.gross <= row.total
      BY <3>1, <3>3, <3>b
    <3> QED BY <3>2, <3>4 DEF CapInv, FeesOnTop
  <2> QED BY <1>1, <2>1, <2>2, <2>3, <2>4, StepsOfInvoices
<1>3. Affordable'
  <2>1. CASE \A g \in Handlers : req'[g].op = "none"
    BY <2>1 DEF Affordable
  <2>2. CASE inv' = inv
    <3>1. Remaining' = Remaining
      BY <2>2, ColumnSums, ColumnSumsNext DEF Remaining
    <3> SUFFICES ASSUME NEW g \in Handlers, req'[g].op = "release" PROVE req'[g].amount <= Remaining
      BY <3>1 DEF Affordable
    <3>2. CASE req'[g] = req[g]
      BY <3>2 DEF CapInv, Affordable
    <3>3. CASE req'[g] # req[g]
      <4>1. PICK h \in Handlers :
            \/ \E last \in Percents \union {0}, p \in Percents, r \in RetainagePercents : BeginDraw(h, last, p, r)
            \/ CommitDraw(h)
            \/ \E a \in 1..(Contract + MaxDraws) : BeginRelease(h, a)
            \/ CommitRelease(h)
            \/ \E k \in Ids : Send(h, k) \/ Void(h, k) \/ \E f \in Fees : ChargeLateFee(h, k, f)
            \/ Fail(h)
        BY <3>3 DEF Next, vars
      <4>2. \A last, p, r : ~BeginDraw(h, last, p, r)
        BY <1>1, <3>3 DEF BeginDraw, TypeOK
      <4>3. ~CommitDraw(h) /\ ~CommitRelease(h) /\ ~Fail(h)
        BY <1>1, <3>3 DEF CommitDraw, CommitRelease, Fail, TypeOK, Idle
      <4>4. \A k, f : ~Send(h, k) /\ ~Void(h, k) /\ ~ChargeLateFee(h, k, f)
        BY <3>3 DEF Send, Void, ChargeLateFee
      <4>5. PICK a \in 1..(Contract + MaxDraws) : BeginRelease(h, a)
        BY <4>1, <4>2, <4>3, <4>4
      <4>6. req'[g].amount = a
        BY <1>1, <3>3, <4>5 DEF BeginRelease, TypeOK
      <4> QED BY <4>5, <4>6 DEF BeginRelease
    <3> QED BY <3>2, <3>3
  <2> QED BY <1>1, <2>1, <2>2, NoOtherReads
<1> QED BY <1>1, <1>2, <1>3 DEF CapInv

\* What a step does to what has been released.
LEMMA CapStep ==
    ASSUME CapInv, TypeOK', [Next]_vars
    PROVE  Released' > Released => Released' <= Held'
<1>1. TypeOK /\ inv \in Seq(Invoice) /\ inv' \in Seq(Invoice)
  BY DEF CapInv, TypeInv, TypeOK
<1>2. PICK given, owed, held, given1, held1 \in Seq(Nat) :
        /\ given = GivenOf(inv) /\ owed = OwedOf(inv) /\ held = HeldOf(inv)
        /\ given1 = GivenOf(inv') /\ held1 = HeldOf(inv')
  BY <1>1, Columns
<1>3. /\ Released = Total(given) /\ AlreadyReleased = Total(owed) /\ Held = Total(held)
      /\ Released' = Total(given1) /\ Held' = Total(held1)
  BY <1>2, ColumnSums, ColumnSumsNext
<1>4. /\ Len(given) = Len(inv) /\ Len(held) = Len(inv)
      /\ Len(given1) = Len(inv') /\ Len(held1) = Len(inv')
  BY <1>1, <1>2, Columns
<1>5. /\ Released \in Nat /\ AlreadyReleased \in Nat /\ Held \in Nat
      /\ Released' \in Nat /\ Held' \in Nat
  BY <1>3, TotalsNat
<1>6. CASE inv' = inv
  BY <1>2, <1>3, <1>5, <1>6
<1>7. ASSUME NEW row, inv' = Append(inv, row)
      PROVE  /\ Released' = Released + (IF Counts(row, "release") THEN row.gross ELSE 0)
             /\ Held' = Held + (IF Counts(row, "draw") THEN row.retained ELSE 0)
  <2>1. PICK n : n = Len(inv) + 1
    OBVIOUS
  <2>2. /\ Len(inv) \in Nat /\ Len(inv') = n /\ inv'[n] = row
        /\ \A k \in 1..Len(inv) : inv'[k] = inv[k]
    BY <1>1, <1>7, <2>1, Appended DEF Ids
  <2>3. n \in 1..n /\ \A k \in 1..Len(inv) : k \in 1..n
    BY <2>1, <2>2
  <2>4. /\ \A k \in 1..Len(inv) : given[k] = given1[k] /\ held[k] = held1[k]
        /\ given1[n] = (IF Counts(row, "release") THEN row.gross ELSE 0)
        /\ held1[n] = (IF Counts(row, "draw") THEN row.retained ELSE 0)
    BY <1>2, <2>2, <2>3 DEF GivenOf, HeldOf
  <2>5. Len(given1) = Len(given) + 1 /\ Len(held1) = Len(held) + 1 /\ Len(given1) = n /\ Len(held1) = n
    BY <1>4, <2>1, <2>2
  <2>6. Total(given1) = Total(given) + given1[n]
    BY <1>4, <2>4, <2>5, TotalAppend, ZenonT(30)
  <2>7. Total(held1) = Total(held) + held1[n]
    BY <1>4, <2>4, <2>5, TotalAppend, ZenonT(30)
  <2> QED BY <1>3, <2>4, <2>6, <2>7
<1>8. ASSUME NEW h \in Handlers, CommitDraw(h) PROVE Released' = Released
  <2>1. inv' = Append(inv, DrawOf(req[h])) /\ ~Counts(DrawOf(req[h]), "release")
    BY <1>8 DEF CommitDraw, DrawOf, Counts
  <2> QED BY <1>5, <1>7, <2>1
<1>9. ASSUME NEW h \in Handlers, CommitRelease(h) PROVE Released' <= Held'
  <2>1. PICK row : row = ReleaseOf(req[h])
    OBVIOUS
  <2>2. /\ inv' = Append(inv, row) /\ row.gross = req[h].amount
        /\ Counts(row, "release") /\ ~Counts(row, "draw")
    BY <1>9, <2>1 DEF CommitRelease, ReleaseOf, Counts
  <2>3. Released' = Released + req[h].amount /\ Held' = Held + 0
    BY <1>7, <2>2
  <2>4. req[h].amount <= Held - AlreadyReleased
    BY <1>9 DEF CommitRelease, CapInv, Affordable, Remaining
  <2>5. Released <= AlreadyReleased
    BY <1>1, GivenIsOwed DEF CapInv
  <2>6. req[h].amount \in Nat
    BY <1>1 DEF TypeOK, Request
  <2> QED BY <1>5, <2>3, <2>4, <2>5, <2>6, SMTT(30)
<1>10. ASSUME NEW k \in Ids, RewritesRow(k) PROVE Released' <= Released
  <2>1. PICK row \in Invoice :
              /\ inv' = [inv EXCEPT ![k] = row] /\ row.kind = inv[k].kind
              /\ row.gross = inv[k].gross
              /\ inv[k].status = "void" => row.status = "void"
    BY <1>10 DEF RewritesRow
  <2>2. Ids' = Ids /\ \A j \in Ids : inv'[j] = IF j = k THEN row ELSE inv[j]
    BY <1>1, <2>1, RowTyped
  <2>3. Len(inv') = Len(inv) /\ Ids = 1..Len(inv)
    BY <1>1, <2>1 DEF Ids
  <2>4. \A j \in Ids : inv'[j].gross = inv[j].gross /\ (Counts(inv'[j], "release") => Counts(inv[j], "release"))
    BY <2>1, <2>2 DEF Counts
  <2>a. \A j \in Ids : inv[j] \in Invoice
    BY <1>1 DEF Ids
  <2>5. \A j \in Ids : inv[j].gross \in Nat
    BY <2>a DEF Invoice
  <2>6. \A j \in 1..Len(given1) : given1[j] <= given[j]
    BY <1>2, <1>4, <2>3, <2>4, <2>5, SMTT(30) DEF GivenOf
  <2>7. Total(given1) <= Total(given)
    BY <1>4, <2>3, <2>6, TotalsMonotone
  <2> QED BY <1>3, <2>7
<1> QED
  BY <1>1, <1>5, <1>6, <1>8, <1>9, <1>10, StepsOfInvoices

\* With one request at a time retainage is never released beyond what the
\* draws that count have withheld: the cap of releaseRetainage holds over all
\* releases added up, late fees and voided invoices included.
THEOREM ReleasesAreCapped == ASSUME Serial PROVE Spec => ReleaseCapped
<1>1. Init => CapInv
  BY DEF Init, CapInv, TypeInv, TypeOK, DrawsForward, FeesOnTop, Affordable, Idle, Request, Ids
<1>2. CapInv /\ CapInv' /\ [Next]_vars => [Released' > Released => Released' <= Held']_vars
  BY CapStep DEF CapInv, TypeInv
<1> QED
  BY <1>1, <1>2, NextCap, PTL DEF Spec, ReleaseCapped

-----------------------------------------------------------------------------
(***************************************************************************)
(* The stock: numbers first.                                               *)
(***************************************************************************)

\* The smaller and the larger of two numbers.
LEMMA MinOfTwo ==
    ASSUME NEW a \in Int, NEW b \in Int
    PROVE  Min({a, b}) = IF a <= b THEN a ELSE b
BY DEF Min

LEMMA MaxOfTwo ==
    ASSUME NEW a \in Int, NEW b \in Int
    PROVE  Max({a, b}) = IF a <= b THEN b ELSE a
BY DEF Max

\* Rounding a quotient: the product is off by at most half of the divisor, and a
\* quotient within a bound stays within it.
LEMMA Round4Is ==
    ASSUME NEW n \in Nat, NEW d \in Nat \ {0}
    PROVE  /\ Round4(n, d) \in Nat
           /\ d * Round4(n, d) \in Nat
           /\ 2 * (d * Round4(n, d)) <= 2 * n + d
           /\ 2 * n <= 2 * (d * Round4(n, d)) + d
<1> DEFINE a == 2 * n + d
           b == 2 * d
           q == a \div b
<1>1. a \in Nat /\ b \in Nat \ {0}
  OBVIOUS
<1>2. q \in Nat /\ b * q <= a /\ a < b * q + b
  <2> HIDE DEF a, b
  <2> QED BY <1>1
<1>3. d * q \in Nat /\ b * q = 2 * (d * q)
  <2> HIDE DEF q
  <2> QED BY <1>2
<1>4. Round4(n, d) = q
  BY DEF Round4
<1> HIDE DEF q
<1> QED BY <1>2, <1>3, <1>4

LEMMA Round4Within ==
    ASSUME NEW n \in Nat, NEW d \in Nat \ {0}, NEW m \in Nat, n <= m * d
    PROVE  Round4(n, d) <= m
<1> DEFINE q == Round4(n, d)
<1>1. q \in Nat /\ d * q \in Nat /\ 2 * (d * q) <= 2 * n + d
  BY Round4Is
<1> HIDE DEF q
<1> SUFFICES ASSUME m + 1 <= q PROVE FALSE
  BY <1>1 DEF q
<1>2. d * (m + 1) <= d * q
  BY <1>1
<1>3. d * (m + 1) = m * d + d /\ m * d \in Nat
  OBVIOUS
<1> QED BY <1>1, <1>2, <1>3

\* A moving average is a cost, and not above the costs it is made of.
LEMMA AverageIs ==
    ASSUME NEW quantity \in Int, NEW cost \in Nat \union {NoCost}, NEW received \in Nat \ {0},
           NEW unitCost \in Nat, NEW m \in Nat, cost # NoCost => cost <= m, unitCost <= m
    PROVE  LET avg == CalculateWeightedAverageCost(quantity, cost, received, unitCost)
           IN  avg \in Nat /\ avg <= m
<1> DEFINE prior == IF quantity > 0 /\ cost # NoCost THEN quantity * cost ELSE 0
           stock == IF quantity <= 0 THEN 0 ELSE quantity
<1>1. Max({quantity, 0}) = stock
  BY MaxOfTwo
<1>2. stock \in Nat /\ stock + received \in Nat \ {0}
  OBVIOUS
<1>3. prior \in Nat /\ prior <= m * stock
  <2>1. CASE quantity > 0 /\ cost # NoCost
    <3>1. quantity \in Nat /\ cost \in Nat /\ cost <= m
      BY <2>1
    <3>2. quantity * cost \in Nat /\ quantity * cost <= m * quantity
      BY <3>1
    <3> QED BY <2>1, <3>1, <3>2
  <2>2. CASE ~(quantity > 0 /\ cost # NoCost)
    <3>1. m * stock \in Nat
      BY <1>2
    <3> QED BY <2>2, <3>1
  <2> QED BY <2>1, <2>2
<1>4. received * unitCost \in Nat /\ received * unitCost <= m * received
  OBVIOUS
<1> HIDE DEF prior, stock
<1>5. m * (stock + received) = m * stock + m * received /\ m * stock \in Nat /\ m * received \in Nat
  BY <1>2
<1>6. prior + received * unitCost \in Nat /\ prior + received * unitCost <= m * (stock + received)
  BY <1>3, <1>4, <1>5
<1>7. CalculateWeightedAverageCost(quantity, cost, received, unitCost)
        = Round4(prior + received * unitCost, stock + received)
  BY <1>1 DEF CalculateWeightedAverageCost, prior
<1>8. Round4(prior + received * unitCost, stock + received) <= m
  BY <1>2, <1>6, Round4Within
<1>9. Round4(prior + received * unitCost, stock + received) \in Nat
  BY <1>2, <1>6, Round4Is
<1> QED BY <1>7, <1>8, <1>9

\* One element changes, and the sum changes by as much.
LEMMA TotalChange ==
    ASSUME NEW f \in Seq(Nat), NEW g \in Seq(Nat), Len(g) = Len(f), NEW k \in 1..Len(f),
           \A j \in 1..Len(f) : j # k => g[j] = f[j]
    PROVE  Total(g) + f[k] = Total(f) + g[k]
<1> DEFINE s == PartialSums(f)
           t == PartialSums(g)
           T == {n \in Nat : n <= Len(f) => IF n < k THEN t[n] = s[n] ELSE t[n] + f[k] = s[n] + g[k]}
<1>1. Len(f) \in Nat /\ \A n \in 1..Len(f) : f[n] \in Nat /\ g[n] \in Nat
  BY SMTT(30)
<1>2. s[0] = 0 /\ \A n \in 1..Len(f) : s[n] = s[n - 1] + f[n]
  BY <1>1, PartialSumsStep
<1>3. t[0] = 0 /\ \A n \in 1..Len(f) : t[n] = t[n - 1] + g[n]
  BY <1>1, PartialSumsStep
<1>4. \A n \in 0..Len(f) : s[n] \in Nat /\ t[n] \in Nat
  BY TotalNat
<1> HIDE DEF s, t
<1>5. 0 \in T
  BY <1>2, <1>3
<1>6. ASSUME NEW n \in Nat, n \in T PROVE n + 1 \in T
  <2> SUFFICES ASSUME n + 1 <= Len(f)
               PROVE  IF n + 1 < k THEN t[n + 1] = s[n + 1]
                                   ELSE t[n + 1] + f[k] = s[n + 1] + g[k]
    OBVIOUS
  <2>1. /\ n + 1 \in 1..Len(f) /\ n + 1 - 1 = n /\ n \in 0..Len(f)
        /\ IF n < k THEN t[n] = s[n] ELSE t[n] + f[k] = s[n] + g[k]
    BY <1>1, <1>6
  <2>2. s[n + 1] = s[n] + f[n + 1] /\ t[n + 1] = t[n] + g[n + 1]
    BY <1>2, <1>3, <2>1
  <2>3. f[n + 1] \in Nat /\ g[n + 1] \in Nat /\ s[n] \in Nat /\ t[n] \in Nat /\ f[k] \in Nat /\ g[k] \in Nat
    BY <1>1, <1>4, <2>1
  <2>4. CASE n + 1 < k
    BY <2>1, <2>2, <2>3, <2>4
  <2>5. CASE n + 1 = k
    BY <2>1, <2>2, <2>3, <2>5, SMTT(30)
  <2>6. CASE n + 1 > k
    <3>1. g[n + 1] = f[n + 1] /\ ~(n < k) /\ ~(n + 1 < k)
      BY <2>1, <2>6
    <3>2. t[n] + f[k] = s[n] + g[k]
      BY <2>1, <3>1
    <3>3. PICK a \in Nat, b \in Nat, c \in Nat, d \in Nat, x \in Nat :
                a = t[n] /\ b = s[n] /\ c = f[k] /\ d = g[k] /\ x = g[n + 1]
      BY <2>3
    <3>4. a + c = b + d
      BY ONLY <3>2, <3>3
    <3>5. (a + x) + c = (b + x) + d
      BY ONLY <3>4, a \in Nat, b \in Nat, c \in Nat, d \in Nat, x \in Nat
    <3> QED BY ONLY <2>2, <3>1, <3>3, <3>5
  <2> QED BY <2>4, <2>5, <2>6
<1>7. Nat \subseteq T
  <2> HIDE DEF T
  <2> QED BY <1>5, <1>6, SetInduction
<1> QED BY <1>1, <1>7 DEF Total, s, t

-----------------------------------------------------------------------------
(***************************************************************************)
(* The loop of calculateFifoConsumption.                                   *)
(***************************************************************************)

\* The recursive function of the loop unfolds.
LEMMA FifoUnfold ==
    ASSUME NEW old, Len(old) \in Nat, NEW w, NEW quantity
    PROVE  LET after == FifoLoop(old, w, quantity)
               start == [remaining |-> quantity, totalCost |-> 0, left |-> <<>>]
           IN  /\ after[0] = start
               /\ \A i \in 1..Len(old) : after[i] = ConsumeLayer(w, after[i - 1], old[i])
<1> DEFINE start == [remaining |-> quantity, totalCost |-> 0, left |-> <<>>]
           Is(g, m) == g = [i \in 0..m |-> IF i = 0 THEN start ELSE ConsumeLayer(w, g[i - 1], old[i])]
           T == {m \in Nat : \E g : Is(g, m)}
<1> HIDE DEF start
<1>1. 0 \in T
  <2> DEFINE g == [i \in 0..0 |-> start]
  <2>1. Is(g, 0)
    OBVIOUS
  <2> QED BY <2>1
<1>2. ASSUME NEW m \in T PROVE m + 1 \in T
  <2>1. PICK g : Is(g, m)
    OBVIOUS
  <2> DEFINE h == [i \in 0..(m + 1) |-> IF i = m + 1 THEN ConsumeLayer(w, g[m], old[m + 1]) ELSE g[i]]
             u == [i \in 0..(m + 1) |-> IF i = 0 THEN start ELSE ConsumeLayer(w, h[i - 1], old[i])]
  <2>2. m \in Nat /\ DOMAIN g = 0..m
    BY <2>1
  <2>3. ASSUME NEW i \in 0..(m + 1)
        PROVE  h[i] = IF i = 0 THEN start ELSE ConsumeLayer(w, h[i - 1], old[i])
    <3>1. CASE i = 0
      BY <2>1, <2>2, <3>1
    <3>2. CASE i \in 1..m
      <4>1. i \in 0..m /\ i - 1 \in 0..m /\ i # m + 1 /\ i - 1 # m + 1 /\ i - 1 \in 0..(m + 1)
        BY <2>2, <3>2
      <4>2. g[i] = ConsumeLayer(w, g[i - 1], old[i])
        BY <2>1, <3>2, <4>1
      <4> QED BY <4>1, <4>2, <3>2
    <3>3. CASE i = m + 1
      <4>1. i - 1 = m /\ m # m + 1 /\ m \in 0..(m + 1) /\ i # 0
        BY <2>2, <3>3
      <4> QED BY <4>1, <3>3
    <3> QED BY <2>2, <3>1, <3>2, <3>3
  <2>4. h = u
    <3>1. \A i \in 0..(m + 1) : u[i] = IF i = 0 THEN start ELSE ConsumeLayer(w, h[i - 1], old[i])
      OBVIOUS
    <3>2. \A i \in 0..(m + 1) : h[i] = u[i]
      BY <2>3, <3>1
    <3>3. h = [i \in 0..(m + 1) |-> h[i]] /\ u = [i \in 0..(m + 1) |-> u[i]]
      OBVIOUS
    <3> HIDE DEF h, u
    <3> QED BY <3>2, <3>3
  <2>5. Is(h, m + 1)
    BY <2>4
  <2> HIDE DEF h, u
  <2>6. \E x : Is(x, m + 1)
    BY <2>5
  <2> QED BY <2>2, <2>6
<1>3. Nat \subseteq T
  <2> HIDE DEF T
  <2> QED BY <1>1, <1>2, SetInduction
<1>4. \E g : Is(g, Len(old))
  BY <1>3
<1>5. FifoLoop(old, w, quantity) = CHOOSE g : Is(g, Len(old))
  BY DEF FifoLoop, start
<1>6. Is(FifoLoop(old, w, quantity), Len(old))
  <2> HIDE DEF Is
  <2> QED BY <1>4, <1>5
<1> DEFINE after == FifoLoop(old, w, quantity)
<1>7. after = [i \in 0..Len(old) |-> IF i = 0 THEN start ELSE ConsumeLayer(w, after[i - 1], old[i])]
  BY <1>6
<1> HIDE DEF after
<1>8. after[0] = start
  BY <1>7
<1>9. \A i \in 1..Len(old) : after[i] = ConsumeLayer(w, after[i - 1], old[i])
  BY <1>7
<1> QED BY <1>8, <1>9 DEF after, start

\* What a sequence of layers is worth.
LEMMA WorthColumn ==
    ASSUME NEW ls \in Seq(Layer)
    PROVE  /\ [i \in 1..Len(ls) |-> ls[i].quantity * ls[i].cost] \in Seq(Nat)
           /\ Worth(ls) \in Nat
<1> DEFINE f == [i \in 1..Len(ls) |-> ls[i].quantity * ls[i].cost]
<1>1. Len(ls) \in Nat /\ \A i \in 1..Len(ls) : ls[i] \in Layer
  OBVIOUS
<1>2. \A i \in 1..Len(ls) : ls[i].quantity \in Nat /\ ls[i].cost \in Nat
  BY <1>1 DEF Layer
<1>3. \A i \in 1..Len(ls) : ls[i].quantity * ls[i].cost \in Nat
  BY <1>2
<1>4. f \in Seq(Nat)
  BY <1>1, <1>3
<1> HIDE DEF f
<1>5. Total(f) \in Nat
  BY <1>4, TotalsNat
<1> QED BY <1>4, <1>5 DEF Worth, f

LEMMA WorthAppend ==
    ASSUME NEW ls \in Seq(Layer), NEW row \in Layer
    PROVE  /\ Append(ls, row) \in Seq(Layer)
           /\ Worth(Append(ls, row)) = Worth(ls) + row.quantity * row.cost
<1> DEFINE more == Append(ls, row)
           f == [i \in 1..Len(ls) |-> ls[i].quantity * ls[i].cost]
           g == [i \in 1..Len(more) |-> more[i].quantity * more[i].cost]
<1>1. more \in Seq(Layer) /\ Len(more) = Len(ls) + 1 /\ Len(ls) \in Nat
  OBVIOUS
<1>2. (\A i \in 1..Len(ls) : more[i] = ls[i]) /\ more[Len(more)] = row
  OBVIOUS
<1> HIDE DEF more
<1>3. f \in Seq(Nat) /\ g \in Seq(Nat)
  BY <1>1, WorthColumn
<1>4. Len(f) = Len(ls) /\ Len(g) = Len(more)
  BY <1>1
<1>5. \A i \in 1..Len(ls) : f[i] = g[i]
  BY <1>1, <1>2
<1>6. g[Len(g)] = row.quantity * row.cost
  BY <1>1, <1>2, <1>4
<1> HIDE DEF f, g
<1>7. Total(g) = Total(f) + g[Len(g)]
  BY <1>1, <1>3, <1>4, <1>5, TotalAppend
<1> QED BY <1>1, <1>6, <1>7 DEF Worth, f, g, more

\* What the loop has found out after some rows: of a quantity, with costs up to m.
Found(quantity, m) ==
    {done \in [remaining : 0..quantity, totalCost : Nat, left : Seq(Layer)] :
        /\ done.totalCost <= m * (quantity - done.remaining)
        /\ \A i \in 1..Len(done.left) : done.left[i].cost <= m}

\* One row: no more is taken than there is and is needed, and what is taken is paid
\* for at its cost.
LEMMA OneLayer ==
    ASSUME NEW quantity \in Nat, NEW m \in Nat, NEW done \in Found(quantity, m),
           NEW row \in Layer, row.cost <= m, NEW w
    PROVE  LET next == ConsumeLayer(w, done, row)
           IN  /\ next \in Found(quantity, m)
               /\ Worth(next.left) + next.totalCost
                    = Worth(done.left) + done.totalCost + row.quantity * row.cost
               /\ next.remaining <= done.remaining
               /\ row.warehouse = w /\ done.remaining > 0 => next.remaining < done.remaining
               /\ row.warehouse # w => next.remaining = done.remaining
<1> DEFINE take == IF row.warehouse = w THEN Min({row.quantity, done.remaining}) ELSE 0
           rest == [row EXCEPT !.quantity = @ - take]
           next == [remaining |-> done.remaining - take,
                    totalCost |-> done.totalCost + take * row.cost,
                    left |-> IF take = row.quantity THEN done.left ELSE Append(done.left, rest)]
<1>1. /\ done.remaining \in 0..quantity /\ done.totalCost \in Nat /\ done.left \in Seq(Layer)
      /\ done.totalCost <= m * (quantity - done.remaining)
      /\ \A i \in 1..Len(done.left) : done.left[i].cost <= m
  BY DEF Found
<1>2. row.quantity \in Nat \ {0} /\ row.cost \in Nat
  BY DEF Layer
<1>3. /\ take \in Nat /\ take <= row.quantity /\ take <= done.remaining
      /\ row.warehouse = w /\ done.remaining > 0 => take > 0
      /\ row.warehouse # w => take = 0
  <2>1. Min({row.quantity, done.remaining})
          = IF row.quantity <= done.remaining THEN row.quantity ELSE done.remaining
    BY <1>1, <1>2, MinOfTwo, SMTT(30)
  <2> QED BY <1>1, <1>2, <2>1
<1>4. ConsumeLayer(w, done, row) = next
  BY DEF ConsumeLayer
<1> HIDE DEF take
<1>5. next.remaining \in 0..quantity /\ next.remaining = done.remaining - take
  BY <1>1, <1>3
<1>6. take * row.cost \in Nat /\ take * row.cost <= m * take
  BY <1>2, <1>3
<1>7. next.totalCost \in Nat /\ next.totalCost <= m * (quantity - next.remaining)
  <2>1. quantity - next.remaining = (quantity - done.remaining) + take /\ quantity - done.remaining \in Nat
    BY <1>1, <1>3
  <2>2. m * (quantity - next.remaining) = m * (quantity - done.remaining) + m * take
    BY <1>3, <2>1
  <2>3. m * (quantity - done.remaining) \in Nat /\ m * take \in Nat
    BY <1>3, <2>1
  <2>4. next.totalCost = done.totalCost + take * row.cost
    OBVIOUS
  <2> HIDE DEF next
  <2> QED BY <1>1, <1>6, <2>2, <2>3, <2>4, SMTT(30)
<1>8. CASE take = row.quantity
  <2>1. next.left = done.left
    BY <1>8
  <2>2. Worth(done.left) \in Nat
    BY <1>1, WorthColumn
  <2>3. Worth(next.left) + next.totalCost = Worth(done.left) + done.totalCost + row.quantity * row.cost
    <3>1. next.totalCost = done.totalCost + row.quantity * row.cost
      BY <1>8
    <3>2. row.quantity * row.cost \in Nat
      BY <1>2
    <3> HIDE DEF next
    <3> QED BY <1>1, <2>1, <2>2, <3>1, <3>2
  <2>4. next \in Found(quantity, m)
    BY <1>1, <1>5, <1>7, <2>1 DEF Found
  <2> HIDE DEF next
  <2> QED BY <1>1, <1>3, <1>4, <1>5, <2>3, <2>4
<1>9. CASE take # row.quantity
  <2>1. next.left = Append(done.left, rest)
    BY <1>9
  <2>2. rest \in Layer /\ rest.quantity = row.quantity - take /\ rest.cost = row.cost
    BY <1>2, <1>3, <1>9 DEF Layer
  <2>3. /\ next.left \in Seq(Layer)
        /\ Worth(next.left) = Worth(done.left) + rest.quantity * rest.cost
    BY <1>1, <2>1, <2>2, WorthAppend
  <2>4. \A i \in 1..Len(next.left) : next.left[i].cost <= m
    <3>1. Len(next.left) = Len(done.left) + 1 /\ Len(done.left) \in Nat
      BY <1>1, <2>1
    <3>2. \A i \in 1..Len(next.left) : next.left[i] = IF i = Len(next.left) THEN rest ELSE done.left[i]
      BY <1>1, <2>1, <3>1
    <3>3. \A i \in 1..Len(next.left) : i # Len(next.left) => i \in 1..Len(done.left)
      BY <3>1
    <3> HIDE DEF next, rest
    <3>4. ASSUME NEW i \in 1..Len(next.left) PROVE next.left[i].cost <= m
      <4>1. CASE i = Len(next.left)
        BY <2>2, <3>2, <4>1
      <4>2. CASE i # Len(next.left)
        BY <1>1, <3>2, <3>3, <4>2
      <4> QED BY <4>1, <4>2
    <3> QED BY <3>4
  <2>5. (row.quantity - take) * row.cost = row.quantity * row.cost - take * row.cost
    BY <1>2, <1>3
  <2>6. Worth(done.left) \in Nat /\ row.quantity * row.cost \in Nat
    BY <1>1, <1>2, WorthColumn, SMTT(30)
  <2>7. next.totalCost = done.totalCost + take * row.cost
    OBVIOUS
  <2>8. next \in Found(quantity, m)
    BY <1>5, <1>7, <2>3, <2>4 DEF Found
  <2> HIDE DEF next, rest
  <2>9. Worth(next.left) + next.totalCost = Worth(done.left) + done.totalCost + row.quantity * row.cost
    BY <1>1, <1>6, <2>2, <2>3, <2>5, <2>6, <2>7, SMTT(30)
  <2> QED BY <1>1, <1>3, <1>4, <1>5, <2>8, <2>9
<1> QED BY <1>8, <1>9

\* The whole loop: what was taken and what is left are together worth what there
\* was, nothing is dearer than before, and something is taken where there is some.
LEMMA FifoIs ==
    ASSUME NEW old \in Seq(Layer), NEW w, NEW quantity \in Nat, NEW m \in Nat,
           \A i \in 1..Len(old) : old[i].cost <= m
    PROVE  LET result == FifoLoop(old, w, quantity)[Len(old)]
           IN  /\ result \in Found(quantity, m)
               /\ Worth(result.left) + result.totalCost = Worth(old)
               /\ quantity > 0 /\ (\E i \in 1..Len(old) : old[i].warehouse = w)
                     => result.remaining < quantity
               /\ (\A i \in 1..Len(old) : old[i].warehouse # w) => result.remaining = quantity
<1> DEFINE after == FifoLoop(old, w, quantity)
           f == [i \in 1..Len(old) |-> old[i].quantity * old[i].cost]
           sum == PartialSums(f)
           Good(i) == /\ after[i] \in Found(quantity, m)
                      /\ Worth(after[i].left) + after[i].totalCost = sum[i]
                      /\ quantity > 0 /\ (\E j \in 1..i : old[j].warehouse = w)
                            => after[i].remaining < quantity
                      /\ (\A j \in 1..i : old[j].warehouse # w) => after[i].remaining = quantity
           T == {i \in Nat : i <= Len(old) => Good(i)}
<1>1. Len(old) \in Nat /\ \A i \in 1..Len(old) : old[i] \in Layer
  OBVIOUS
<1>2. f \in Seq(Nat) /\ Len(f) = Len(old)
  BY <1>1, WorthColumn
<1>3. \A i \in 1..Len(old) : f[i] = old[i].quantity * old[i].cost
  OBVIOUS
<1>4. /\ after[0] = [remaining |-> quantity, totalCost |-> 0, left |-> <<>>]
      /\ \A i \in 1..Len(old) : after[i] = ConsumeLayer(w, after[i - 1], old[i])
  BY <1>1, FifoUnfold
<1>5. Worth(old) = Total(f)
  BY DEF Worth
<1> HIDE DEF after, f
<1>6. sum[0] = 0 /\ \A i \in 1..Len(old) : sum[i] = sum[i - 1] + f[i]
  BY <1>1, <1>2, PartialSumsStep
<1>7. sum[Len(old)] = Worth(old)
  BY <1>2, <1>5 DEF Total
<1> HIDE DEF sum
<1>8. 0 \in T
  <2>1. Worth(<<>>) = 0
    <3> DEFINE e == [i \in 1..Len(<<>>) |-> (<<>>)[i].quantity * (<<>>)[i].cost]
    <3>1. e \in Seq(Nat) /\ Len(e) = 0
      OBVIOUS
    <3> HIDE DEF e
    <3>2. Total(e) = 0
      BY <3>1, PartialSumsStep DEF Total
    <3> QED BY <3>2 DEF Worth, e
  <2>2. after[0] \in Found(quantity, m)
    <3>1. m * (quantity - quantity) = 0
      OBVIOUS
    <3> QED BY <1>4, <3>1 DEF Found
  <2>3. Worth(after[0].left) + after[0].totalCost = sum[0] /\ after[0].remaining = quantity
    BY <1>4, <1>6, <2>1
  <2> QED BY <2>2, <2>3
<1>9. ASSUME NEW i \in Nat, i \in T PROVE i + 1 \in T
  <2> SUFFICES ASSUME i + 1 <= Len(old) PROVE Good(i + 1)
    OBVIOUS
  <2>1. Good(i) /\ i + 1 \in 1..Len(old) /\ i + 1 - 1 = i
    BY <1>1, <1>9
  <2>2. old[i + 1] \in Layer /\ old[i + 1].cost <= m /\ after[i + 1] = ConsumeLayer(w, after[i], old[i + 1])
    BY <1>1, <1>4, <2>1
  <2> DEFINE next == after[i + 1]
             done == after[i]
             row == old[i + 1]
  <2>3. done \in Found(quantity, m) /\ Worth(done.left) + done.totalCost = sum[i]
    BY <2>1
  <2>4. /\ next \in Found(quantity, m)
        /\ Worth(next.left) + next.totalCost = Worth(done.left) + done.totalCost + row.quantity * row.cost
        /\ next.remaining <= done.remaining
        /\ row.warehouse = w /\ done.remaining > 0 => next.remaining < done.remaining
        /\ row.warehouse # w => next.remaining = done.remaining
    BY <2>2, <2>3, OneLayer
  <2>5. sum[i + 1] = sum[i] + row.quantity * row.cost
    BY <1>3, <1>6, <2>1
  <2>6. done.remaining \in 0..quantity /\ next.remaining \in 0..quantity
    BY <2>3, <2>4 DEF Found
  <2>7. ASSUME quantity > 0, NEW j \in 1..(i + 1), old[j].warehouse = w
        PROVE  next.remaining < quantity
    <3>1. CASE j = i + 1
      BY <2>4, <2>6, <2>7, <3>1, SMTT(30)
    <3>2. CASE j # i + 1
      <4>1. j \in 1..i
        BY <3>2
      <4>2. done.remaining < quantity
        BY <2>1, <2>7, <4>1
      <4> QED BY <2>4, <2>6, <4>2
    <3> QED BY <3>1, <3>2
  <2>8. Worth(next.left) + next.totalCost = sum[i + 1]
    BY <2>3, <2>4, <2>5
  <2>9. ASSUME \A j \in 1..(i + 1) : old[j].warehouse # w PROVE next.remaining = quantity
    <3>1. row.warehouse # w /\ \A j \in 1..i : old[j].warehouse # w
      BY <2>1, <2>9
    <3> QED BY <2>1, <2>4, <3>1
  <2> QED BY <2>4, <2>7, <2>8, <2>9
<1>10. Nat \subseteq T
  <2> HIDE DEF T
  <2> QED BY <1>8, <1>9, SetInduction
<1>11. Good(Len(old))
  BY <1>1, <1>10
<1> QED BY <1>7, <1>11 DEF after

-----------------------------------------------------------------------------
(***************************************************************************)
(* The loop against the list of single units (OldestFirst).                *)
(***************************************************************************)

\* An empty column adds up to nothing.
LEMMA EmptyTotal == ASSUME NEW f \in Seq(Nat), Len(f) = 0 PROVE Total(f) = 0
BY PartialSumsUnfold DEF Total

\* Equal entries, and parts of sequences that are put together.
LEMMA CopiesTyped ==
    ASSUME NEW n \in Nat, NEW c \in Nat
    PROVE  Copies(n, c) \in Seq(Nat) /\ Len(Copies(n, c)) = n
BY DEF Copies

LEMMA NoCopies ==
    ASSUME NEW f \in Seq(Nat), NEW c \in Nat
    PROVE  f \o Copies(0, c) = f
BY DEF Copies

LEMMA OneCopyMore ==
    ASSUME NEW f \in Seq(Nat), NEW c \in Nat, NEW n \in Nat
    PROVE  f \o Copies(n + 1, c) = Append(f \o Copies(n, c), c)
BY DEF Copies

LEMMA SomeCopies ==
    ASSUME NEW n \in Nat, NEW c \in Nat, NEW k \in 0..n
    PROVE  SubSeq(Copies(n, c), 1, k) = Copies(k, c) /\ SubSeq(Copies(n, c), k + 1, n) = Copies(n - k, c)
<1>1. SubSeq(Copies(n, c), 1, k) = Copies(k, c)
  BY DEF Copies
<1>2. SubSeq(Copies(n, c), k + 1, n) = Copies(n - k, c)
  BY DEF Copies
<1> QED BY <1>1, <1>2

LEMMA ConcatTyped ==
    ASSUME NEW u \in Seq(Nat), NEW r \in Seq(Nat)
    PROVE  u \o r \in Seq(Nat) /\ Len(u \o r) = Len(u) + Len(r)
OBVIOUS

LEMMA SameEntries ==
    ASSUME NEW f \in Seq(Nat), NEW g \in Seq(Nat), Len(f) = Len(g), \A i \in 1..Len(f) : f[i] = g[i]
    PROVE  f = g
BY SMTT(30)

LEMMA PutTogether ==
    ASSUME NEW a \in Seq(Nat), NEW b \in Seq(Nat), NEW u \in Seq(Nat), Len(u) = Len(a) + Len(b),
           \A i \in 1..Len(a) : a[i] = u[i], \A i \in 1..Len(b) : b[i] = u[Len(a) + i]
    PROVE  u = a \o b
<1>1. Len(a \o b) = Len(u) /\ a \o b \in Seq(Nat)
  OBVIOUS
<1>2. ASSUME NEW i \in 1..Len(u) PROVE (a \o b)[i] = u[i]
  <2>1. CASE i <= Len(a)
    BY <2>1
  <2>2. CASE i > Len(a)
    <3>1. i - Len(a) \in 1..Len(b) /\ Len(a) + (i - Len(a)) = i
      BY <2>2
    <3>2. (a \o b)[i] = b[i - Len(a)]
      BY <2>2, <3>1
    <3>3. b[i - Len(a)] = u[Len(a) + (i - Len(a))]
      BY <3>1
    <3> QED BY <3>1, <3>2, <3>3
  <2> QED BY <2>1, <2>2
<1>3. PICK g : g = a \o b
  OBVIOUS
<1>4. g \in Seq(Nat) /\ Len(g) = Len(u) /\ \A i \in 1..Len(g) : g[i] = u[i]
  BY <1>1, <1>2, <1>3
<1>5. g = u
  BY ONLY <1>4, SameEntries, u \in Seq(Nat)
<1> QED BY <1>3, <1>5

LEMMA PartsTyped ==
    ASSUME NEW u \in Seq(Nat), NEW k \in 0..Len(u)
    PROVE  /\ SubSeq(u, 1, k) \in Seq(Nat) /\ Len(SubSeq(u, 1, k)) = k
           /\ SubSeq(u, k + 1, Len(u)) \in Seq(Nat)
           /\ u = SubSeq(u, 1, k) \o SubSeq(u, k + 1, Len(u))
<1>1. /\ SubSeq(u, 1, k) \in Seq(Nat) /\ Len(SubSeq(u, 1, k)) = k
      /\ SubSeq(u, k + 1, Len(u)) \in Seq(Nat)
  OBVIOUS
<1>2. u = SubSeq(u, 1, k) \o SubSeq(u, k + 1, Len(u))
  <2>1. PICK a, b : a = SubSeq(u, 1, k) /\ b = SubSeq(u, k + 1, Len(u))
    OBVIOUS
  <2>2. /\ a \in Seq(Nat) /\ b \in Seq(Nat) /\ Len(a) = k /\ Len(b) = Len(u) - k /\ k \in Nat
        /\ \A i \in 1..k : a[i] = u[i]
        /\ \A i \in 1..(Len(u) - k) : b[i] = u[k + i]
    BY <2>1, SMTT(30)
  <2>3. Len(u) = Len(a) + Len(b)
    BY <2>2
  <2>4. \A i \in 1..Len(b) : b[i] = u[Len(a) + i]
    BY <2>2
  <2>5. u = a \o b
    BY <2>2, <2>3, <2>4, PutTogether
  <2> QED BY <2>1, <2>5
<1> QED BY <1>1, <1>2

LEMMA AllOfIt ==
    ASSUME NEW u \in Seq(Nat)
    PROVE  SubSeq(u, 1, Len(u)) = u /\ SubSeq(u, Len(u) + 1, Len(u)) = <<>> /\ <<>> \o u = u
OBVIOUS

LEMMA ConcatThree ==
    ASSUME NEW a \in Seq(Nat), NEW b \in Seq(Nat), NEW r \in Seq(Nat)
    PROVE  (a \o b) \o r = a \o (b \o r)
<1>1. PICK t, g : t = b \o r /\ g = (a \o b) \o r
  OBVIOUS
<1>2. /\ t \in Seq(Nat) /\ g \in Seq(Nat) /\ Len(g) = Len(a) + Len(t)
      /\ \A i \in 1..Len(a) : a[i] = g[i]
  BY <1>1
<1>3. \A i \in 1..Len(t) : t[i] = g[Len(a) + i]
  BY <1>1
<1>4. g = a \o t
  BY ONLY a \in Seq(Nat), <1>2, <1>3, PutTogether
<1> QED BY <1>1, <1>4

LEMMA CutFirstLater ==
    ASSUME NEW u \in Seq(Nat), NEW r \in Seq(Nat), NEW k \in 0..Len(r)
    PROVE  SubSeq(u \o r, 1, Len(u) + k) = u \o SubSeq(r, 1, k)
<1>1. PICK v : v = u \o r
  OBVIOUS
<1>2. /\ v \in Seq(Nat) /\ Len(v) = Len(u) + Len(r) /\ Len(u) \in Nat
      /\ \A i \in 1..Len(u) : u[i] = v[i]
  BY <1>1
<1>3. \A i \in 1..Len(r) : r[i] = v[Len(u) + i]
  BY <1>1
<1>4. PICK t, g : t = SubSeq(r, 1, k) /\ g = SubSeq(v, 1, Len(u) + k)
  OBVIOUS
<1>5. t \in Seq(Nat) /\ Len(t) = k /\ \A i \in 1..k : t[i] = r[i]
  BY <1>4
<1>6. Len(u) + k \in 0..Len(v)
  BY <1>2
<1>7. g \in Seq(Nat) /\ Len(g) = Len(u) + k /\ \A i \in 1..(Len(u) + k) : g[i] = v[i]
  BY <1>2, <1>4, <1>6
<1>8. Len(g) = Len(u) + Len(t) /\ \A i \in 1..Len(u) : u[i] = g[i]
  BY <1>2, <1>5, <1>7
<1>9. \A i \in 1..Len(t) : t[i] = g[Len(u) + i]
  <2>1. \A i \in 1..Len(t) : i \in 1..Len(r) /\ Len(u) + i \in 1..(Len(u) + k)
    BY <1>2, <1>5, SMTT(30)
  <2> QED BY ONLY <1>3, <1>5, <1>7, <2>1
<1>10. g = u \o t
  BY ONLY u \in Seq(Nat), <1>5, <1>7, <1>8, <1>9, PutTogether
<1> QED BY <1>1, <1>4, <1>10

LEMMA CutRestLater ==
    ASSUME NEW u \in Seq(Nat), NEW r \in Seq(Nat), NEW k \in 0..Len(r)
    PROVE  SubSeq(u \o r, Len(u) + k + 1, Len(u \o r)) = SubSeq(r, k + 1, Len(r))
OBVIOUS

LEMMA CutFirstEarly ==
    ASSUME NEW u \in Seq(Nat), NEW r \in Seq(Nat), NEW k \in 0..Len(u)
    PROVE  SubSeq(u \o r, 1, k) = SubSeq(u, 1, k)
OBVIOUS

LEMMA CutRestEarly ==
    ASSUME NEW u \in Seq(Nat), NEW r \in Seq(Nat), NEW k \in 0..Len(u)
    PROVE  SubSeq(u \o r, k + 1, Len(u \o r)) = SubSeq(u, k + 1, Len(u)) \o r
<1>1. PICK a, b : a = SubSeq(u, 1, k) /\ b = SubSeq(u, k + 1, Len(u))
  OBVIOUS
<1>2. a \in Seq(Nat) /\ b \in Seq(Nat) /\ Len(a) = k /\ u = a \o b
  BY <1>1, PartsTyped
<1>3. PICK t : t = b \o r
  OBVIOUS
<1>4. t \in Seq(Nat) /\ u \o r = a \o t
  <2>1. t \in Seq(Nat)
    BY <1>2, <1>3
  <2>2. (a \o b) \o r = a \o (b \o r)
    BY ONLY <1>2, r \in Seq(Nat), ConcatThree, ZenonT(30)
  <2> QED BY ONLY <1>2, <1>3, <2>1, <2>2
<1>5. SubSeq(a \o t, Len(a) + 0 + 1, Len(a \o t)) = SubSeq(t, 0 + 1, Len(t))
  <2>1. 0 \in 0..Len(t)
    BY <1>4
  <2> QED BY <1>2, <1>4, <2>1, CutRestLater
<1>6. SubSeq(t, 0 + 1, Len(t)) = t
  BY <1>4, AllOfIt
<1>7. Len(a) + 0 + 1 = k + 1
  BY <1>2
<1> QED BY <1>1, <1>3, <1>4, <1>5, <1>6, <1>7

\* A number of equal entries more.
LEMMA TotalCopies ==
    ASSUME NEW f \in Seq(Nat), NEW c \in Nat, NEW n \in Nat
    PROVE  Total(f \o Copies(n, c)) = Total(f) + n * c
<1> DEFINE sum(k) == Total(f \o Copies(k, c))
           T == {k \in Nat : sum(k) = Total(f) + k * c}
<1>1. Total(f) \in Nat
  BY TotalNat
<1>2. sum(0) = Total(f)
  BY NoCopies
<1>3. ASSUME NEW k \in Nat PROVE sum(k + 1) = sum(k) + c
  <2>1. PICK g, h : g = f \o Copies(k, c) /\ h = f \o Copies(k + 1, c)
    OBVIOUS
  <2>2. g \in Seq(Nat) /\ h = Append(g, c)
    <3>1. Copies(k, c) \in Seq(Nat)
      BY CopiesTyped
    <3> QED BY <2>1, <3>1, ConcatTyped, OneCopyMore
  <2>3. /\ h \in Seq(Nat) /\ Len(h) = Len(g) + 1 /\ h[Len(h)] = c
        /\ \A i \in 1..Len(g) : g[i] = h[i]
    BY <2>2
  <2>4. Total(h) = Total(g) + h[Len(h)]
    BY <2>2, <2>3, TotalAppend
  <2> QED BY <2>1, <2>3, <2>4
<1> HIDE DEF sum
<1>4. 0 \in T
  BY <1>1, <1>2
<1>5. ASSUME NEW k \in Nat, k \in T PROVE k + 1 \in T
  <2>1. sum(k + 1) = (Total(f) + k * c) + c
    BY <1>3, <1>5
  <2>2. (k + 1) * c = k * c + c /\ k * c \in Nat
    OBVIOUS
  <2> QED BY <1>1, <2>1, <2>2
<1>6. Nat \subseteq T
  <2> HIDE DEF T
  <2> QED BY <1>4, <1>5, SetInduction
<1> QED BY <1>6 DEF sum

\* Units with n more of one cost.
WithCopies(units, n, c) == units \o Copies(n, c)

\* n units of a row come after the units u. If the quantity q ends within u ...
LEMMA RowNotNeeded ==
    ASSUME NEW u \in Seq(Nat), NEW n \in Nat, NEW c \in Nat, NEW q \in 0..Len(u)
    PROVE  LET v == WithCopies(u, n, c)
           IN  /\ q <= Len(v) /\ SubSeq(v, 1, q) = SubSeq(u, 1, q)
               /\ SubSeq(v, q + 1, Len(v)) = WithCopies(SubSeq(u, q + 1, Len(u)), n, c)
<1>1. PICK r : r = Copies(n, c)
  OBVIOUS
<1>2. r \in Seq(Nat) /\ Len(r) = n
  BY <1>1, CopiesTyped
<1>3. Len(u \o r) = Len(u) + n /\ Len(u) \in Nat
  BY <1>2, ConcatTyped
<1>4. q <= Len(u \o r)
  BY <1>3
<1>5. SubSeq(u \o r, 1, q) = SubSeq(u, 1, q)
  BY <1>2, CutFirstEarly
<1>6. SubSeq(u \o r, q + 1, Len(u \o r)) = SubSeq(u, q + 1, Len(u)) \o r
  BY <1>2, CutRestEarly
<1> QED BY <1>1, <1>4, <1>5, <1>6 DEF WithCopies

\* ... and if k of the row are needed.
LEMMA RowNeeded ==
    ASSUME NEW u \in Seq(Nat), NEW n \in Nat, NEW c \in Nat, NEW k \in 0..n
    PROVE  LET v == WithCopies(u, n, c)
           IN  /\ Len(v) = Len(u) + n
               /\ Total(SubSeq(v, 1, Len(u) + k)) = Total(u) + k * c
               /\ SubSeq(v, Len(u) + k + 1, Len(v)) = Copies(n - k, c)
<1>1. PICK r : r = Copies(n, c)
  OBVIOUS
<1>2. r \in Seq(Nat) /\ Len(r) = n /\ k \in 0..Len(r) /\ k \in Nat
  BY <1>1, CopiesTyped
<1>3. Len(u \o r) = Len(u) + n
  BY <1>2, ConcatTyped
<1>4. SubSeq(u \o r, 1, Len(u) + k) = u \o Copies(k, c)
  <2>1. SubSeq(u \o r, 1, Len(u) + k) = u \o SubSeq(r, 1, k)
    BY <1>2, CutFirstLater
  <2>2. SubSeq(r, 1, k) = Copies(k, c)
    BY <1>1, SomeCopies
  <2> QED BY <2>1, <2>2
<1>5. SubSeq(u \o r, Len(u) + k + 1, Len(u \o r)) = Copies(n - k, c)
  <2>1. SubSeq(u \o r, Len(u) + k + 1, Len(u \o r)) = SubSeq(r, k + 1, n)
    BY <1>2, CutRestLater
  <2>2. SubSeq(r, k + 1, n) = Copies(n - k, c)
    BY <1>1, SomeCopies
  <2> QED BY <2>1, <2>2
<1>6. Total(u \o Copies(k, c)) = Total(u) + k * c
  BY <1>2, TotalCopies
<1> QED BY <1>1, <1>3, <1>4, <1>5, <1>6 DEF WithCopies

\* The recursive function of the units unfolds.
LEMMA UnitsUnfold ==
    ASSUME NEW ls, Len(ls) \in Nat, NEW w
    PROVE  LET units == UnitsTo(ls, w)
           IN  /\ units[0] = <<>>
               /\ \A i \in 1..Len(ls) : units[i] = AddUnits(units[i - 1], ls[i], w)
<1> DEFINE none == <<>>
           Is(g, m) == g = [i \in 0..m |-> IF i = 0 THEN none ELSE AddUnits(g[i - 1], ls[i], w)]
           T == {m \in Nat : \E g : Is(g, m)}
<1> HIDE DEF none
<1>1. 0 \in T
  <2> DEFINE g == [i \in 0..0 |-> none]
  <2>1. Is(g, 0)
    OBVIOUS
  <2> QED BY <2>1
<1>2. ASSUME NEW m \in T PROVE m + 1 \in T
  <2>1. PICK g : Is(g, m)
    OBVIOUS
  <2> DEFINE h == [i \in 0..(m + 1) |-> IF i = m + 1 THEN AddUnits(g[m], ls[m + 1], w) ELSE g[i]]
             u == [i \in 0..(m + 1) |-> IF i = 0 THEN none ELSE AddUnits(h[i - 1], ls[i], w)]
  <2>2. m \in Nat /\ DOMAIN g = 0..m
    BY <2>1
  <2>3. ASSUME NEW i \in 0..(m + 1)
        PROVE  h[i] = IF i = 0 THEN none ELSE AddUnits(h[i - 1], ls[i], w)
    <3>1. CASE i = 0
      BY <2>1, <2>2, <3>1
    <3>2. CASE i \in 1..m
      <4>1. i \in 0..m /\ i - 1 \in 0..m /\ i # m + 1 /\ i - 1 # m + 1 /\ i - 1 \in 0..(m + 1)
        BY <2>2, <3>2
      <4>2. g[i] = AddUnits(g[i - 1], ls[i], w)
        BY <2>1, <3>2, <4>1
      <4> QED BY <4>1, <4>2, <3>2
    <3>3. CASE i = m + 1
      <4>1. i - 1 = m /\ m # m + 1 /\ m \in 0..(m + 1) /\ i # 0
        BY <2>2, <3>3
      <4> QED BY <4>1, <3>3
    <3> QED BY <2>2, <3>1, <3>2, <3>3
  <2>4. h = u
    <3>1. \A i \in 0..(m + 1) : u[i] = IF i = 0 THEN none ELSE AddUnits(h[i - 1], ls[i], w)
      OBVIOUS
    <3>2. \A i \in 0..(m + 1) : h[i] = u[i]
      BY <2>3, <3>1
    <3>3. h = [i \in 0..(m + 1) |-> h[i]] /\ u = [i \in 0..(m + 1) |-> u[i]]
      OBVIOUS
    <3> HIDE DEF h, u
    <3> QED BY <3>2, <3>3
  <2>5. Is(h, m + 1)
    BY <2>4
  <2> HIDE DEF h, u
  <2>6. \E x : Is(x, m + 1)
    BY <2>5
  <2> QED BY <2>2, <2>6
<1>3. Nat \subseteq T
  <2> HIDE DEF T
  <2> QED BY <1>1, <1>2, SetInduction
<1>4. \E g : Is(g, Len(ls))
  BY <1>3
<1>5. UnitsTo(ls, w) = CHOOSE g : Is(g, Len(ls))
  BY DEF UnitsTo, none
<1>6. Is(UnitsTo(ls, w), Len(ls))
  <2> HIDE DEF Is
  <2> QED BY <1>4, <1>5
<1> DEFINE units == UnitsTo(ls, w)
<1>7. units = [i \in 0..Len(ls) |-> IF i = 0 THEN none ELSE AddUnits(units[i - 1], ls[i], w)]
  BY <1>6
<1> HIDE DEF units
<1>8. units[0] = none
  BY <1>7
<1>9. \A i \in 1..Len(ls) : units[i] = AddUnits(units[i - 1], ls[i], w)
  BY <1>7
<1> QED BY <1>8, <1>9 DEF units, none

LEMMA AddTyped ==
    ASSUME NEW units \in Seq(Nat), NEW row \in Layer, NEW w
    PROVE  AddUnits(units, row, w) \in Seq(Nat)
<1>1. PICK n, r : n = (IF row.warehouse = w THEN row.quantity ELSE 0) /\ r = Copies(n, row.cost)
  OBVIOUS
<1>2. n \in Nat /\ row.cost \in Nat
  BY <1>1 DEF Layer
<1>3. r \in Seq(Nat)
  BY <1>1, <1>2, CopiesTyped
<1>4. AddUnits(units, row, w) = units \o r
  BY <1>1 DEF AddUnits
<1> QED BY <1>3, <1>4, ConcatTyped

LEMMA UnitsTyped ==
    ASSUME NEW ls \in Seq(Layer), NEW w
    PROVE  Units(ls, w) \in Seq(Nat) /\ \A i \in 0..Len(ls) : UnitsTo(ls, w)[i] \in Seq(Nat)
<1> DEFINE units == UnitsTo(ls, w)
           T == {i \in Nat : i <= Len(ls) => units[i] \in Seq(Nat)}
<1>1. Len(ls) \in Nat /\ \A i \in 1..Len(ls) : ls[i] \in Layer
  OBVIOUS
<1>2. /\ units[0] = <<>>
      /\ \A i \in 1..Len(ls) : units[i] = AddUnits(units[i - 1], ls[i], w)
  BY <1>1, UnitsUnfold
<1> HIDE DEF units
<1>3. 0 \in T
  <2>1. <<>> \in Seq(Nat)
    OBVIOUS
  <2>2. units[0] \in Seq(Nat)
    BY <1>2, <2>1
  <2> QED BY <2>2
<1>4. ASSUME NEW i \in Nat, i \in T PROVE i + 1 \in T
  <2> SUFFICES ASSUME i + 1 <= Len(ls) PROVE units[i + 1] \in Seq(Nat)
    OBVIOUS
  <2>1. i + 1 \in 1..Len(ls) /\ i + 1 - 1 = i /\ units[i] \in Seq(Nat)
    BY <1>1, <1>4
  <2>2. units[i + 1] = AddUnits(units[i], ls[i + 1], w)
    BY <1>2, <2>1
  <2> QED BY <1>1, <2>1, <2>2, AddTyped
<1>5. Nat \subseteq T
  <2> HIDE DEF T
  <2> QED BY <1>3, <1>4, SetInduction
<1>6. \A i \in 0..Len(ls) : units[i] \in Seq(Nat)
  BY <1>1, <1>5
<1>7. units[Len(ls)] \in Seq(Nat)
  BY <1>1, <1>6
<1> QED BY <1>6, <1>7 DEF units, Units

\* A row more.
LEMMA UnitsAppend ==
    ASSUME NEW ls \in Seq(Layer), NEW row \in Layer, NEW w
    PROVE  Units(Append(ls, row), w) = AddUnits(Units(ls, w), row, w)
<1> DEFINE more == Append(ls, row)
           a == UnitsTo(ls, w)
           b == UnitsTo(more, w)
           T == {i \in Nat : i <= Len(ls) => a[i] = b[i]}
<1>1. /\ Len(ls) \in Nat /\ Len(more) = Len(ls) + 1 /\ Len(more) \in Nat
      /\ \A i \in 1..Len(ls) : more[i] = ls[i]
      /\ more[Len(ls) + 1] = row
  OBVIOUS
<1> HIDE DEF more
<1>2. a[0] = <<>> /\ \A i \in 1..Len(ls) : a[i] = AddUnits(a[i - 1], ls[i], w)
  BY <1>1, UnitsUnfold
<1>3. b[0] = <<>> /\ \A i \in 1..Len(more) : b[i] = AddUnits(b[i - 1], more[i], w)
  BY <1>1, UnitsUnfold
<1> HIDE DEF a, b
<1>4. 0 \in T
  BY <1>2, <1>3
<1>5. ASSUME NEW i \in Nat, i \in T PROVE i + 1 \in T
  <2> SUFFICES ASSUME i + 1 <= Len(ls) PROVE a[i + 1] = b[i + 1]
    OBVIOUS
  <2>1. i + 1 \in 1..Len(ls) /\ i + 1 \in 1..Len(more) /\ i + 1 - 1 = i /\ a[i] = b[i]
    BY <1>1, <1>5
  <2>2. a[i + 1] = AddUnits(a[i], ls[i + 1], w) /\ b[i + 1] = AddUnits(b[i], more[i + 1], w)
    BY <1>2, <1>3, <2>1
  <2> QED BY <1>1, <2>1, <2>2
<1>6. Nat \subseteq T
  <2> HIDE DEF T
  <2> QED BY <1>4, <1>5, SetInduction
<1>7. a[Len(ls)] = b[Len(ls)]
  BY <1>1, <1>6
<1>8. b[Len(more)] = AddUnits(b[Len(ls)], row, w)
  <2>1. Len(ls) + 1 \in 1..Len(more) /\ Len(ls) + 1 - 1 = Len(ls)
    BY <1>1
  <2> QED BY <1>1, <1>3, <2>1
<1> QED BY <1>7, <1>8 DEF Units, a, b, more

\* What the loop has found out agrees with the units it has passed.
Agrees(done, units, w, quantity) ==
    LET taken == IF quantity <= Len(units) THEN quantity ELSE Len(units)
    IN  /\ done.remaining = quantity - taken
        /\ done.totalCost = Total(SubSeq(units, 1, taken))
        /\ Units(done.left, w) = SubSeq(units, taken + 1, Len(units))

Progress == [remaining : Nat, totalCost : Nat, left : Seq(Layer)]

\* What one row leaves behind: itself, less what was taken, unless that is all.
LEMMA RowTaken ==
    ASSUME NEW done \in Progress, NEW row \in Layer, NEW w,
           NEW n \in Nat, n = (IF row.warehouse = w THEN row.quantity ELSE 0),
           NEW take \in Nat, take = (IF n <= done.remaining THEN n ELSE done.remaining)
    PROVE  LET next == ConsumeLayer(w, done, row)
               rest == [row EXCEPT !.quantity = row.quantity - take]
           IN  /\ next.remaining = done.remaining - take
               /\ next.totalCost = done.totalCost + take * row.cost
               /\ next.left = (IF take = row.quantity THEN done.left ELSE Append(done.left, rest))
               /\ next = [remaining |-> next.remaining, totalCost |-> next.totalCost, left |-> next.left]
<1>1. /\ row.quantity \in Nat \ {0} /\ row.cost \in Nat
      /\ done.remaining \in Nat /\ done.totalCost \in Nat /\ done.left \in Seq(Layer)
  BY DEF Layer, Progress
<1>2. PICK rest, next : /\ rest = [row EXCEPT !.quantity = row.quantity - take]
                        /\ next = ConsumeLayer(w, done, row)
  OBVIOUS
<1>3. /\ next.remaining = done.remaining - take
      /\ next.totalCost = done.totalCost + take * row.cost
      /\ next.left = (IF take = row.quantity THEN done.left ELSE Append(done.left, rest))
  <2>1. (IF row.warehouse = w THEN Min({row.quantity, done.remaining}) ELSE 0) = take
    <3>1. CASE row.warehouse = w
      <4>1. Min({row.quantity, done.remaining})
              = IF row.quantity <= done.remaining THEN row.quantity ELSE done.remaining
        BY <1>1, MinOfTwo
      <4> QED BY <3>1, <4>1
    <3>2. CASE row.warehouse # w
      BY <3>2
    <3> QED BY <3>1, <3>2
  <2> QED BY <1>2, <2>1 DEF ConsumeLayer
<1>a. next = [remaining |-> next.remaining, totalCost |-> next.totalCost, left |-> next.left]
  BY <1>2 DEF ConsumeLayer
<1> QED BY <1>2, <1>3, <1>a

\* In its own warehouse ...
LEMMA RowLeft ==
    ASSUME NEW done \in Progress, NEW row \in Layer, NEW w,
           NEW n \in Nat, n = (IF row.warehouse = w THEN row.quantity ELSE 0),
           NEW take \in Nat, take = (IF n <= done.remaining THEN n ELSE done.remaining)
    PROVE  LET next == ConsumeLayer(w, done, row)
           IN  /\ next.remaining = done.remaining - take
               /\ next \in Progress
               /\ next.totalCost = done.totalCost + take * row.cost
               /\ Units(next.left, w) = WithCopies(Units(done.left, w), n - take, row.cost)
<1>1. /\ row.quantity \in Nat \ {0} /\ row.cost \in Nat
      /\ done.remaining \in Nat /\ done.totalCost \in Nat /\ done.left \in Seq(Layer)
  BY DEF Layer, Progress
<1>2. PICK rest, next : /\ rest = [row EXCEPT !.quantity = row.quantity - take]
                        /\ next = ConsumeLayer(w, done, row)
  OBVIOUS
<1>3. /\ next.remaining = done.remaining - take
      /\ next.totalCost = done.totalCost + take * row.cost
      /\ next.left = (IF take = row.quantity THEN done.left ELSE Append(done.left, rest))
      /\ next = [remaining |-> next.remaining, totalCost |-> next.totalCost, left |-> next.left]
  BY <1>2, RowTaken
<1>b. next.left \in Seq(Layer) => next \in Progress
  <2>1. take * row.cost \in Nat
    BY <1>1
  <2>2. take <= done.remaining
    BY <1>1
  <2>3. next.remaining \in Nat
    BY <1>1, <1>3, <2>2
  <2>4. next.totalCost \in Nat
    BY <1>1, <1>3, <2>1
  <2> QED BY <1>3, <2>3, <2>4 DEF Progress
<1>4. CASE take = row.quantity
  <2>1. row.warehouse = w /\ n - take = 0 /\ next.left = done.left
    BY <1>1, <1>3, <1>4
  <2>2. Units(done.left, w) \in Seq(Nat)
    BY <1>1, UnitsTyped
  <2>3. Units(next.left, w) = WithCopies(Units(done.left, w), n - take, row.cost)
    BY <1>1, <2>1, <2>2, NoCopies DEF WithCopies
  <2> QED BY <1>1, <1>2, <1>3, <1>b, <2>1, <2>3
<1>5. CASE take # row.quantity
  <2>1. next.left = Append(done.left, rest)
    BY <1>3, <1>5
  <2>2. take < row.quantity
    BY <1>1, <1>5
  <2>3. /\ rest \in Layer /\ rest.warehouse = row.warehouse /\ rest.cost = row.cost
        /\ rest.quantity = row.quantity - take
    BY <1>1, <1>2, <2>2 DEF Layer
  <2>4. \A x : Units(next.left, x) = AddUnits(Units(done.left, x), rest, x)
    BY <1>1, <2>1, <2>3, UnitsAppend
  <2>5. (IF row.warehouse = w THEN rest.quantity ELSE 0) = n - take
    <3>1. CASE row.warehouse = w
      BY <2>3, <3>1
    <3>2. CASE row.warehouse # w
      <4>1. n = 0 /\ take = 0
        BY <3>2
      <4> QED BY <3>2, <4>1
    <3> QED BY <3>1, <3>2
  <2>6. Units(next.left, w) = WithCopies(Units(done.left, w), n - take, row.cost)
    BY <2>3, <2>4, <2>5 DEF AddUnits, WithCopies
  <2>8. next.left \in Seq(Layer)
    BY <1>1, <2>1, <2>3
  <2> QED BY <1>2, <1>3, <1>b, <2>6, <2>8
<1> QED BY <1>4, <1>5

\* ... and in another one.
LEMMA RowLeftOther ==
    ASSUME NEW done \in Progress, NEW row \in Layer, NEW w,
           NEW n \in Nat, n = (IF row.warehouse = w THEN row.quantity ELSE 0),
           NEW take \in Nat, take = (IF n <= done.remaining THEN n ELSE done.remaining),
           NEW x, x # w
    PROVE  Units(ConsumeLayer(w, done, row).left, x) = AddUnits(Units(done.left, x), row, x)
<1>1. /\ row.quantity \in Nat \ {0} /\ row.cost \in Nat
      /\ done.remaining \in Nat /\ done.totalCost \in Nat /\ done.left \in Seq(Layer)
  BY DEF Layer, Progress
<1>2. PICK rest, next : /\ rest = [row EXCEPT !.quantity = row.quantity - take]
                        /\ next = ConsumeLayer(w, done, row)
  OBVIOUS
<1>3. /\ next.remaining = done.remaining - take
      /\ next.totalCost = done.totalCost + take * row.cost
      /\ next.left = (IF take = row.quantity THEN done.left ELSE Append(done.left, rest))
      /\ next = [remaining |-> next.remaining, totalCost |-> next.totalCost, left |-> next.left]
  BY <1>2, RowTaken
<1>4. CASE take = row.quantity
  <2>1. row.warehouse = w /\ next.left = done.left
    BY <1>1, <1>3, <1>4
  <2>2. Units(done.left, x) \in Seq(Nat)
    BY <1>1, UnitsTyped
  <2>3. AddUnits(Units(done.left, x), row, x) = Units(done.left, x) \o Copies(0, row.cost)
    BY <2>1 DEF AddUnits
  <2> QED BY <1>1, <1>2, <2>1, <2>2, <2>3, NoCopies
<1>5. CASE take # row.quantity
  <2>1. next.left = Append(done.left, rest)
    BY <1>3, <1>5
  <2>2. take < row.quantity
    BY <1>1, <1>5
  <2>3. /\ rest \in Layer /\ rest.warehouse = row.warehouse /\ rest.cost = row.cost
        /\ rest.quantity = row.quantity - take
    BY <1>1, <1>2, <2>2 DEF Layer
  <2>4. Units(next.left, x) = AddUnits(Units(done.left, x), rest, x)
    BY <1>1, <2>1, <2>3, UnitsAppend
  <2>5. (IF rest.warehouse = x THEN rest.quantity ELSE 0) = (IF row.warehouse = x THEN row.quantity ELSE 0)
    <3>1. CASE row.warehouse = x
      <4>1. take = 0
        BY <1>1, <3>1
      <4> QED BY <1>1, <2>3, <3>1, <4>1
    <3>2. CASE row.warehouse # x
      BY <2>3, <3>2
    <3> QED BY <3>1, <3>2
  <2> QED BY <1>2, <2>3, <2>4, <2>5 DEF AddUnits
<1> QED BY <1>4, <1>5

LEMMA RowAgrees ==
    ASSUME NEW quantity \in Nat, NEW done \in Progress, NEW row \in Layer, NEW w,
           NEW units \in Seq(Nat), Agrees(done, units, w, quantity)
    PROVE  /\ Agrees(ConsumeLayer(w, done, row), AddUnits(units, row, w), w, quantity)
           /\ ConsumeLayer(w, done, row) \in Progress
<1>1. row.quantity \in Nat \ {0} /\ row.cost \in Nat
  BY DEF Layer
<1>2. PICK n, c, m, all, next :
           /\ n = (IF row.warehouse = w THEN row.quantity ELSE 0) /\ c = row.cost /\ m = Len(units)
           /\ all = AddUnits(units, row, w) /\ next = ConsumeLayer(w, done, row)
  OBVIOUS
<1>3. n \in Nat /\ c \in Nat /\ m \in Nat /\ all = WithCopies(units, n, c)
  BY <1>1, <1>2 DEF AddUnits, WithCopies
<1>a. ASSUME NEW take \in Nat,
             take = (IF n <= done.remaining THEN n ELSE done.remaining)
      PROVE  /\ next.remaining = done.remaining - take /\ next \in Progress
             /\ next.totalCost = done.totalCost + take * row.cost
             /\ Units(next.left, w) = WithCopies(Units(done.left, w), n - take, row.cost)
  <2>1. n \in Nat /\ n = (IF row.warehouse = w THEN row.quantity ELSE 0)
    BY <1>2, <1>3
  <2>2. PICK after : after = ConsumeLayer(w, done, row)
    OBVIOUS
  <2>3. after \in Progress
    BY <1>a, <2>1, <2>2, RowLeft
  <2>4. after.remaining = done.remaining - take
    BY <1>a, <2>1, <2>2, RowLeft
  <2>5. after.totalCost = done.totalCost + take * row.cost
    BY <1>a, <2>1, <2>2, RowLeft
  <2>6. Units(after.left, w) = WithCopies(Units(done.left, w), n - take, row.cost)
    BY <1>a, <2>1, <2>2, RowLeft
  <2> QED BY <1>2, <2>2, <2>3, <2>4, <2>5, <2>6
<1>4. CASE quantity <= m
  <2>1. /\ done.remaining = 0
        /\ done.totalCost = Total(SubSeq(units, 1, quantity))
        /\ Units(done.left, w) = SubSeq(units, quantity + 1, Len(units))
    BY <1>2, <1>3, <1>4 DEF Agrees
  <2>2. 0 = (IF n <= done.remaining THEN n ELSE done.remaining)
    BY <1>3, <2>1
  <2>3. /\ next.remaining = done.remaining - 0 /\ next \in Progress
        /\ next.totalCost = done.totalCost + 0 * row.cost
        /\ Units(next.left, w) = WithCopies(Units(done.left, w), n - 0, row.cost)
    BY <2>1, <2>2, <1>a
  <2>4. quantity \in 0..Len(units)
    BY <1>2, <1>3, <1>4
  <2>5. /\ quantity <= Len(all)
        /\ SubSeq(all, 1, quantity) = SubSeq(units, 1, quantity)
        /\ SubSeq(all, quantity + 1, Len(all)) = WithCopies(SubSeq(units, quantity + 1, Len(units)), n, c)
    BY <1>3, <2>4, RowNotNeeded
  <2>6. next.remaining = quantity - quantity
    BY <2>1, <2>3
  <2>7. next.totalCost = Total(SubSeq(all, 1, quantity))
    <3>1. SubSeq(units, 1, quantity) \in Seq(Nat)
      BY <2>4, PartsTyped
    <3>2. Total(SubSeq(units, 1, quantity)) \in Nat
      BY <3>1, TotalNat
    <3>3. 0 * row.cost = 0 /\ Total(SubSeq(units, 1, quantity)) + 0 = Total(SubSeq(units, 1, quantity))
      BY <1>1, <3>2
    <3> QED BY <2>1, <2>3, <2>5, <3>3
  <2>8. Units(next.left, w) = SubSeq(all, quantity + 1, Len(all))
    <3>1. n - 0 = n
      BY <1>3
    <3> QED BY <1>2, <2>1, <2>3, <2>5, <3>1
  <2>9. Agrees(next, all, w, quantity)
    BY <2>5, <2>6, <2>7, <2>8 DEF Agrees
  <2> QED BY <1>2, <2>3, <2>9
<1>5. CASE ~(quantity <= m)
  <2>1. /\ done.remaining = quantity - m
        /\ done.totalCost = Total(SubSeq(units, 1, m))
        /\ Units(done.left, w) = SubSeq(units, m + 1, m)
    BY <1>2, <1>3, <1>5 DEF Agrees
  <2>2. SubSeq(units, 1, m) = units /\ SubSeq(units, m + 1, m) = <<>>
    BY <1>2, AllOfIt
  <2>3. done.remaining \in Nat
    BY <1>3, <1>5, <2>1
  <2>4. PICK take : take = IF n <= done.remaining THEN n ELSE done.remaining
    OBVIOUS
  <2>5. take \in 0..n /\ take \in Nat
    BY <1>3, <2>3, <2>4
  <2>6. /\ next.remaining = done.remaining - take /\ next \in Progress
        /\ next.totalCost = done.totalCost + take * row.cost
        /\ Units(next.left, w) = WithCopies(Units(done.left, w), n - take, row.cost)
    BY <2>3, <2>4, <2>5, <1>a
  <2>7. /\ Len(all) = m + n
        /\ Total(SubSeq(all, 1, m + take)) = Total(units) + take * c
        /\ SubSeq(all, m + take + 1, Len(all)) = Copies(n - take, c)
    <3>1. units \in Seq(Nat) /\ n \in Nat /\ c \in Nat /\ take \in 0..n /\ m = Len(units)
          /\ all = WithCopies(units, n, c)
      BY <1>2, <1>3, <2>5
    <3> QED BY ONLY <3>1, RowNeeded, ZenonT(30)
  <2>8. (IF quantity <= Len(all) THEN quantity ELSE Len(all)) = m + take
    BY <1>3, <1>5, <2>1, <2>4, <2>5, <2>7
  <2>9. next.remaining = quantity - (m + take)
    BY <1>3, <2>1, <2>5, <2>6
  <2>10. next.totalCost = Total(SubSeq(all, 1, m + take))
    BY <1>2, <2>1, <2>2, <2>6, <2>7
  <2>11. Units(next.left, w) = SubSeq(all, m + take + 1, Len(all))
    <3>1. n - take \in Nat
      BY <1>3, <2>5
    <3>2. PICK r : r = Copies(n - take, c)
      OBVIOUS
    <3>3. r \in Seq(Nat)
      BY <1>3, <3>1, <3>2, CopiesTyped
    <3>4. <<>> \o r = r
      BY <3>3
    <3>5. WithCopies(<<>>, n - take, c) = Copies(n - take, c)
      BY <3>2, <3>4 DEF WithCopies
    <3> QED BY <1>2, <2>1, <2>2, <2>6, <2>7, <3>5
  <2>12. Agrees(next, all, w, quantity)
    BY <2>8, <2>9, <2>10, <2>11 DEF Agrees
  <2> QED BY <1>2, <2>6, <2>12
<1> QED BY <1>4, <1>5

LEMMA RowKeepsOthers ==
    ASSUME NEW done \in Progress, NEW row \in Layer, NEW w, NEW x, x # w
    PROVE  Units(ConsumeLayer(w, done, row).left, x) = AddUnits(Units(done.left, x), row, x)
<1>1. PICK n : n = (IF row.warehouse = w THEN row.quantity ELSE 0)
  OBVIOUS
<1>2. PICK take : take = (IF n <= done.remaining THEN n ELSE done.remaining)
  OBVIOUS
<1>3. n \in Nat /\ done.remaining \in Nat
  BY <1>1 DEF Layer, Progress
<1>4. take \in Nat
  BY <1>2, <1>3
<1> QED BY <1>1, <1>2, <1>3, <1>4, RowLeftOther

\* The whole loop.
LEMMA LoopAgrees ==
    ASSUME NEW old \in Seq(Layer), NEW w, NEW quantity \in Nat
    PROVE  LET result == FifoLoop(old, w, quantity)[Len(old)]
           IN  /\ Agrees(result, Units(old, w), w, quantity)
               /\ \A x : x # w => Units(result.left, x) = Units(old, x)
<1> DEFINE after == FifoLoop(old, w, quantity)
           Good(i) == /\ after[i] \in Progress
                      /\ Agrees(after[i], UnitsTo(old, w)[i], w, quantity)
                      /\ \A x : x # w => Units(after[i].left, x) = UnitsTo(old, x)[i]
           T == {i \in Nat : i <= Len(old) => Good(i)}
<1>1. Len(old) \in Nat /\ \A i \in 1..Len(old) : old[i] \in Layer
  OBVIOUS
<1>2. /\ after[0] = [remaining |-> quantity, totalCost |-> 0, left |-> <<>>]
      /\ \A i \in 1..Len(old) : after[i] = ConsumeLayer(w, after[i - 1], old[i])
  BY <1>1, FifoUnfold
<1>3. \A x : UnitsTo(old, x)[0] = <<>>
             /\ \A i \in 1..Len(old) : UnitsTo(old, x)[i] = AddUnits(UnitsTo(old, x)[i - 1], old[i], x)
  BY <1>1, UnitsUnfold
<1> HIDE DEF after
<1>4. 0 \in T
  <2>1. after[0] \in Progress /\ after[0].left = <<>> /\ after[0].remaining = quantity
        /\ after[0].totalCost = 0
    BY <1>2 DEF Progress
  <2>2. \A x : Units(<<>>, x) = <<>>
    <3>1. Len(<<>>) = 0
      OBVIOUS
    <3>2. \A x : UnitsTo(<<>>, x)[0] = <<>>
      BY <3>1, UnitsUnfold
    <3> QED BY <3>1, <3>2 DEF Units
  <2>3. Agrees(after[0], UnitsTo(old, w)[0], w, quantity)
    <3>1. PICK e : e = <<>>
      OBVIOUS
    <3>2. e \in Seq(Nat) /\ Len(e) = 0 /\ SubSeq(e, 1, 0) = e /\ SubSeq(e, 0 + 1, 0) = e
      BY <3>1
    <3>3. Total(e) = 0
      BY <3>2, EmptyTotal
    <3>4. (IF quantity <= Len(e) THEN quantity ELSE Len(e)) = 0
      BY <3>2
    <3>5. Agrees(after[0], e, w, quantity)
      <4>1. after[0].remaining = quantity - 0 /\ after[0].totalCost = Total(SubSeq(e, 1, 0))
        <5>1. quantity - 0 = quantity
          OBVIOUS
        <5>2. PICK f : f = SubSeq(e, 1, 0)
          OBVIOUS
        <5>3. f = e
          BY <3>2, <5>2
        <5> QED BY <2>1, <3>3, <5>1, <5>2, <5>3
      <4>2. Units(after[0].left, w) = SubSeq(e, 0 + 1, Len(e))
        <5>1. after[0].left = e /\ Units(e, w) = e
          BY <2>1, <2>2, <3>1
        <5> QED BY <3>2, <5>1
      <4> QED BY <3>4, <4>1, <4>2 DEF Agrees
    <3> QED BY <1>3, <3>1, <3>5
  <2> QED BY <1>3, <2>1, <2>2, <2>3
<1>5. ASSUME NEW i \in Nat, i \in T PROVE i + 1 \in T
  <2> SUFFICES ASSUME i + 1 <= Len(old) PROVE Good(i + 1)
    OBVIOUS
  <2>1. Good(i) /\ i + 1 \in 1..Len(old) /\ i + 1 - 1 = i /\ i \in 0..Len(old)
    BY <1>1, <1>5
  <2>2. old[i + 1] \in Layer /\ after[i + 1] = ConsumeLayer(w, after[i], old[i + 1])
    BY <1>1, <1>2, <2>1
  <2>3. \A x : UnitsTo(old, x)[i + 1] = AddUnits(UnitsTo(old, x)[i], old[i + 1], x)
    BY <1>3, <2>1
  <2>4. UnitsTo(old, w)[i] \in Seq(Nat)
    BY <2>1, UnitsTyped
  <2>5. /\ Agrees(after[i + 1], UnitsTo(old, w)[i + 1], w, quantity)
        /\ after[i + 1] \in Progress
        /\ \A x : x # w => Units(after[i + 1].left, x) = UnitsTo(old, x)[i + 1]
    <3>1. PICK done, row, units : done = after[i] /\ row = old[i + 1] /\ units = UnitsTo(old, w)[i]
      OBVIOUS
    <3>2. /\ done \in Progress /\ row \in Layer /\ units \in Seq(Nat)
          /\ Agrees(done, units, w, quantity)
      BY <2>1, <2>2, <2>4, <3>1
    <3>3. /\ Agrees(ConsumeLayer(w, done, row), AddUnits(units, row, w), w, quantity)
          /\ ConsumeLayer(w, done, row) \in Progress
      BY <3>2, RowAgrees
    <3>4. ASSUME NEW x, x # w PROVE Units(after[i + 1].left, x) = UnitsTo(old, x)[i + 1]
      <4>1. Units(done.left, x) = UnitsTo(old, x)[i]
        BY <2>1, <3>1, <3>4
      <4>2. Units(ConsumeLayer(w, done, row).left, x) = AddUnits(Units(done.left, x), row, x)
        BY <3>2, <3>4, RowKeepsOthers, ZenonT(30)
      <4> QED BY <2>2, <2>3, <3>1, <4>1, <4>2
    <3> QED BY <2>2, <2>3, <3>1, <3>3, <3>4
  <2> QED BY <2>5
<1>6. Nat \subseteq T
  <2> HIDE DEF T
  <2> QED BY <1>4, <1>5, SetInduction
<1>7. Good(Len(old))
  BY <1>1, <1>6
<1> QED BY <1>7 DEF after, Units

\* calculateFifoConsumption on the table as it is.
LEMMA FifoIsOldestFirst == ASSUME layers \in Seq(Layer) PROVE OldestFirst
<1>1. ASSUME NEW w \in Warehouses, NEW quantity \in 1..(2 * Max(Quantities))
      PROVE  LET result == CalculateFifoConsumption(w, quantity)
                 units == Units(layers, w)
                 taken == Min({quantity, Len(units)})
             IN  /\ result.remaining = quantity - taken
                 /\ result.totalCost = Total(SubSeq(units, 1, taken))
                 /\ Units(result.left, w) = SubSeq(units, taken + 1, Len(units))
                 /\ \A v \in Warehouses \ {w} : Units(result.left, v) = Units(layers, v)
  <2>1. quantity \in Nat
    OBVIOUS
  <2>2. PICK result, units : result = CalculateFifoConsumption(w, quantity) /\ units = Units(layers, w)
    OBVIOUS
  <2>3. units \in Seq(Nat) /\ Len(units) \in Int
    BY <2>2, UnitsTyped
  <2>4. /\ Agrees(result, units, w, quantity)
        /\ \A x : x # w => Units(result.left, x) = Units(layers, x)
    BY <2>1, <2>2, LoopAgrees DEF CalculateFifoConsumption
  <2>5. Min({quantity, Len(units)}) = IF quantity <= Len(units) THEN quantity ELSE Len(units)
    BY <2>1, <2>3, MinOfTwo
  <2> QED BY <2>2, <2>4, <2>5 DEF Agrees
<1> QED BY <1>1 DEF OldestFirst


-----------------------------------------------------------------------------
(***************************************************************************)
(* What the transfers come to.                                             *)
(***************************************************************************)

\* The three sums over the transfers, of any table.
DepartedOf(ts, w) ==
    [k \in 1..Len(ts) |-> IF ts[k].from = w /\ ts[k].status # "cancelled" THEN ts[k].quantity ELSE 0]
ArrivedOf(ts, w) ==
    [k \in 1..Len(ts) |-> IF ts[k].to = w /\ ts[k].status = "received" THEN ts[k].quantity ELSE 0]
CarriedOf(ts) ==
    [k \in 1..Len(ts) |-> IF ts[k].status = "in_transit" /\ ts[k].cost # NoCost
                            THEN ts[k].quantity * ts[k].cost ELSE 0]

LEMMA TransferSums ==
    /\ \A w : Total([k \in Ks |-> Departed(w, k)]) = Total(DepartedOf(transfers, w))
    /\ \A w : Total([k \in Ks |-> Arrived(w, k)]) = Total(ArrivedOf(transfers, w))
    /\ PresentValue = Worth(layers) + Total(CarriedOf(transfers))
<1>1. ASSUME NEW w
      PROVE  /\ [k \in Ks |-> Departed(w, k)] = DepartedOf(transfers, w)
             /\ [k \in Ks |-> Arrived(w, k)] = ArrivedOf(transfers, w)
  BY DEF Ks, Departed, Arrived, DepartedOf, ArrivedOf
<1>2. [k \in Ks |-> Carried(k)] = CarriedOf(transfers)
  BY DEF Ks, Carried, CarriedOf
<1> QED BY <1>1, <1>2 DEF PresentValue

LEMMA TransferSumsNext ==
    /\ \A w : (Total([k \in Ks |-> Departed(w, k)]))' = Total(DepartedOf(transfers', w))
    /\ \A w : (Total([k \in Ks |-> Arrived(w, k)]))' = Total(ArrivedOf(transfers', w))
    /\ PresentValue' = Worth(layers') + Total(CarriedOf(transfers'))
<1>1. ASSUME NEW w
      PROVE  /\ ([k \in Ks |-> Departed(w, k)])' = DepartedOf(transfers', w)
             /\ ([k \in Ks |-> Arrived(w, k)])' = ArrivedOf(transfers', w)
  BY DEF Ks, Departed, Arrived, DepartedOf, ArrivedOf
<1>2. ([k \in Ks |-> Carried(k)])' = CarriedOf(transfers')
  BY DEF Ks, Carried, CarriedOf
<1> QED BY <1>1, <1>2 DEF PresentValue

\* They are sums of natural numbers.
LEMMA TransferColumns ==
    ASSUME NEW ts \in Seq(Transfer)
    PROVE  /\ CarriedOf(ts) \in Seq(Nat) /\ Len(CarriedOf(ts)) = Len(ts) /\ Total(CarriedOf(ts)) \in Nat
           /\ \A w : /\ DepartedOf(ts, w) \in Seq(Nat) /\ Len(DepartedOf(ts, w)) = Len(ts)
                     /\ Total(DepartedOf(ts, w)) \in Nat
                     /\ ArrivedOf(ts, w) \in Seq(Nat) /\ Len(ArrivedOf(ts, w)) = Len(ts)
                     /\ Total(ArrivedOf(ts, w)) \in Nat
<1>1. Len(ts) \in Nat /\ \A k \in 1..Len(ts) : ts[k] \in Transfer
  OBVIOUS
<1>2. \A k \in 1..Len(ts) : ts[k].quantity \in Nat /\ (ts[k].cost # NoCost => ts[k].cost \in Nat)
  BY <1>1 DEF Transfer
<1>3. \A k \in 1..Len(ts) : ts[k].cost # NoCost => ts[k].quantity * ts[k].cost \in Nat
  BY <1>2
<1>4. CarriedOf(ts) \in Seq(Nat) /\ Len(CarriedOf(ts)) = Len(ts)
  BY <1>1, <1>3 DEF CarriedOf
<1>5. ASSUME NEW w
      PROVE  /\ DepartedOf(ts, w) \in Seq(Nat) /\ Len(DepartedOf(ts, w)) = Len(ts)
             /\ ArrivedOf(ts, w) \in Seq(Nat) /\ Len(ArrivedOf(ts, w)) = Len(ts)
  BY <1>1, <1>2 DEF DepartedOf, ArrivedOf
<1> QED BY <1>4, <1>5, TotalsNat

\* initiate adds a transfer that is on the road.
LEMMA TruckLeaves ==
    ASSUME NEW ts \in Seq(Transfer), NEW row \in Transfer, row.status = "in_transit"
    PROVE  LET more == Append(ts, row)
           IN  /\ more \in Seq(Transfer)
               /\ \A w : /\ Total(DepartedOf(more, w))
                              = Total(DepartedOf(ts, w)) + (IF row.from = w THEN row.quantity ELSE 0)
                         /\ Total(ArrivedOf(more, w)) = Total(ArrivedOf(ts, w))
               /\ Total(CarriedOf(more))
                    = Total(CarriedOf(ts)) + (IF row.cost # NoCost THEN row.quantity * row.cost ELSE 0)
<1> DEFINE more == Append(ts, row)
<1>1. more \in Seq(Transfer) /\ Len(more) = Len(ts) + 1 /\ Len(ts) \in Nat /\ Len(more) \in 1..Len(more)
  OBVIOUS
<1>2. (\A k \in 1..Len(ts) : more[k] = ts[k]) /\ more[Len(more)] = row
  OBVIOUS
<1>3. \A k \in 1..Len(ts) : k \in 1..Len(more)
  BY <1>1
<1> HIDE DEF more
<1>4. ASSUME NEW w
      PROVE  /\ Total(DepartedOf(more, w))
                   = Total(DepartedOf(ts, w)) + (IF row.from = w THEN row.quantity ELSE 0)
             /\ Total(ArrivedOf(more, w)) = Total(ArrivedOf(ts, w))
  <2>1. /\ \A k \in 1..Len(ts) : DepartedOf(ts, w)[k] = DepartedOf(more, w)[k]
        /\ DepartedOf(more, w)[Len(more)] = IF row.from = w THEN row.quantity ELSE 0
    BY <1>1, <1>2, <1>3 DEF DepartedOf
  <2>2. /\ \A k \in 1..Len(ts) : ArrivedOf(ts, w)[k] = ArrivedOf(more, w)[k]
        /\ ArrivedOf(more, w)[Len(more)] = 0
    BY <1>1, <1>2, <1>3 DEF ArrivedOf
  <2>3. Total(DepartedOf(more, w)) = Total(DepartedOf(ts, w)) + DepartedOf(more, w)[Len(more)]
    <3>1. PICK f, g : f = DepartedOf(ts, w) /\ g = DepartedOf(more, w)
      OBVIOUS
    <3>2. f \in Seq(Nat) /\ g \in Seq(Nat) /\ Len(f) = Len(ts) /\ Len(g) = Len(more)
      BY <1>1, <3>1, TransferColumns
    <3>3. Len(g) = Len(f) + 1 /\ \A k \in 1..Len(f) : f[k] = g[k]
      BY <1>1, <2>1, <3>1, <3>2
    <3> QED BY <3>1, <3>2, <3>3, TotalAppend
  <2>4. Total(ArrivedOf(more, w)) = Total(ArrivedOf(ts, w)) + ArrivedOf(more, w)[Len(more)]
    <3>1. PICK f, g : f = ArrivedOf(ts, w) /\ g = ArrivedOf(more, w)
      OBVIOUS
    <3>2. f \in Seq(Nat) /\ g \in Seq(Nat) /\ Len(f) = Len(ts) /\ Len(g) = Len(more)
      BY <1>1, <3>1, TransferColumns
    <3>3. Len(g) = Len(f) + 1 /\ \A k \in 1..Len(f) : f[k] = g[k]
      BY <1>1, <2>2, <3>1, <3>2
    <3> QED BY <3>1, <3>2, <3>3, TotalAppend
  <2>5. Total(ArrivedOf(ts, w)) \in Nat
    BY TransferColumns
  <2> QED BY <2>1, <2>2, <2>3, <2>4, <2>5
<1>5. /\ \A k \in 1..Len(ts) : CarriedOf(ts)[k] = CarriedOf(more)[k]
      /\ CarriedOf(more)[Len(more)] = IF row.cost # NoCost THEN row.quantity * row.cost ELSE 0
  BY <1>1, <1>2, <1>3 DEF CarriedOf
<1>6. Total(CarriedOf(more)) = Total(CarriedOf(ts)) + CarriedOf(more)[Len(more)]
  BY <1>1, <1>5, TransferColumns, TotalAppend
<1> QED BY <1>1, <1>4, <1>5, <1>6 DEF more

\* receive and cancel take it off the road.
Stopped(ts, k, status) == [ts EXCEPT ![k].status = status]

LEMMA TruckStops ==
    ASSUME NEW ts \in Seq(Transfer), NEW k \in 1..Len(ts), ts[k].status = "in_transit",
           NEW status \in {"received", "cancelled"}
    PROVE  LET new == Stopped(ts, k, status)
               row == ts[k]
           IN  /\ new \in Seq(Transfer)
               /\ Len(new) = Len(ts)
               /\ \A j \in 1..Len(ts) : new[j].cost = ts[j].cost
               /\ \A w :
                    /\ Total(DepartedOf(new, w)) = Total(DepartedOf(ts, w))
                         - (IF row.from = w /\ status = "cancelled" THEN row.quantity ELSE 0)
                    /\ Total(ArrivedOf(new, w)) = Total(ArrivedOf(ts, w))
                         + (IF row.to = w /\ status = "received" THEN row.quantity ELSE 0)
               /\ Total(CarriedOf(new)) = Total(CarriedOf(ts))
                    - (IF row.cost # NoCost THEN row.quantity * row.cost ELSE 0)
<1> DEFINE new == [ts EXCEPT ![k].status = status]
           row == ts[k]
<1>1. row \in Transfer /\ Len(ts) \in Nat
  OBVIOUS
<1>2. [row EXCEPT !.status = status] \in Transfer
  BY <1>1 DEF Transfer
<1>3. new \in Seq(Transfer) /\ Len(new) = Len(ts)
  BY <1>2
<1>4. /\ \A j \in 1..Len(ts) : j # k => new[j] = ts[j]
      /\ new[k] = [row EXCEPT !.status = status]
  OBVIOUS
<1>5. /\ new[k].from = row.from /\ new[k].to = row.to /\ new[k].quantity = row.quantity
      /\ new[k].cost = row.cost /\ new[k].status = status
  BY <1>1, <1>4 DEF Transfer
<1>6. row.quantity \in Nat /\ (row.cost # NoCost => row.quantity * row.cost \in Nat)
  <2>1. row.quantity \in Nat /\ (row.cost # NoCost => row.cost \in Nat)
    BY <1>1 DEF Transfer
  <2> QED BY <2>1
<1>7. row.status = "in_transit"
  OBVIOUS
<1> HIDE DEF new, row
<1>8. ASSUME NEW w
      PROVE  /\ Total(DepartedOf(new, w)) = Total(DepartedOf(ts, w))
                  - (IF row.from = w /\ status = "cancelled" THEN row.quantity ELSE 0)
             /\ Total(ArrivedOf(new, w)) = Total(ArrivedOf(ts, w))
                  + (IF row.to = w /\ status = "received" THEN row.quantity ELSE 0)
  <2>1. /\ \A j \in 1..Len(ts) : j # k => DepartedOf(new, w)[j] = DepartedOf(ts, w)[j]
        /\ DepartedOf(ts, w)[k] = IF row.from = w THEN row.quantity ELSE 0
        /\ DepartedOf(new, w)[k] = IF row.from = w /\ status # "cancelled" THEN row.quantity ELSE 0
    BY <1>3, <1>4, <1>5, <1>7 DEF DepartedOf, row
  <2>2. /\ \A j \in 1..Len(ts) : j # k => ArrivedOf(new, w)[j] = ArrivedOf(ts, w)[j]
        /\ ArrivedOf(ts, w)[k] = 0
        /\ ArrivedOf(new, w)[k] = IF row.to = w /\ status = "received" THEN row.quantity ELSE 0
    BY <1>3, <1>4, <1>5, <1>7 DEF ArrivedOf, row
  <2>3. Total(DepartedOf(new, w)) + DepartedOf(ts, w)[k] = Total(DepartedOf(ts, w)) + DepartedOf(new, w)[k]
    <3>1. PICK f, g : f = DepartedOf(ts, w) /\ g = DepartedOf(new, w)
      OBVIOUS
    <3>2. f \in Seq(Nat) /\ g \in Seq(Nat) /\ Len(f) = Len(ts) /\ Len(g) = Len(ts)
      BY <1>3, <3>1, TransferColumns
    <3>3. Len(g) = Len(f) /\ k \in 1..Len(f) /\ \A j \in 1..Len(f) : j # k => g[j] = f[j]
      BY <2>1, <3>1, <3>2
    <3> QED BY <3>1, <3>2, <3>3, TotalChange
  <2>4. Total(ArrivedOf(new, w)) + ArrivedOf(ts, w)[k] = Total(ArrivedOf(ts, w)) + ArrivedOf(new, w)[k]
    <3>1. PICK f, g : f = ArrivedOf(ts, w) /\ g = ArrivedOf(new, w)
      OBVIOUS
    <3>2. f \in Seq(Nat) /\ g \in Seq(Nat) /\ Len(f) = Len(ts) /\ Len(g) = Len(ts)
      BY <1>3, <3>1, TransferColumns
    <3>3. Len(g) = Len(f) /\ k \in 1..Len(f) /\ \A j \in 1..Len(f) : j # k => g[j] = f[j]
      BY <2>2, <3>1, <3>2
    <3> QED BY <3>1, <3>2, <3>3, TotalChange
  <2>5. /\ Total(DepartedOf(new, w)) \in Nat /\ Total(DepartedOf(ts, w)) \in Nat
        /\ Total(ArrivedOf(new, w)) \in Nat /\ Total(ArrivedOf(ts, w)) \in Nat
    BY <1>3, TransferColumns
  <2>6. Total(DepartedOf(new, w)) = Total(DepartedOf(ts, w))
          - (IF row.from = w /\ status = "cancelled" THEN row.quantity ELSE 0)
    BY <1>6, <2>1, <2>3, <2>5
  <2>7. Total(ArrivedOf(new, w)) = Total(ArrivedOf(ts, w))
          + (IF row.to = w /\ status = "received" THEN row.quantity ELSE 0)
    BY <1>6, <2>2, <2>4, <2>5
  <2> QED BY <2>6, <2>7
<1>9. Total(CarriedOf(new)) = Total(CarriedOf(ts)) - (IF row.cost # NoCost THEN row.quantity * row.cost ELSE 0)
  <2>1. /\ \A j \in 1..Len(ts) : j # k => CarriedOf(new)[j] = CarriedOf(ts)[j]
        /\ CarriedOf(ts)[k] = IF row.cost # NoCost THEN row.quantity * row.cost ELSE 0
        /\ CarriedOf(new)[k] = 0
    BY <1>3, <1>4, <1>5, <1>7 DEF CarriedOf, row
  <2>2. Total(CarriedOf(new)) + CarriedOf(ts)[k] = Total(CarriedOf(ts)) + CarriedOf(new)[k]
    BY <1>3, <2>1, TransferColumns, TotalChange, SMTT(30)
  <2>3. Total(CarriedOf(new)) \in Nat /\ Total(CarriedOf(ts)) \in Nat
    BY <1>3, TransferColumns
  <2> QED BY <1>6, <2>1, <2>2, <2>3
<1>10. \A j \in 1..Len(ts) : new[j].cost = ts[j].cost
  BY <1>4, <1>5 DEF row
<1> QED BY <1>3, <1>8, <1>9, <1>10 DEF new, row, Stopped

-----------------------------------------------------------------------------
(***************************************************************************)
(* What a movement costs.                                                  *)
(***************************************************************************)

\* The types of the goods and their bookkeeping, and of the documents.
GoodsTyped ==
    /\ method \in {"fifo", "weighted_average"}
    /\ level \in [Warehouses -> Int] /\ booked \in [Warehouses -> Int]
    /\ average \in [Warehouses -> Nat \union {NoCost}]
    /\ layers \in Seq(Layer)
    /\ transfers \in Seq(Transfer)
    /\ value \in [bought : Nat, spent : Nat, dearest : Nat, blended : Nat, short : BOOLEAN]
    /\ moves \in 0..MaxMoves
PaperTyped ==
    doc \in [Documents -> Document] /\ job \in [Calls -> Job] /\ fails \in 0..MaxFails

\* Goods are within the cost m: no average, layer or truck is above it.
Within(m) ==
    /\ \A w \in Warehouses : average[w] # NoCost => average[w] <= m
    /\ \A i \in 1..Len(layers) : layers[i].cost <= m
    /\ \A k \in Ks : transfers[k].cost # NoCost => transfers[k].cost <= m

\* Taking a quantity from a warehouse: what is spent leaves the layers, and the cost
\* per unit is within the costs and, but for rounding, what was spent on it.
LEMMA IssueIs ==
    ASSUME GoodsTyped, NEW m \in Nat, Within(m), NEW w \in Warehouses, NEW quantity \in Nat \ {0}
    PROVE  LET left == LayersAfterIssue(w, quantity)
               cost == IssueCost(w, quantity)
           IN  /\ left \in Seq(Layer)
               /\ \A i \in 1..Len(left) : left[i].cost <= m
               /\ Spent(w, quantity) \in Nat
               /\ Consumed(w, quantity) \in 0..quantity
               /\ method = "fifo" => Worth(left) + Spent(w, quantity) = Worth(layers)
               /\ cost \in Nat \union {NoCost}
               /\ cost # NoCost => cost <= m
               /\ method = "fifo" /\ ~Layered(w) => cost = NoCost /\ Spent(w, quantity) = 0
               /\ method = "fifo" /\ Layered(w) =>
                    /\ cost \in Nat
                    /\ Consumed(w, quantity) > 0
                    /\ 2 * (Consumed(w, quantity) * cost) <= 2 * Spent(w, quantity) + Consumed(w, quantity)
                    /\ 2 * Spent(w, quantity) <= 2 * (Consumed(w, quantity) * cost) + Consumed(w, quantity)
<1> DEFINE result == CalculateFifoConsumption(w, quantity)
           consumed == quantity - result.remaining
           cost == IssueCost(w, quantity)
<1>1. /\ method \in {"fifo", "weighted_average"} /\ layers \in Seq(Layer)
      /\ average[w] \in Nat \union {NoCost}
  BY DEF GoodsTyped
<1>2. \A i \in 1..Len(layers) : layers[i].cost <= m
  BY DEF Within
<1>3. /\ result \in Found(quantity, m)
      /\ Worth(result.left) + result.totalCost = Worth(layers)
      /\ Layered(w) => result.remaining < quantity
      /\ ~Layered(w) => result.remaining = quantity
  <2>1. result = FifoLoop(layers, w, quantity)[Len(layers)]
    BY DEF CalculateFifoConsumption
  <2>2. /\ Layered(w) => \E i \in 1..Len(layers) : layers[i].warehouse = w
        /\ ~Layered(w) => \A i \in 1..Len(layers) : layers[i].warehouse # w
    BY DEF Layered
  <2> HIDE DEF result
  <2>3. /\ result \in Found(quantity, m)
        /\ Worth(result.left) + result.totalCost = Worth(layers)
        /\ (\E i \in 1..Len(layers) : layers[i].warehouse = w) => result.remaining < quantity
        /\ (\A i \in 1..Len(layers) : layers[i].warehouse # w) => result.remaining = quantity
    BY <1>1, <1>2, <2>1, FifoIs
  <2> QED BY <2>2, <2>3
<1> HIDE DEF result
<1>4. /\ result.remaining \in 0..quantity /\ result.totalCost \in Nat /\ result.left \in Seq(Layer)
      /\ result.totalCost <= m * consumed
      /\ \A i \in 1..Len(result.left) : result.left[i].cost <= m
  BY <1>3 DEF Found
<1>5. Consumed(w, quantity) = consumed /\ consumed \in 0..quantity
  BY <1>4 DEF Consumed, result
<1>6. CASE method = "weighted_average"
  <2>1. Spent(w, quantity) = 0 /\ LayersAfterIssue(w, quantity) = layers /\ cost = average[w]
    BY <1>6 DEF Spent, LayersAfterIssue, IssueCost
  <2> QED BY <1>1, <1>2, <1>5, <1>6, <2>1 DEF Within
<1>7. CASE method = "fifo"
  <2>1. /\ Spent(w, quantity) = result.totalCost /\ LayersAfterIssue(w, quantity) = result.left
        /\ cost = IF ~Layered(w) THEN NoCost ELSE Round4(result.totalCost, consumed)
    BY <1>5, <1>7 DEF Spent, LayersAfterIssue, IssueCost, result
  <2>2. ASSUME Layered(w)
        PROVE  /\ consumed > 0 /\ cost \in Nat /\ cost <= m
               /\ 2 * (consumed * cost) <= 2 * result.totalCost + consumed
               /\ 2 * result.totalCost <= 2 * (consumed * cost) + consumed
    <3>1. consumed \in Nat \ {0}
      BY <1>3, <1>4, <2>2
    <3>2. cost = Round4(result.totalCost, consumed)
      BY <2>1, <2>2
    <3> HIDE DEF consumed, cost
    <3>3. Round4(result.totalCost, consumed) <= m
      BY <1>4, <3>1, Round4Within
    <3>4. PICK n \in Nat, d \in Nat \ {0} : n = result.totalCost /\ d = consumed
      BY <1>4, <3>1
    <3>5. cost = Round4(n, d) /\ d > 0
      BY <3>2, <3>4
    <3>6. cost \in Nat /\ 2 * (d * cost) <= 2 * n + d /\ 2 * n <= 2 * (d * cost) + d
      BY <3>5, Round4Is
    <3> QED BY <3>2, <3>3, <3>4, <3>5, <3>6
  <2>3. ~Layered(w) => cost = NoCost /\ result.totalCost = 0
    <3>1. ASSUME ~Layered(w) PROVE result.totalCost <= 0
      <4>1. consumed = 0
        BY <1>3, <1>4, <3>1
      <4>2. m * consumed = 0
        BY <4>1
      <4> QED BY <1>4, <4>2
    <3> QED BY <1>4, <2>1, <3>1
  <2>4. Layered(w) \in BOOLEAN
    BY DEF Layered
  <2> HIDE DEF cost, consumed
  <2>5. cost \in Nat \union {NoCost} /\ (cost # NoCost => cost <= m)
    BY <2>2, <2>3
  <2> QED BY <1>3, <1>4, <1>5, <2>1, <2>2, <2>3, <2>5 DEF cost
<1> QED BY <1>1, <1>6, <1>7

\* Bringing a quantity to a warehouse.
LEMMA ReceiptIs ==
    ASSUME GoodsTyped, NEW m \in Nat, Within(m), NEW w \in Warehouses, NEW quantity \in Nat \ {0},
           NEW cost \in Nat \union {NoCost}, cost # NoCost => cost <= m,
           CostReceipt(w, quantity, cost)
    PROVE  /\ average' \in [Warehouses -> Nat \union {NoCost}]
           /\ layers' \in Seq(Layer)
           /\ \A v \in Warehouses : average'[v] # NoCost => average'[v] <= m
           /\ \A i \in 1..Len(layers') : layers'[i].cost <= m
           /\ Worth(layers') = Worth(layers)
                + (IF cost = NoCost \/ method # "fifo" THEN 0 ELSE quantity * cost)
<1>1. /\ average \in [Warehouses -> Nat \union {NoCost}] /\ layers \in Seq(Layer)
      /\ level \in [Warehouses -> Int]
      /\ \A v \in Warehouses : average[v] # NoCost => average[v] <= m
      /\ \A i \in 1..Len(layers) : layers[i].cost <= m
  BY DEF GoodsTyped, Within
<1>2. /\ average' \in [Warehouses -> Nat \union {NoCost}]
      /\ \A v \in Warehouses : average'[v] # NoCost => average'[v] <= m
  <2>1. CASE cost = NoCost
    BY <1>1, <2>1 DEF CostReceipt
  <2>2. CASE cost # NoCost
    <3>1. PICK avg : avg = CalculateWeightedAverageCost(level[w], average[w], quantity, cost)
      OBVIOUS
    <3>2. avg \in Nat /\ avg <= m
      BY <1>1, <2>2, <3>1, AverageIs
    <3>3. average' = [average EXCEPT ![w] = avg]
      BY <1>1, <2>2, <3>1 DEF CostReceipt
    <3> QED BY <1>1, <3>2, <3>3
  <2> QED BY <2>1, <2>2
<1>3. CASE cost = NoCost \/ method # "fifo"
  <2>1. layers' = layers
    BY <1>3 DEF CostReceipt
  <2>2. Worth(layers) \in Nat
    BY <1>1, WorthColumn
  <2> QED BY <1>1, <1>2, <1>3, <2>1, <2>2
<1>4. CASE ~(cost = NoCost \/ method # "fifo")
  <2>1. PICK row : row = [warehouse |-> w, quantity |-> quantity, cost |-> cost]
    OBVIOUS
  <2>2. row \in Layer /\ row.quantity = quantity /\ row.cost = cost /\ cost <= m
    BY <1>4, <2>1 DEF Layer
  <2>3. layers' = Append(layers, row)
    BY <1>4, <2>1 DEF CostReceipt
  <2>4. layers' \in Seq(Layer) /\ Worth(layers') = Worth(layers) + quantity * cost
    BY <1>1, <2>2, <2>3, WorthAppend
  <2>5. ASSUME NEW i \in 1..Len(layers') PROVE layers'[i].cost <= m
    <3>1. Len(layers') = Len(layers) + 1 /\ Len(layers) \in Nat
      BY <1>1, <2>3
    <3>2. CASE i = Len(layers) + 1
      BY <1>1, <2>2, <2>3, <3>2
    <3>3. CASE i # Len(layers) + 1
      <4>1. i \in 1..Len(layers) /\ layers'[i] = layers[i]
        BY <1>1, <2>3, <3>1, <3>3
      <4> QED BY <1>1, <4>1
    <3> QED BY <3>2, <3>3
  <2> QED BY <1>2, <1>4, <2>4, <2>5
<1> QED BY <1>2, <1>3, <1>4

-----------------------------------------------------------------------------
(***************************************************************************)
(* The goods: every movement keeps quantities, value and costs.            *)
(***************************************************************************)
GoodsInv == GoodsTyped /\ Within(value.dearest) /\ ValueIsKept /\ LevelsAddUp

LEMMA MovesCounted == ASSUME GoodsTyped, Move PROVE moves' \in 0..MaxMoves
BY StockAssumption DEF GoodsTyped, Move

\* The parts of it, with the sums as sums of the tables.
LEMMA GoodsParts ==
    ASSUME GoodsInv
    PROVE  /\ value.bought \in Nat /\ value.spent \in Nat /\ value.dearest \in Nat
           /\ value.blended \in Nat /\ value.short \in BOOLEAN
           /\ Worth(layers) \in Nat /\ Total(CarriedOf(transfers)) \in Nat
           /\ PresentValue = Worth(layers) + Total(CarriedOf(transfers))
           /\ \A w \in Warehouses :
                /\ level[w] \in Int /\ booked[w] \in Int
                /\ Total(DepartedOf(transfers, w)) \in Nat /\ Total(ArrivedOf(transfers, w)) \in Nat
                /\ level[w] = booked[w] - Total(DepartedOf(transfers, w)) + Total(ArrivedOf(transfers, w))
<1>1. GoodsTyped /\ LevelsAddUp
  BY DEF GoodsInv
<1>2. layers \in Seq(Layer) /\ transfers \in Seq(Transfer)
  BY <1>1 DEF GoodsTyped
<1>3. /\ value.bought \in Nat /\ value.spent \in Nat /\ value.dearest \in Nat
      /\ value.blended \in Nat /\ value.short \in BOOLEAN
  BY <1>1 DEF GoodsTyped
<1>4. \A w \in Warehouses : level[w] \in Int /\ booked[w] \in Int
  BY <1>1 DEF GoodsTyped
<1>5. \A w \in Warehouses :
         level[w] = booked[w] - Total(DepartedOf(transfers, w)) + Total(ArrivedOf(transfers, w))
  BY <1>1, TransferSums DEF LevelsAddUp
<1> QED BY <1>2, <1>3, <1>4, <1>5, WorthColumn, TransferColumns, TransferSums

\* The levels still add up when no transfer changes and what is booked moves with them.
LEMMA LevelsMoved ==
    ASSUME GoodsInv, UNCHANGED transfers,
           \A w \in Warehouses : level'[w] - level[w] = booked'[w] - booked[w]
                                   /\ level'[w] \in Int /\ booked'[w] \in Int
    PROVE  LevelsAddUp'
<1>1. ASSUME NEW w \in Warehouses
      PROVE  level'[w] = booked'[w] - Total(DepartedOf(transfers', w)) + Total(ArrivedOf(transfers', w))
  <2>1. /\ Total(DepartedOf(transfers', w)) = Total(DepartedOf(transfers, w))
        /\ Total(ArrivedOf(transfers', w)) = Total(ArrivedOf(transfers, w))
    OBVIOUS
  <2>2. /\ level[w] \in Int /\ booked[w] \in Int
        /\ Total(DepartedOf(transfers, w)) \in Nat /\ Total(ArrivedOf(transfers, w)) \in Nat
        /\ level[w] = booked[w] - Total(DepartedOf(transfers, w)) + Total(ArrivedOf(transfers, w))
    BY GoodsParts
  <2>3. /\ level'[w] - level[w] = booked'[w] - booked[w]
        /\ level'[w] \in Int /\ booked'[w] \in Int
    OBVIOUS
  <2> QED BY ONLY <2>1, <2>2, <2>3
<1> QED BY <1>1, TransferSumsNext DEF LevelsAddUp

\* What is within a cost is within a larger one.
LEMMA WithinMore ==
    ASSUME GoodsTyped, NEW m \in Nat, NEW n \in Nat, Within(m), m <= n
    PROVE  Within(n)
<1>1. \A w \in Warehouses : average[w] # NoCost => average[w] \in Nat /\ average[w] <= n
  BY DEF GoodsTyped, Within
<1>2. \A i \in 1..Len(layers) : layers[i].cost \in Nat /\ layers[i].cost <= n
  <2>1. \A i \in 1..Len(layers) : layers[i] \in Layer
    BY DEF GoodsTyped
  <2> QED BY <2>1 DEF Within, Layer
<1>3. \A k \in Ks : transfers[k].cost # NoCost => transfers[k].cost <= n
  <2>1. \A k \in Ks : transfers[k] \in Transfer
    BY DEF GoodsTyped, Ks
  <2> QED BY <2>1 DEF Within, Transfer
<1> QED BY <1>1, <1>2, <1>3 DEF Within

\* A receipt, bought at its cost.
LEMMA ReceiptKeeps ==
    ASSUME GoodsInv, NEW w \in Warehouses, NEW quantity \in Nat \ {0}, NEW cost \in Nat \union {NoCost},
           Receipt(w, quantity, cost)
    PROVE  GoodsInv'
<1> DEFINE top == IF cost = NoCost \/ cost <= value.dearest THEN value.dearest ELSE cost
           paid == IF cost = NoCost THEN 0 ELSE quantity * cost
<1>1. GoodsTyped /\ Within(value.dearest) /\ ValueIsKept
  BY DEF GoodsInv
<1>2. /\ CostReceipt(w, quantity, cost) /\ Add(w, quantity) /\ Book(w, quantity) /\ Move
      /\ UNCHANGED <<method, transfers>>
  BY DEF Receipt
<1>3. value.dearest \in Nat /\ value.bought \in Nat /\ value.spent \in Nat /\ value.blended \in Nat
  BY GoodsParts
<1>4. top \in Nat /\ value.dearest <= top /\ (cost # NoCost => cost <= top) /\ paid \in Nat
  BY <1>3
<1>5. Within(top)
  BY <1>1, <1>3, <1>4, WithinMore
<1>6. /\ value' \in [bought : Nat, spent : Nat, dearest : Nat, blended : Nat, short : BOOLEAN]
      /\ value'.dearest = top /\ value'.bought = value.bought + paid
      /\ value'.spent = value.spent /\ value'.blended = value.blended /\ value'.short = value.short
  <2>1. value \in [bought : Nat, spent : Nat, dearest : Nat, blended : Nat, short : BOOLEAN]
    BY <1>1 DEF GoodsTyped
  <2>2. CASE cost = NoCost
    BY <1>3, <2>1, <2>2 DEF Receipt
  <2>3. CASE cost # NoCost
    <3>1. Max({value.dearest, cost}) = top
      BY <1>3, <2>3, MaxOfTwo
    <3>2. value' = [value EXCEPT !.bought = value.bought + paid, !.dearest = top]
      BY <2>3, <3>1 DEF Receipt
    <3>3. value.bought + paid \in Nat
      BY <1>3, <1>4
    <3> HIDE DEF top, paid
    <3> QED BY <1>4, <2>1, <3>2, <3>3
  <2> QED BY <2>2, <2>3
<1> HIDE DEF top
<1>7. /\ average' \in [Warehouses -> Nat \union {NoCost}]
      /\ layers' \in Seq(Layer)
      /\ \A v \in Warehouses : average'[v] # NoCost => average'[v] <= top
      /\ \A i \in 1..Len(layers') : layers'[i].cost <= top
      /\ Worth(layers') = Worth(layers) + (IF cost = NoCost \/ method # "fifo" THEN 0 ELSE quantity * cost)
  BY <1>1, <1>2, <1>4, <1>5, ReceiptIs
<1>8. GoodsTyped'
  <2>1. /\ level' \in [Warehouses -> Int] /\ booked' \in [Warehouses -> Int]
        /\ moves' \in 0..MaxMoves
    BY <1>1, <1>2, StockAssumption, SMTT(30) DEF GoodsTyped, Add, Book, Move
  <2> QED BY <1>1, <1>2, <1>6, <1>7, <2>1 DEF GoodsTyped
<1>9. Within(value.dearest)'
  BY <1>2, <1>5, <1>6, <1>7 DEF Within, Ks
<1>10. ValueIsKept'
  <2>1. PresentValue' = Worth(layers') + Total(CarriedOf(transfers))
    BY <1>2, TransferSumsNext
  <2>2. ASSUME method = "fifo" PROVE PresentValue' = PresentValue + paid
    BY <1>4, <1>7, <2>1, <2>2, GoodsParts
  <2>3. PresentValue \in Nat
    BY GoodsParts
  <2>4. ASSUME method = "fifo", ~value.short
        PROVE  value'.bought - value'.spent - PresentValue' = value.bought - value.spent - PresentValue
    BY <1>3, <1>4, <1>6, <2>2, <2>3, <2>4
  <2> QED BY <1>1, <1>2, <1>6, <2>4 DEF ValueIsKept
<1>11. LevelsAddUp'
  <2>1. \A v \in Warehouses : level'[v] - level[v] = booked'[v] - booked[v]
                                /\ level'[v] \in Int /\ booked'[v] \in Int
    BY <1>1, <1>2, SMTT(30) DEF GoodsTyped, Add, Book
  <2> QED BY <1>2, <2>1, LevelsMoved
<1> QED BY <1>8, <1>9, <1>10, <1>11 DEF GoodsInv

\* An issue or a write-off.
LEMMA IssueKeeps ==
    ASSUME GoodsInv, NEW w \in Warehouses, NEW quantity \in Nat \ {0}, Issue(w, quantity)
    PROVE  GoodsInv'
<1>1. GoodsTyped /\ Within(value.dearest) /\ ValueIsKept
  BY DEF GoodsInv
<1>2. value.dearest \in Nat /\ value.bought \in Nat /\ value.spent \in Nat /\ value.blended \in Nat
  BY GoodsParts
<1>3. PICK spent : spent = Spent(w, quantity)
  OBVIOUS
<1>4. /\ layers' = LayersAfterIssue(w, quantity) /\ Add(w, -quantity) /\ Book(w, -quantity) /\ Move
      /\ value' = [value EXCEPT !.spent = @ + spent] /\ UNCHANGED <<method, average, transfers>>
  BY <1>3 DEF Issue
<1>5. /\ layers' \in Seq(Layer) /\ spent \in Nat
      /\ \A i \in 1..Len(layers') : layers'[i].cost <= value.dearest
      /\ method = "fifo" => Worth(layers') + spent = Worth(layers)
  BY <1>1, <1>2, <1>3, <1>4, IssueIs
<1>6. /\ value' \in [bought : Nat, spent : Nat, dearest : Nat, blended : Nat, short : BOOLEAN]
      /\ value'.dearest = value.dearest /\ value'.bought = value.bought
      /\ value'.spent = value.spent + spent /\ value'.blended = value.blended /\ value'.short = value.short
  <2>1. value \in [bought : Nat, spent : Nat, dearest : Nat, blended : Nat, short : BOOLEAN]
    BY <1>1 DEF GoodsTyped
  <2>2. value.spent + spent \in Nat
    BY <1>2, <1>5
  <2> QED BY <1>4, <2>1, <2>2
<1>7. GoodsTyped'
  <2>1. /\ level' \in [Warehouses -> Int] /\ booked' \in [Warehouses -> Int]
        /\ moves' \in 0..MaxMoves
    <3>1. level \in [Warehouses -> Int] /\ booked \in [Warehouses -> Int] /\ -quantity \in Int
      BY <1>1 DEF GoodsTyped
    <3>2. level' \in [Warehouses -> Int] /\ booked' \in [Warehouses -> Int]
      BY <1>4, <3>1 DEF Add, Book
    <3>3. moves' \in 0..MaxMoves
      BY <1>1, <1>4, MovesCounted
    <3> QED BY <3>2, <3>3
  <2> QED BY <1>1, <1>4, <1>5, <1>6, <2>1 DEF GoodsTyped
<1>8. Within(value.dearest)'
  BY <1>1, <1>4, <1>5, <1>6 DEF Within, Ks
<1>9. ValueIsKept'
  <2>1. PresentValue' = Worth(layers') + Total(CarriedOf(transfers)) /\ Worth(layers') \in Nat
    BY <1>4, <1>5, TransferSumsNext, WorthColumn
  <2>2. ASSUME method = "fifo" PROVE PresentValue' + spent = PresentValue /\ PresentValue' \in Nat
    <3>1. PICK c \in Nat, p \in Nat, q \in Nat, t \in Nat :
               /\ c = Total(CarriedOf(transfers)) /\ p = Worth(layers) /\ q = Worth(layers') /\ t = spent
      BY <1>5, <2>1, GoodsParts
    <3>2. PresentValue = p + c /\ PresentValue' = q + c /\ q + t = p
      BY <1>5, <2>1, <2>2, <3>1, GoodsParts
    <3>3. (q + c) + t = p + c /\ q + c \in Nat
      BY <3>2
    <3> QED BY <3>1, <3>2, <3>3
  <2>3. ASSUME method = "fifo", ~value.short
        PROVE  value'.bought - value'.spent - PresentValue' = value.bought - value.spent - PresentValue
    <3>1. PresentValue' + spent = PresentValue /\ PresentValue' \in Nat
      BY <2>2, <2>3
    <3>2. PICK p \in Nat : p = PresentValue'
      BY <3>1
    <3>3. PresentValue = p + spent
      BY <3>1, <3>2
    <3>4. value.bought - (value.spent + spent) - p = value.bought - value.spent - (p + spent)
      BY <1>2, <1>5
    <3> QED BY <1>6, <3>2, <3>3, <3>4
  <2> QED BY <1>1, <1>4, <1>6, <2>3 DEF ValueIsKept
<1>10. LevelsAddUp'
  <2>1. \A v \in Warehouses : level'[v] - level[v] = booked'[v] - booked[v]
                                /\ level'[v] \in Int /\ booked'[v] \in Int
    BY <1>1, <1>4, SMTT(30) DEF GoodsTyped, Add, Book
  <2> QED BY <1>4, <2>1, LevelsMoved
<1> QED BY <1>7, <1>8, <1>9, <1>10 DEF GoodsInv

\* issueFromEstimate moves the level only.
LEMMA EstimateKeeps ==
    ASSUME GoodsInv, NEW w \in Warehouses, NEW quantity \in Nat \ {0}, IssueFromEstimate(w, quantity)
    PROVE  GoodsInv'
<1>1. GoodsTyped /\ Within(value.dearest) /\ ValueIsKept
  BY DEF GoodsInv
<1>2. /\ Move /\ Add(w, -quantity) /\ Book(w, -quantity)
      /\ UNCHANGED <<method, average, layers, transfers, value>>
  BY DEF IssueFromEstimate
<1>3. GoodsTyped'
  BY <1>1, <1>2, StockAssumption, SMTT(30) DEF GoodsTyped, Add, Book, Move
<1>4. Within(value.dearest)'
  BY <1>1, <1>2 DEF Within, Ks
<1>5. PresentValue' = PresentValue
  BY <1>2, TransferSums, TransferSumsNext
<1>6. ValueIsKept'
  BY <1>1, <1>2, <1>5 DEF ValueIsKept
<1>7. \A v \in Warehouses : level'[v] - level[v] = booked'[v] - booked[v]
                              /\ level'[v] \in Int /\ booked'[v] \in Int
  BY <1>1, <1>2, SMTT(30) DEF GoodsTyped, Add, Book
<1>8. LevelsAddUp'
  BY <1>2, <1>7, LevelsMoved
<1> QED BY <1>3, <1>4, <1>6, <1>8 DEF GoodsInv

\* transferStock: what was taken at one side comes in at the other at its blended cost.
LEMMA TransferKeeps ==
    ASSUME GoodsInv, NEW from \in Warehouses, NEW to \in Warehouses, NEW quantity \in Nat \ {0},
           TransferStock(from, to, quantity)
    PROVE  GoodsInv'
<1>1. GoodsTyped /\ Within(value.dearest) /\ ValueIsKept
  BY DEF GoodsInv
<1>2. value.dearest \in Nat /\ value.bought \in Nat /\ value.spent \in Nat /\ value.blended \in Nat
  BY GoodsParts
<1>3. PICK cost, costed, left, spent :
           /\ cost = IssueCost(from, quantity)
           /\ costed = IF method = "fifo" THEN Consumed(from, quantity) ELSE quantity
           /\ left = LayersAfterIssue(from, quantity)
           /\ spent = Spent(from, quantity)
  OBVIOUS
<1>4. /\ from # to /\ Move
      /\ level' = [level EXCEPT ![from] = @ - quantity, ![to] = @ + quantity]
      /\ booked' = [booked EXCEPT ![from] = @ - quantity, ![to] = @ + quantity]
      /\ average' = IF cost = NoCost THEN average
                    ELSE [average EXCEPT ![to] = CalculateWeightedAverageCost(level[to], @, costed, cost)]
      /\ layers' = IF method # "fifo" \/ cost = NoCost THEN layers
                   ELSE Append(left, [warehouse |-> to, quantity |-> costed, cost |-> cost])
      /\ value' = IF method = "fifo" THEN [value EXCEPT !.blended = @ + costed] ELSE value
      /\ UNCHANGED <<method, transfers>>
  BY <1>3 DEF TransferStock
<1>5. /\ left \in Seq(Layer) /\ spent \in Nat
      /\ \A i \in 1..Len(left) : left[i].cost <= value.dearest
      /\ method = "fifo" => Worth(left) + spent = Worth(layers)
      /\ cost \in Nat \union {NoCost}
      /\ cost # NoCost => cost <= value.dearest
      /\ costed \in Nat
      /\ cost # NoCost => costed > 0
      /\ method = "fifo" /\ cost # NoCost =>
            2 * (costed * cost) <= 2 * spent + costed /\ 2 * spent <= 2 * (costed * cost) + costed
  <2>1. /\ left \in Seq(Layer) /\ spent \in Nat
        /\ \A i \in 1..Len(left) : left[i].cost <= value.dearest
        /\ method = "fifo" => Worth(left) + spent = Worth(layers)
        /\ cost \in Nat \union {NoCost}
        /\ cost # NoCost => cost <= value.dearest
        /\ Consumed(from, quantity) \in 0..quantity
        /\ method = "fifo" /\ ~Layered(from) => cost = NoCost
        /\ method = "fifo" /\ Layered(from) =>
             /\ Consumed(from, quantity) > 0
             /\ 2 * (Consumed(from, quantity) * cost) <= 2 * spent + Consumed(from, quantity)
             /\ 2 * spent <= 2 * (Consumed(from, quantity) * cost) + Consumed(from, quantity)
    BY <1>1, <1>2, <1>3, IssueIs
  <2>2. CASE method = "fifo"
    <3>1. costed = Consumed(from, quantity)
      BY <1>3, <2>2
    <3> QED BY <2>1, <2>2, <3>1
  <2>3. CASE method # "fifo"
    <3>1. costed = quantity
      BY <1>3, <2>3
    <3> QED BY <2>1, <2>3, <3>1
  <2> QED BY <2>2, <2>3
<1>6. /\ average' \in [Warehouses -> Nat \union {NoCost}]
      /\ \A v \in Warehouses : average'[v] # NoCost => average'[v] <= value.dearest
  <2>1. /\ average \in [Warehouses -> Nat \union {NoCost}] /\ level \in [Warehouses -> Int]
        /\ \A v \in Warehouses : average[v] # NoCost => average[v] <= value.dearest
    BY <1>1 DEF GoodsTyped, Within
  <2>2. CASE cost = NoCost
    BY <1>4, <2>1, <2>2
  <2>3. CASE cost # NoCost
    <3>1. PICK avg : avg = CalculateWeightedAverageCost(level[to], average[to], costed, cost)
      OBVIOUS
    <3>2. cost \in Nat /\ cost <= value.dearest /\ costed \in Nat \ {0}
      BY <1>5, <2>3
    <3>3. avg \in Nat /\ avg <= value.dearest
      BY <1>2, <2>1, <3>1, <3>2, AverageIs
    <3>4. average' = [average EXCEPT ![to] = avg]
      BY <1>4, <2>1, <2>3, <3>1
    <3> QED BY <2>1, <3>3, <3>4
  <2> QED BY <2>2, <2>3
<1>7. /\ layers' \in Seq(Layer)
      /\ \A i \in 1..Len(layers') : layers'[i].cost <= value.dearest
      /\ Worth(layers') \in Nat
      /\ method = "fifo" /\ cost = NoCost => Worth(layers') = Worth(layers)
      /\ method = "fifo" /\ cost # NoCost => Worth(layers') = Worth(left) + costed * cost
  <2>1. CASE method # "fifo" \/ cost = NoCost
    <3>1. layers' = layers /\ layers \in Seq(Layer)
      BY <1>1, <1>4, <2>1 DEF GoodsTyped
    <3>2. \A i \in 1..Len(layers) : layers[i].cost <= value.dearest
      BY <1>1 DEF Within
    <3> QED BY <2>1, <3>1, <3>2, WorthColumn
  <2>2. CASE ~(method # "fifo" \/ cost = NoCost)
    <3>1. PICK row : row = [warehouse |-> to, quantity |-> costed, cost |-> cost]
      OBVIOUS
    <3>2. row \in Layer /\ row.quantity = costed /\ row.cost = cost /\ cost <= value.dearest
      BY <1>5, <2>2, <3>1 DEF Layer
    <3>3. layers' = Append(left, row)
      BY <1>4, <2>2, <3>1
    <3>4. layers' \in Seq(Layer) /\ Worth(layers') = Worth(left) + costed * cost
      BY <1>5, <3>2, <3>3, WorthAppend
    <3>5. ASSUME NEW i \in 1..Len(layers') PROVE layers'[i].cost <= value.dearest
      <4>1. Len(layers') = Len(left) + 1 /\ Len(left) \in Nat
        BY <1>5, <3>3
      <4>2. CASE i = Len(left) + 1
        BY <1>5, <3>2, <3>3, <4>2
      <4>3. CASE i # Len(left) + 1
        <5>1. i \in 1..Len(left) /\ layers'[i] = left[i]
          BY <1>5, <3>3, <4>1, <4>3
        <5> QED BY <1>5, <5>1
      <4> QED BY <4>2, <4>3
    <3> QED BY <2>2, <3>4, <3>5, WorthColumn
  <2> QED BY <2>1, <2>2
<1>8. /\ value' \in [bought : Nat, spent : Nat, dearest : Nat, blended : Nat, short : BOOLEAN]
      /\ value'.dearest = value.dearest /\ value'.bought = value.bought /\ value'.spent = value.spent
      /\ value'.short = value.short
      /\ method = "fifo" => value'.blended = value.blended + costed
  <2>1. value \in [bought : Nat, spent : Nat, dearest : Nat, blended : Nat, short : BOOLEAN]
    BY <1>1 DEF GoodsTyped
  <2>2. value.blended + costed \in Nat
    BY <1>2, <1>5
  <2> QED BY <1>4, <2>1, <2>2
<1>a. /\ level' \in [Warehouses -> Int] /\ booked' \in [Warehouses -> Int]
      /\ \A v \in Warehouses : level'[v] - level[v] = booked'[v] - booked[v]
                                /\ level'[v] \in Int /\ booked'[v] \in Int
  <2>1. level \in [Warehouses -> Int] /\ booked \in [Warehouses -> Int] /\ quantity \in Int
    BY <1>1 DEF GoodsTyped
  <2>2. level' = [level EXCEPT ![from] = level[from] - quantity, ![to] = level[to] + quantity]
    BY <1>4, <2>1
  <2>3. booked' = [booked EXCEPT ![from] = booked[from] - quantity, ![to] = booked[to] + quantity]
    BY <1>4, <2>1
  <2>4. level' \in [Warehouses -> Int] /\ booked' \in [Warehouses -> Int]
    BY <2>1, <2>2, <2>3
  <2>5. ASSUME NEW v \in Warehouses PROVE level'[v] - level[v] = booked'[v] - booked[v]
    <3>1. CASE v = to
      <4>1. level'[v] = level[v] + quantity /\ booked'[v] = booked[v] + quantity
        BY <2>1, <2>2, <2>3, <3>1
      <4>2. level[v] \in Int /\ booked[v] \in Int
        BY <2>1
      <4> QED BY <2>1, <4>1, <4>2
    <3>2. CASE v = from
      <4>1. level'[v] = level[v] - quantity /\ booked'[v] = booked[v] - quantity
        BY <1>4, <2>1, <2>2, <2>3, <3>2
      <4>2. level[v] \in Int /\ booked[v] \in Int
        BY <2>1
      <4> QED BY <2>1, <4>1, <4>2
    <3>3. CASE v # from /\ v # to
      <4>1. level'[v] = level[v] /\ booked'[v] = booked[v]
        BY <2>1, <2>2, <2>3, <3>3
      <4>2. level[v] \in Int /\ booked[v] \in Int
        BY <2>1
      <4> QED BY <4>1, <4>2
    <3> QED BY <3>1, <3>2, <3>3
  <2> QED BY <2>4, <2>5
<1>9. GoodsTyped'
  <2>1. /\ level' \in [Warehouses -> Int] /\ booked' \in [Warehouses -> Int]
        /\ moves' \in 0..MaxMoves
    <3>1. level' \in [Warehouses -> Int] /\ booked' \in [Warehouses -> Int]
      BY <1>a
    <3>2. moves' \in 0..MaxMoves
      BY <1>1, <1>4, MovesCounted
    <3> QED BY <3>1, <3>2
  <2> QED BY <1>1, <1>4, <1>6, <1>7, <1>8, <2>1 DEF GoodsTyped
<1>10. Within(value.dearest)'
  BY <1>1, <1>4, <1>6, <1>7, <1>8 DEF Within, Ks
<1>11. ValueIsKept'
  <2> SUFFICES ASSUME method = "fifo", ~value.short
               PROVE  LET off == value'.bought - value'.spent - PresentValue'
                      IN  2 * off <= value'.blended /\ -2 * off <= value'.blended
    BY <1>4, <1>8 DEF ValueIsKept
  <2>1. PICK c \in Nat, p \in Nat, q \in Nat, t \in Nat, x \in Int :
             /\ c = Total(CarriedOf(transfers)) /\ p = Worth(layers) /\ q = Worth(layers')
             /\ t = costed /\ x = value.bought - value.spent
    <3>1. value.bought - value.spent \in Int
      BY <1>2
    <3>2. Total(CarriedOf(transfers)) \in Nat /\ Worth(layers) \in Nat
      BY GoodsParts
    <3> QED BY <1>5, <1>7, <3>1, <3>2
  <2>2. 2 * (x - (p + c)) <= value.blended /\ -2 * (x - (p + c)) <= value.blended
    BY <1>1, <2>1, GoodsParts DEF ValueIsKept
  <2>3. /\ PresentValue' = q + c /\ value'.bought - value'.spent = x
        /\ value'.blended = value.blended + t
    BY <1>4, <1>8, <2>1, TransferSumsNext
  <2>4. 2 * (q - p) <= t /\ 2 * (p - q) <= t
    <3>1. CASE cost = NoCost
      BY <1>7, <2>1, <3>1
    <3>2. CASE cost # NoCost
      <4>1. PICK u \in Nat, s \in Nat, l \in Nat : u = costed * cost /\ s = spent /\ l = Worth(left)
        <5>1. cost \in Nat /\ costed * cost \in Nat
          BY <1>5, <3>2
        <5> QED BY <1>5, <5>1, WorthColumn
      <4>2. l + s = p /\ q = l + u /\ 2 * u <= 2 * s + t /\ 2 * s <= 2 * u + t
        BY <1>5, <1>7, <2>1, <3>2, <4>1
      <4> QED BY <4>2
    <3> QED BY <3>1, <3>2
  <2> QED BY <1>2, <2>2, <2>3, <2>4
<1>12. LevelsAddUp'
  BY <1>4, <1>a, LevelsMoved
<1> QED BY <1>9, <1>10, <1>11, <1>12 DEF GoodsInv

\* initiate: the stock leaves at the cost of an issue, and is on the road.
LEMMA InitiateKeeps ==
    ASSUME GoodsInv, NEW from \in Warehouses, NEW to \in Warehouses, NEW quantity \in Nat \ {0},
           Initiate(from, to, quantity)
    PROVE  GoodsInv'
<1>1. GoodsTyped /\ Within(value.dearest) /\ ValueIsKept
  BY DEF GoodsInv
<1>2. value.dearest \in Nat /\ value.bought \in Nat /\ value.spent \in Nat /\ value.blended \in Nat
  BY GoodsParts
<1>3. PICK cost, consumed, spent, row :
           /\ cost = IssueCost(from, quantity)
           /\ consumed = Consumed(from, quantity)
           /\ spent = Spent(from, quantity)
           /\ row = [from |-> from, to |-> to, quantity |-> quantity, cost |-> cost, status |-> "in_transit"]
  OBVIOUS
<1>4. /\ Move /\ transfers' = Append(transfers, row)
      /\ layers' = LayersAfterIssue(from, quantity)
      /\ Add(from, -quantity)
      /\ value' = IF method # "fifo" \/ ~Layered(from) THEN value
                  ELSE [value EXCEPT !.blended = @ + quantity, !.short = @ \/ consumed < quantity]
      /\ UNCHANGED <<method, average, booked>>
  BY <1>3 DEF Initiate
<1>5. /\ layers' \in Seq(Layer) /\ spent \in Nat
      /\ \A i \in 1..Len(layers') : layers'[i].cost <= value.dearest
      /\ consumed \in 0..quantity
      /\ method = "fifo" => Worth(layers') + spent = Worth(layers)
      /\ cost \in Nat \union {NoCost}
      /\ cost # NoCost => cost <= value.dearest
      /\ method = "fifo" /\ ~Layered(from) => cost = NoCost /\ spent = 0
      /\ method = "fifo" /\ Layered(from) =>
           /\ cost \in Nat
           /\ 2 * (consumed * cost) <= 2 * spent + consumed
           /\ 2 * spent <= 2 * (consumed * cost) + consumed
  BY <1>1, <1>2, <1>3, <1>4, IssueIs
<1>6. /\ row \in Transfer /\ row.status = "in_transit" /\ row.from = from
      /\ row.quantity = quantity /\ row.cost = cost
  BY <1>3, <1>5 DEF Transfer
<1>7. /\ transfers \in Seq(Transfer) /\ transfers' \in Seq(Transfer)
      /\ \A w : /\ Total(DepartedOf(transfers', w))
                     = Total(DepartedOf(transfers, w)) + (IF from = w THEN quantity ELSE 0)
                /\ Total(ArrivedOf(transfers', w)) = Total(ArrivedOf(transfers, w))
      /\ Total(CarriedOf(transfers'))
           = Total(CarriedOf(transfers)) + (IF cost # NoCost THEN quantity * cost ELSE 0)
  <2>1. transfers \in Seq(Transfer)
    BY <1>1 DEF GoodsTyped
  <2> QED BY <1>4, <1>6, <2>1, TruckLeaves
<1>8. /\ value' \in [bought : Nat, spent : Nat, dearest : Nat, blended : Nat, short : BOOLEAN]
      /\ value'.dearest = value.dearest /\ value'.bought = value.bought /\ value'.spent = value.spent
      /\ method = "fifo" /\ ~Layered(from) => value'.blended = value.blended /\ value'.short = value.short
      /\ method = "fifo" /\ Layered(from) =>
           /\ value'.blended = value.blended + quantity
           /\ ~value'.short => ~value.short /\ consumed >= quantity
  <2>1. value \in [bought : Nat, spent : Nat, dearest : Nat, blended : Nat, short : BOOLEAN]
    BY <1>1 DEF GoodsTyped
  <2>2. CASE method # "fifo" \/ ~Layered(from)
    BY <1>4, <2>1, <2>2
  <2>3. CASE ~(method # "fifo" \/ ~Layered(from))
    <3>1. PICK b, s : b = value.blended + quantity /\ s = (value.short \/ consumed < quantity)
      OBVIOUS
    <3>2. value' = [value EXCEPT !.blended = b, !.short = s]
      BY <1>4, <2>3, <3>1
    <3>3. b \in Nat /\ s \in BOOLEAN
      BY <1>2, <3>1
    <3>4. /\ value' \in [bought : Nat, spent : Nat, dearest : Nat, blended : Nat, short : BOOLEAN]
          /\ value'.dearest = value.dearest /\ value'.bought = value.bought /\ value'.spent = value.spent
          /\ value'.blended = b /\ value'.short = s
      BY <2>1, <3>2, <3>3
    <3>5. ~s => ~value.short /\ ~(consumed < quantity)
      BY <3>1
    <3>6. ~s => consumed >= quantity
      BY <1>5, <3>5
    <3> QED BY <2>3, <3>1, <3>4, <3>5, <3>6
  <2> QED BY <2>2, <2>3
<1>9. GoodsTyped'
  <2>1. /\ level' \in [Warehouses -> Int] /\ booked' \in [Warehouses -> Int]
    BY <1>1, <1>4, SMTT(30) DEF GoodsTyped, Add
  <2>2. moves' \in 0..MaxMoves
    BY <1>1, <1>4, MovesCounted
  <2>3. method' \in {"fifo", "weighted_average"} /\ average' \in [Warehouses -> Nat \union {NoCost}]
    BY <1>1, <1>4 DEF GoodsTyped
  <2> QED BY <1>5, <1>7, <1>8, <2>1, <2>2, <2>3 DEF GoodsTyped
<1>10. Within(value.dearest)'
  <2>1. \A w \in Warehouses : average'[w] # NoCost => average'[w] <= value.dearest
    BY <1>1, <1>4 DEF Within
  <2>2. ASSUME NEW k \in Ks', transfers'[k].cost # NoCost PROVE transfers'[k].cost <= value.dearest
    <3>1. Len(transfers') = Len(transfers) + 1 /\ Len(transfers) \in Nat /\ k \in 1..Len(transfers')
      BY <1>4, <1>7 DEF Ks
    <3>2. CASE k = Len(transfers) + 1
      <4>1. transfers'[k] = row
        BY <1>4, <1>7, <3>2
      <4> QED BY <1>5, <1>6, <2>2, <4>1
    <3>3. CASE k # Len(transfers) + 1
      <4>1. k \in Ks /\ transfers'[k] = transfers[k]
        BY <1>4, <1>7, <3>1, <3>3 DEF Ks
      <4> QED BY <1>1, <2>2, <4>1 DEF Within
    <3> QED BY <3>2, <3>3
  <2> QED BY <1>5, <1>8, <2>1, <2>2 DEF Within
<1>11. ValueIsKept'
  <2> SUFFICES ASSUME method = "fifo", ~value'.short
               PROVE  LET off == value'.bought - value'.spent - PresentValue'
                      IN  2 * off <= value'.blended /\ -2 * off <= value'.blended
    BY <1>4 DEF ValueIsKept
  <2>1. PICK c \in Nat, d \in Nat, p \in Nat, q \in Nat, s \in Nat, x \in Int :
             /\ c = Total(CarriedOf(transfers)) /\ d = Total(CarriedOf(transfers'))
             /\ p = Worth(layers) /\ q = Worth(layers')
             /\ s = spent /\ x = value.bought - value.spent
    <3>1. value.bought - value.spent \in Int
      BY <1>2
    <3>2. Worth(layers) \in Nat /\ Worth(layers') \in Nat
      BY <1>5, GoodsParts, WorthColumn
    <3>3. Total(CarriedOf(transfers)) \in Nat /\ Total(CarriedOf(transfers')) \in Nat
      BY <1>7, TransferColumns
    <3> QED BY <1>5, <3>1, <3>2, <3>3
  <2>2. PresentValue' = q + d /\ value'.bought - value'.spent = x /\ q + s = p
    BY <1>5, <1>8, <2>1, TransferSumsNext
  <2>3. ASSUME ~value.short
        PROVE  2 * (x - (p + c)) <= value.blended /\ -2 * (x - (p + c)) <= value.blended
    BY <1>1, <2>1, <2>3, GoodsParts DEF ValueIsKept
  <2>4. CASE ~Layered(from)
    <3>1. d = c /\ s = 0 /\ value'.blended = value.blended /\ ~value.short
      <4>1. cost = NoCost /\ spent = 0
        BY <1>5, <2>4
      <4>2. Total(CarriedOf(transfers')) = Total(CarriedOf(transfers)) + 0
        BY <1>7, <4>1
      <4> QED BY <1>8, <2>1, <2>4, <4>1, <4>2
    <3>2. PresentValue' = p + c
      BY <2>2, <3>1
    <3> QED BY <2>2, <2>3, <3>1, <3>2
  <2>5. CASE Layered(from)
    <3>1. cost \in Nat /\ consumed = quantity /\ ~value.short /\ value'.blended = value.blended + quantity
      BY <1>5, <1>8, <2>5
    <3>2. PICK u \in Nat : u = quantity * cost
      BY <3>1
    <3>3. 2 * u <= 2 * s + quantity /\ 2 * s <= 2 * u + quantity
      BY <1>5, <2>1, <2>5, <3>1, <3>2
    <3>4. cost # NoCost
      BY <3>1, StockAssumption
    <3>5. d = c + u
      BY <1>7, <2>1, <3>2, <3>4
    <3>6. 2 * (x - (p + c)) <= value.blended /\ -2 * (x - (p + c)) <= value.blended
      BY <2>3, <3>1
    <3>7. 2 * (x - (q + d)) <= value.blended + quantity /\ -2 * (x - (q + d)) <= value.blended + quantity
      BY <1>2, <2>2, <3>3, <3>5, <3>6
    <3> QED BY <2>2, <3>1, <3>7
  <2> QED BY <2>4, <2>5
<1>12. LevelsAddUp'
  <2>1. ASSUME NEW w \in Warehouses
        PROVE  level'[w] = booked'[w] - Total(DepartedOf(transfers', w)) + Total(ArrivedOf(transfers', w))
    <3>1. PICK l \in Int, b \in Int, d \in Nat, a \in Nat :
               /\ l = level[w] /\ b = booked[w]
               /\ d = Total(DepartedOf(transfers, w)) /\ a = Total(ArrivedOf(transfers, w))
               /\ l = b - d + a
      BY GoodsParts
    <3>2. booked'[w] = b /\ Total(ArrivedOf(transfers', w)) = a
      BY <1>4, <1>7, <3>1
    <3>3. level'[w] = IF from = w THEN l - quantity ELSE l
      BY <1>1, <1>4, <3>1 DEF GoodsTyped, Add
    <3>4. Total(DepartedOf(transfers', w)) = IF from = w THEN d + quantity ELSE d
      BY <1>7, <3>1
    <3> QED BY <3>1, <3>2, <3>3, <3>4
  <2> QED BY <2>1, TransferSumsNext DEF LevelsAddUp
<1> QED BY <1>9, <1>10, <1>11, <1>12 DEF GoodsInv

\* receive and cancel: what was on the road comes in at the cost it travelled with.
LEMMA ArriveKeeps ==
    ASSUME GoodsInv, NEW k \in Ks, InTransit(k), NEW w \in Warehouses,
           NEW status \in {"received", "cancelled"},
           w = IF status = "received" THEN transfers[k].to ELSE transfers[k].from,
           Arrive(k, w, status)
    PROVE  GoodsInv'
<1>1. GoodsTyped /\ Within(value.dearest) /\ ValueIsKept
  BY DEF GoodsInv
<1>2. value.dearest \in Nat /\ value.bought \in Nat /\ value.spent \in Nat /\ value.blended \in Nat
  BY GoodsParts
<1>3. PICK quantity, cost : quantity = transfers[k].quantity /\ cost = transfers[k].cost
  OBVIOUS
<1>4. /\ transfers' = [transfers EXCEPT ![k].status = status]
      /\ CostReceipt(w, quantity, cost) /\ Add(w, quantity)
      /\ UNCHANGED <<method, booked, value, moves>>
  BY <1>3 DEF Arrive
<1>5. /\ transfers \in Seq(Transfer) /\ k \in 1..Len(transfers) /\ transfers[k] \in Transfer
      /\ transfers[k].status = "in_transit"
  BY <1>1 DEF GoodsTyped, Ks, InTransit
<1>6. /\ quantity \in Nat \ {0} /\ cost \in Nat \union {NoCost}
      /\ cost # NoCost => cost <= value.dearest
  BY <1>1, <1>3, <1>5 DEF Transfer, Within
<1>7. /\ transfers' \in Seq(Transfer) /\ Len(transfers') = Len(transfers)
      /\ \A j \in 1..Len(transfers) : transfers'[j].cost = transfers[j].cost
      /\ \A v :
           /\ Total(DepartedOf(transfers', v)) = Total(DepartedOf(transfers, v))
                - (IF transfers[k].from = v /\ status = "cancelled" THEN quantity ELSE 0)
           /\ Total(ArrivedOf(transfers', v)) = Total(ArrivedOf(transfers, v))
                + (IF transfers[k].to = v /\ status = "received" THEN quantity ELSE 0)
      /\ Total(CarriedOf(transfers')) = Total(CarriedOf(transfers))
           - (IF cost # NoCost THEN quantity * cost ELSE 0)
  <2>1. transfers' = Stopped(transfers, k, status)
    BY <1>4 DEF Stopped
  <2> QED BY <1>3, <1>5, <2>1, TruckStops
<1>8. /\ average' \in [Warehouses -> Nat \union {NoCost}]
      /\ layers' \in Seq(Layer)
      /\ \A v \in Warehouses : average'[v] # NoCost => average'[v] <= value.dearest
      /\ \A i \in 1..Len(layers') : layers'[i].cost <= value.dearest
      /\ Worth(layers') = Worth(layers) + (IF cost = NoCost \/ method # "fifo" THEN 0 ELSE quantity * cost)
  BY <1>1, <1>2, <1>4, <1>6, ReceiptIs
<1>9. GoodsTyped'
  <2>1. level' \in [Warehouses -> Int]
    BY <1>1, <1>4, <1>6, SMTT(30) DEF GoodsTyped, Add
  <2>2. /\ method' \in {"fifo", "weighted_average"} /\ booked' \in [Warehouses -> Int]
        /\ value' \in [bought : Nat, spent : Nat, dearest : Nat, blended : Nat, short : BOOLEAN]
        /\ moves' \in 0..MaxMoves
    BY <1>1, <1>4 DEF GoodsTyped
  <2> QED BY <1>7, <1>8, <2>1, <2>2 DEF GoodsTyped
<1>10. Within(value.dearest)'
  BY <1>1, <1>4, <1>7, <1>8 DEF Within, Ks
<1>11. ValueIsKept'
  <2> SUFFICES ASSUME method = "fifo" PROVE PresentValue' = PresentValue
    BY <1>1, <1>4 DEF ValueIsKept
  <2>1. PICK u \in Nat : u = IF cost = NoCost THEN 0 ELSE quantity * cost
    BY <1>6
  <2>2. Worth(layers') = Worth(layers) + u
    BY <1>8, <2>1
  <2>3. Total(CarriedOf(transfers')) = Total(CarriedOf(transfers)) - u
    BY <1>7, <2>1
  <2>4. Worth(layers) \in Nat /\ Total(CarriedOf(transfers)) \in Nat
    BY GoodsParts
  <2>5. (Worth(layers) + u) + (Total(CarriedOf(transfers)) - u) = Worth(layers) + Total(CarriedOf(transfers))
    BY <2>4
  <2> QED BY <2>2, <2>3, <2>5, TransferSums, TransferSumsNext
<1>12. LevelsAddUp'
  <2>1. ASSUME NEW v \in Warehouses
        PROVE  level'[v] = booked'[v] - Total(DepartedOf(transfers', v)) + Total(ArrivedOf(transfers', v))
    <3>1. PICK l \in Int, b \in Int, d \in Nat, a \in Nat :
               /\ l = level[v] /\ b = booked[v]
               /\ d = Total(DepartedOf(transfers, v)) /\ a = Total(ArrivedOf(transfers, v))
               /\ l = b - d + a
      BY GoodsParts
    <3>2. booked'[v] = b
      BY <1>4, <3>1
    <3>3. level'[v] = IF w = v THEN l + quantity ELSE l
      BY <1>1, <1>4, <3>1 DEF GoodsTyped, Add
    <3>4. CASE status = "received"
      <4>1. /\ Total(DepartedOf(transfers', v)) = d - 0
            /\ Total(ArrivedOf(transfers', v)) = IF w = v THEN a + quantity ELSE a + 0
        BY <1>7, <3>1, <3>4
      <4> QED BY <1>6, <3>1, <3>2, <3>3, <4>1
    <3>5. CASE status = "cancelled"
      <4>1. /\ Total(DepartedOf(transfers', v)) = IF w = v THEN d - quantity ELSE d - 0
            /\ Total(ArrivedOf(transfers', v)) = a + 0
        BY <1>7, <3>1, <3>5
      <4> QED BY <1>6, <3>1, <3>2, <3>3, <4>1
    <3> QED BY <3>4, <3>5
  <2> QED BY <2>1, TransferSumsNext DEF LevelsAddUp
<1> QED BY <1>9, <1>10, <1>11, <1>12 DEF GoodsInv

\* Steps that leave the goods alone.
LEMMA GoodsStay ==
    ASSUME GoodsInv, UNCHANGED <<method, goods, booked, value, moves>>
    PROVE  GoodsInv'
<1>1. UNCHANGED <<method, level, average, layers, transfers, booked, value, moves>>
  BY DEF goods
<1>2. GoodsTyped' /\ Within(value.dearest)'
  BY <1>1 DEF GoodsInv, GoodsTyped, Within, Ks
<1>3. PresentValue' = PresentValue
  BY <1>1, TransferSums, TransferSumsNext
<1>4. ValueIsKept'
  BY <1>1, <1>3 DEF GoodsInv, ValueIsKept
<1>5. \A w \in Warehouses : level'[w] - level[w] = booked'[w] - booked[w]
                              /\ level'[w] \in Int /\ booked'[w] \in Int
  BY <1>1 DEF GoodsInv, GoodsTyped
<1>6. LevelsAddUp'
  BY <1>1, <1>5, LevelsMoved
<1> QED BY <1>2, <1>4, <1>6 DEF GoodsInv

-----------------------------------------------------------------------------
(***************************************************************************)
(* The documents: counts and purchase orders.                              *)
(***************************************************************************)

\* Of a document that is not excused at most one call is under way, it has not been
\* booked before that call books it, and an open one that nobody is at is not booked.
\* What was opened has something to book.
DocumentOk(d) ==
    /\ doc[d].status = "none" => doc[d].booked = 0 /\ AtDocument(d) = {}
    /\ doc[d].status # "none" => doc[d].delta # 0
    /\ ~doc[d].excused =>
         /\ doc[d].booked <= 1
         /\ \A g, h \in AtDocument(d) : g = h
         /\ \A h \in AtDocument(d) : job[h].pc = "book" => doc[d].booked = 0
         /\ doc[d].status = "open" /\ AtDocument(d) = {} => doc[d].booked = 0

PaperInv == PaperTyped /\ \A d \in Documents : DocumentOk(d)

\* What a call is at.
LEMMA CallAt ==
    ASSUME PaperTyped, NEW h \in Calls, job[h].pc # "idle"
    PROVE  job[h].doc \in Documents /\ job[h].pc \in {"book", "close"} /\ h \in AtDocument(job[h].doc)
<1>1. job[h] \in Job /\ job[h] # NoJob
  BY DEF PaperTyped, NoJob
<1>2. job[h].doc \in Documents /\ job[h].pc \in {"book", "close"}
  BY <1>1 DEF Job
<1> QED BY <1>2 DEF AtDocument

LEMMA OpenKeeps ==
    ASSUME PaperInv, NEW d \in Documents, NEW delta \in Int \ {0}, OpenDocument(d, delta)
    PROVE  PaperInv'
<1>1. PaperTyped /\ DocumentOk(d)
  BY DEF PaperInv
<1>2. doc[d].status = "none" /\ job' = job /\ fails' = fails
      /\ doc' = [doc EXCEPT ![d].status = "open", ![d].delta = delta]
  BY DEF OpenDocument
<1>3. doc[d] \in Document
  BY <1>1 DEF PaperTyped
<1>4. PICK row : row = [doc[d] EXCEPT !.status = "open", !.delta = delta]
  OBVIOUS
<1>5. /\ row \in Document /\ row.status = "open" /\ row.delta = delta
      /\ row.booked = doc[d].booked /\ row.excused = doc[d].excused
  BY <1>3, <1>4 DEF Document
<1>6. doc' = [doc EXCEPT ![d] = row]
  BY <1>1, <1>2, <1>4 DEF PaperTyped
<1>7. PaperTyped'
  BY <1>1, <1>2, <1>5, <1>6 DEF PaperTyped
<1>8. \A e \in Documents : AtDocument(e)' = AtDocument(e)
  BY <1>2 DEF AtDocument
<1>9. ASSUME NEW e \in Documents PROVE DocumentOk(e)'
  <2>1. CASE e = d
    <3>1. doc'[e] = row /\ AtDocument(e) = {} /\ doc[e].booked = 0
      BY <1>1, <1>2, <1>6, <2>1 DEF PaperTyped, DocumentOk
    <3> QED BY <1>2, <1>5, <1>8, <2>1, <3>1 DEF DocumentOk
  <2>2. CASE e # d
    <3>1. doc'[e] = doc[e] /\ DocumentOk(e)
      BY <1>1, <1>6, <2>2 DEF PaperTyped, PaperInv
    <3> QED BY <1>2, <1>8, <3>1 DEF DocumentOk
  <2> QED BY <2>1, <2>2
<1> QED BY <1>7, <1>9 DEF PaperInv

\* A step of call h on document d: the other documents are as they were.
LEMMA PaperStep ==
    ASSUME PaperInv, NEW h \in Calls, NEW d \in Documents, NEW row \in Document, NEW at \in Job,
           doc' = [doc EXCEPT ![d] = row], job' = [job EXCEPT ![h] = at], fails' \in 0..MaxFails,
           job[h].pc # "idle" => job[h].doc = d,
           at.pc # "idle" => at.doc = d,
           DocumentOk(d)'
    PROVE  PaperInv'
<1>1. doc \in [Documents -> Document] /\ job \in [Calls -> Job]
  BY DEF PaperInv, PaperTyped
<1>2. PaperTyped'
  BY <1>1 DEF PaperTyped
<1>3. ASSUME NEW e \in Documents, e # d PROVE DocumentOk(e)'
  <2>1. doc'[e] = doc[e] /\ DocumentOk(e)
    BY <1>1, <1>3 DEF PaperInv
  <2>2. \A g \in Calls : g # h => job'[g] = job[g]
    BY <1>1
  <2>3. job'[h] = at
    BY <1>1
  <2>4. h \notin AtDocument(e) /\ h \notin AtDocument(e)'
    BY <1>3, <2>3 DEF AtDocument
  <2>5. ASSUME NEW g \in Calls, g # h PROVE g \in AtDocument(e)' <=> g \in AtDocument(e)
    BY <2>2, <2>5 DEF AtDocument
  <2>6. AtDocument(e)' = AtDocument(e)
    <3>1. AtDocument(e) \subseteq Calls /\ AtDocument(e)' \subseteq Calls
      BY DEF AtDocument
    <3> QED BY <2>4, <2>5, <3>1
  <2>7. \A g \in AtDocument(e) : job'[g] = job[g]
    BY <2>2, <2>4 DEF AtDocument
  <2> QED BY <2>1, <2>6, <2>7 DEF DocumentOk
<1> QED BY <1>2, <1>3 DEF PaperInv

\* finalize and receive start on an open document.
LEMMA StartKeeps ==
    ASSUME PaperInv, NEW h \in Calls, NEW d \in Documents, StartBooking(h, d)
    PROVE  PaperInv'
<1>1. /\ doc \in [Documents -> Document] /\ job \in [Calls -> Job] /\ fails \in 0..MaxFails
      /\ DocumentOk(d)
  BY DEF PaperInv, PaperTyped
<1>2. PICK row, at : /\ row = [doc[d] EXCEPT !.excused = @ \/ AtDocument(d) # {}]
                     /\ at = [pc |-> "book", doc |-> d]
  OBVIOUS
<1>3. /\ job[h] = NoJob /\ doc[d].status = "open" /\ fails' = fails
      /\ job' = [job EXCEPT ![h] = at] /\ doc' = [doc EXCEPT ![d] = row]
  BY <1>1, <1>2 DEF StartBooking
<1>4. /\ row \in Document /\ row.status = "open" /\ row.delta = doc[d].delta
      /\ row.booked = doc[d].booked /\ row.excused = (doc[d].excused \/ AtDocument(d) # {})
  <2>1. doc[d] \in Document
    BY <1>1
  <2> QED BY <1>2, <1>3, <2>1 DEF Document
<1>5. at \in Job /\ at.doc = d /\ at.pc = "book"
  BY <1>2 DEF Job
<1>6. job'[h] = at /\ doc'[d] = row /\ \A g \in Calls : g # h => job'[g] = job[g]
  BY <1>1, <1>3
<1>7. AtDocument(d)' = AtDocument(d) \union {h}
  BY <1>5, <1>6 DEF AtDocument
<1>8. DocumentOk(d)'
  BY <1>1, <1>3, <1>4, <1>5, <1>6, <1>7 DEF DocumentOk
<1>9. job[h].pc = "idle"
  BY <1>3 DEF NoJob
<1> QED BY <1>1, <1>3, <1>4, <1>5, <1>8, <1>9, PaperStep

\* The movement of a document is booked.
LEMMA BookKeeps ==
    ASSUME GoodsInv, PaperInv, NEW h \in Calls, BookMovement(h)
    PROVE  GoodsInv' /\ PaperInv'
<1>1. /\ doc \in [Documents -> Document] /\ job \in [Calls -> Job] /\ fails \in 0..MaxFails
      /\ PaperTyped /\ job[h].pc = "book"
  BY DEF PaperInv, PaperTyped, BookMovement
<1>2. PICK d : d = job[h].doc
  OBVIOUS
<1>3. d \in Documents /\ h \in AtDocument(d) /\ DocumentOk(d)
  BY <1>1, <1>2, CallAt DEF PaperInv
<1>4. PICK row, at : row = [doc[d] EXCEPT !.booked = @ + 1] /\ at = [job[h] EXCEPT !.pc = "close"]
  OBVIOUS
<1>5. /\ IF doc[d].delta > 0 THEN Receipt(doc[d].warehouse, doc[d].delta, NoCost)
         ELSE Issue(doc[d].warehouse, -doc[d].delta)
      /\ job' = [job EXCEPT ![h] = at] /\ doc' = [doc EXCEPT ![d] = row] /\ fails' = fails
  BY <1>1, <1>2, <1>3, <1>4 DEF BookMovement
<1>6. /\ row \in Document /\ row.status = doc[d].status /\ row.delta = doc[d].delta
      /\ row.booked = doc[d].booked + 1 /\ row.excused = doc[d].excused
      /\ doc[d].delta \in Int /\ doc[d].booked \in Nat /\ doc[d].warehouse \in Warehouses
  <2>1. doc[d] \in Document
    BY <1>1, <1>3
  <2> QED BY <1>4, <2>1 DEF Document
<1>7. at \in Job /\ at.doc = d /\ at.pc = "close"
  <2>1. job[h] \in Job /\ job[h] # NoJob
    BY <1>1 DEF NoJob
  <2>2. job[h] \in [pc : {"book", "close"}, doc : Documents]
    BY <2>1 DEF Job
  <2>3. at \in [pc : {"book", "close"}, doc : Documents] /\ at.doc = d /\ at.pc = "close"
    BY <1>2, <1>4, <2>2
  <2> QED BY <2>3 DEF Job
<1>8. job'[h] = at /\ doc'[d] = row /\ \A g \in Calls : g # h => job'[g] = job[g]
  BY <1>1, <1>3, <1>5
<1>9. AtDocument(d)' = AtDocument(d)
  <2>1. h \in AtDocument(d)'
    BY <1>7, <1>8 DEF AtDocument
  <2>2. \A g \in Calls : g # h => (g \in AtDocument(d)' <=> g \in AtDocument(d))
    BY <1>8 DEF AtDocument
  <2>3. AtDocument(d) \subseteq Calls /\ AtDocument(d)' \subseteq Calls
    BY DEF AtDocument
  <2> QED BY <1>3, <2>1, <2>2, <2>3
<1>10. doc[d].status # "none" /\ doc[d].delta # 0
  BY <1>3 DEF DocumentOk
<1>11. DocumentOk(d)'
  BY <1>1, <1>3, <1>6, <1>7, <1>8, <1>9, <1>10 DEF DocumentOk
<1>12. PaperInv'
  BY <1>1, <1>2, <1>3, <1>5, <1>6, <1>7, <1>11, PaperStep
<1>13. GoodsInv'
  <2>1. CASE doc[d].delta > 0
    <3>1. doc[d].delta \in Nat \ {0} /\ Receipt(doc[d].warehouse, doc[d].delta, NoCost)
      BY <1>5, <1>6, <2>1
    <3> QED BY <1>6, <3>1, ReceiptKeeps
  <2>2. CASE ~(doc[d].delta > 0)
    <3>1. -doc[d].delta \in Nat \ {0} /\ Issue(doc[d].warehouse, -doc[d].delta)
      BY <1>5, <1>6, <1>10, <2>2
    <3> QED BY <1>6, <3>1, IssueKeeps
  <2> QED BY <2>1, <2>2
<1> QED BY <1>12, <1>13

\* A call leaves the document: what it was at is gone.
LEMMA CallLeaves ==
    ASSUME PaperInv, NEW h \in Calls, job[h].pc # "idle", job' = [job EXCEPT ![h] = NoJob],
           NEW row \in Document, doc' = [doc EXCEPT ![job[h].doc] = row], fails' \in 0..MaxFails,
           row.status # "none", row.delta = doc[job[h].doc].delta, row.booked = doc[job[h].doc].booked,
           ~row.excused => /\ ~doc[job[h].doc].excused
                           /\ row.status = "open" => job[h].pc = "book"
    PROVE  PaperInv'
<1>1. doc \in [Documents -> Document] /\ job \in [Calls -> Job] /\ PaperTyped
  BY DEF PaperInv, PaperTyped
<1>2. PICK d : d = job[h].doc
  OBVIOUS
<1>3. d \in Documents /\ h \in AtDocument(d) /\ DocumentOk(d)
  BY <1>1, <1>2, CallAt DEF PaperInv
<1>4. job'[h] = NoJob /\ doc'[d] = row /\ \A g \in Calls : g # h => job'[g] = job[g]
  BY <1>1, <1>2, <1>3
<1>5. AtDocument(d)' = AtDocument(d) \ {h}
  <2>1. h \notin AtDocument(d)'
    BY <1>4 DEF AtDocument, NoJob
  <2>2. \A g \in Calls : g # h => (g \in AtDocument(d)' <=> g \in AtDocument(d))
    BY <1>4 DEF AtDocument
  <2>3. AtDocument(d) \subseteq Calls /\ AtDocument(d)' \subseteq Calls
    BY DEF AtDocument
  <2> QED BY <2>1, <2>2, <2>3
<1>6. doc[d].status # "none" /\ doc[d].delta # 0
  BY <1>3 DEF DocumentOk
<1>7. DocumentOk(d)'
  BY <1>2, <1>3, <1>4, <1>5, <1>6 DEF DocumentOk
<1>8. NoJob \in Job /\ NoJob.pc = "idle"
  BY DEF Job, NoJob
<1> QED BY <1>2, <1>3, <1>7, <1>8, PaperStep

LEMMA CloseKeeps ==
    ASSUME PaperInv, NEW h \in Calls, CloseDocument(h)
    PROVE  PaperInv'
<1>1. /\ doc \in [Documents -> Document] /\ fails \in 0..MaxFails /\ PaperTyped
      /\ job[h].pc = "close" /\ job' = [job EXCEPT ![h] = NoJob] /\ fails' = fails
  BY DEF PaperInv, PaperTyped, CloseDocument
<1>2. PICK d : d = job[h].doc
  OBVIOUS
<1>3. d \in Documents /\ doc[d] \in Document
  BY <1>1, <1>2, CallAt
<1>4. PICK row : row = [doc[d] EXCEPT !.status = "closed"]
  OBVIOUS
<1>5. /\ row \in Document /\ row.status = "closed" /\ row.delta = doc[d].delta
      /\ row.booked = doc[d].booked /\ row.excused = doc[d].excused
  BY <1>3, <1>4 DEF Document
<1>6. doc' = [doc EXCEPT ![d] = row]
  BY <1>1, <1>2, <1>3, <1>4 DEF CloseDocument
<1> QED BY <1>1, <1>2, <1>5, <1>6, CallLeaves

LEMMA DiesKeeps ==
    ASSUME PaperInv, NEW h \in Calls, CallDies(h)
    PROVE  PaperInv'
<1>1. /\ doc \in [Documents -> Document] /\ PaperTyped /\ job[h].pc # "idle"
      /\ job' = [job EXCEPT ![h] = NoJob]
  BY DEF PaperInv, PaperTyped, CallDies
<1>2. fails' \in 0..MaxFails
  BY StockAssumption DEF PaperInv, PaperTyped, CallDies
<1>3. PICK d : d = job[h].doc
  OBVIOUS
<1>4. d \in Documents /\ doc[d] \in Document /\ job[h].pc \in {"book", "close"}
      /\ h \in AtDocument(d) /\ DocumentOk(d)
  BY <1>1, <1>3, CallAt DEF PaperInv
<1>5. PICK row : row = [doc[d] EXCEPT !.excused = @ \/ job[h].pc = "close"]
  OBVIOUS
<1>6. /\ row \in Document /\ row.status = doc[d].status /\ row.delta = doc[d].delta
      /\ row.booked = doc[d].booked /\ row.excused = (doc[d].excused \/ job[h].pc = "close")
  BY <1>4, <1>5 DEF Document
<1>7. doc' = [doc EXCEPT ![d] = row]
  BY <1>1, <1>3, <1>4, <1>5 DEF CallDies
<1>8. doc[d].status # "none"
  BY <1>4 DEF DocumentOk
<1>9. ~row.excused => ~doc[d].excused /\ job[h].pc = "book"
  BY <1>4, <1>6
<1> QED BY <1>1, <1>2, <1>3, <1>6, <1>7, <1>8, <1>9, CallLeaves

-----------------------------------------------------------------------------
(***************************************************************************)
(* The invariant of the stock.                                             *)
(***************************************************************************)
StockInv == GoodsInv /\ PaperInv

LEMMA StockStarts == ASSUME StockInit PROVE StockInv
<1>1. /\ method \in {"fifo", "weighted_average"}
      /\ level = [w \in Warehouses |-> 0] /\ average = [w \in Warehouses |-> NoCost]
      /\ layers = <<>> /\ transfers = <<>> /\ booked = [w \in Warehouses |-> 0]
      /\ value = [bought |-> 0, spent |-> 0, dearest |-> 0, blended |-> 0, short |-> FALSE]
      /\ moves = 0
  BY DEF StockInit
<1>2. GoodsTyped
  BY <1>1, StockAssumption DEF GoodsTyped
<1>3. Within(value.dearest)
  BY <1>1 DEF Within, Ks
<1>4. transfers \in Seq(Transfer) /\ layers \in Seq(Layer) /\ Len(transfers) = 0 /\ Len(layers) = 0
  BY <1>1
<1>5. Total(CarriedOf(transfers)) = 0
  BY <1>4, TransferColumns, EmptyTotal
<1>6. Worth(layers) = 0
  <2>1. PICK f : f = [i \in 1..Len(layers) |-> layers[i].quantity * layers[i].cost]
    OBVIOUS
  <2>2. f \in Seq(Nat) /\ Len(f) = 0
    BY <1>4, <2>1
  <2> QED BY <2>1, <2>2, EmptyTotal DEF Worth
<1>7. ValueIsKept
  <2>1. PresentValue = 0
    BY <1>5, <1>6, TransferSums
  <2> QED BY <1>1, <2>1 DEF ValueIsKept
<1>8. LevelsAddUp
  <2>1. ASSUME NEW w \in Warehouses
        PROVE  Total(DepartedOf(transfers, w)) = 0 /\ Total(ArrivedOf(transfers, w)) = 0
    BY <1>4, TransferColumns, EmptyTotal
  <2> QED BY <1>1, <2>1, TransferSums DEF LevelsAddUp
<1>9. /\ doc \in [Documents -> [status : {"none"}, warehouse : Warehouses, delta : {0}, booked : {0},
                              excused : {FALSE}]]
      /\ job = [h \in Calls |-> NoJob] /\ fails = 0
  BY DEF StockInit
<1>10. PaperTyped
  <2>1. ASSUME NEW d \in Documents PROVE doc[d] \in Document
    <3>1. doc[d] \in [status : {"none"}, warehouse : Warehouses, delta : {0}, booked : {0},
                     excused : {FALSE}]
      BY <1>9
    <3>2. PICK w \in Warehouses :
               doc[d] = [status |-> "none", warehouse |-> w, delta |-> 0, booked |-> 0, excused |-> FALSE]
      BY <3>1
    <3>3. [status |-> "none", warehouse |-> w, delta |-> 0, booked |-> 0, excused |-> FALSE] \in Document
      BY DEF Document
    <3> QED BY <3>2, <3>3
  <2> QED BY <1>9, <2>1, StockAssumption DEF PaperTyped, Job
<1>11. ASSUME NEW d \in Documents PROVE DocumentOk(d)
  <2>1. doc[d].status = "none" /\ doc[d].booked = 0
    BY <1>9
  <2>2. AtDocument(d) = {}
    BY <1>9 DEF AtDocument, NoJob
  <2> QED BY <2>1, <2>2 DEF DocumentOk
<1> QED BY <1>2, <1>3, <1>7, <1>8, <1>10, <1>11 DEF StockInv, GoodsInv, PaperInv

\* The documents do not notice what StockService does.
LEMMA PaperStays ==
    ASSUME PaperInv, UNCHANGED <<doc, job, fails>>
    PROVE  PaperInv'
<1>1. \A d \in Documents : AtDocument(d)' = AtDocument(d)
  BY DEF AtDocument
<1>2. \A d \in Documents : DocumentOk(d)'
  BY <1>1 DEF PaperInv, DocumentOk
<1> QED BY <1>2 DEF PaperInv, PaperTyped

LEMMA StockStep == ASSUME StockInv, [StockNext]_stockVars PROVE StockInv'
<1>1. GoodsInv /\ PaperInv
  BY DEF StockInv
<1>2. Quantities \subseteq Nat \ {0} /\ Costs \subseteq Nat
  BY StockAssumption
<1>3. CASE UNCHANGED stockVars
  <2>1. UNCHANGED <<method, goods, booked, value, moves>> /\ UNCHANGED <<doc, job, fails>>
    BY <1>3 DEF stockVars
  <2> QED BY <1>1, <2>1, GoodsStay, PaperStays DEF StockInv
<1>4. ASSUME NEW w \in Warehouses, NEW quantity \in Quantities, RecordMovement(w, quantity)
      PROVE  StockInv'
  <2>1. quantity \in Nat \ {0} /\ UNCHANGED <<doc, job, fails>>
    BY <1>2, <1>4 DEF RecordMovement
  <2>2. CASE Issue(w, quantity)
    BY <1>1, <2>1, <2>2, IssueKeeps, PaperStays DEF StockInv
  <2>3. ASSUME NEW cost \in Costs \union {NoCost}, Receipt(w, quantity, cost)
        PROVE  StockInv'
    <3>1. cost \in Nat \union {NoCost}
      BY <1>2
    <3> QED BY <1>1, <2>1, <2>3, <3>1, ReceiptKeeps, PaperStays DEF StockInv
  <2> QED BY <1>4, <2>2, <2>3 DEF RecordMovement
<1>5. ASSUME NEW w \in Warehouses, NEW quantity \in Quantities, IssueFromEstimate(w, quantity)
      PROVE  StockInv'
  <2>1. quantity \in Nat \ {0} /\ UNCHANGED <<doc, job, fails>>
    BY <1>2, <1>5 DEF IssueFromEstimate
  <2> QED BY <1>1, <1>5, <2>1, EstimateKeeps, PaperStays DEF StockInv
<1>6. ASSUME NEW w \in Warehouses, NEW to \in Warehouses, NEW quantity \in Quantities,
             TransferStock(w, to, quantity)
      PROVE  StockInv'
  <2>1. quantity \in Nat \ {0} /\ UNCHANGED <<doc, job, fails>>
    BY <1>2, <1>6 DEF TransferStock
  <2> QED BY <1>1, <1>6, <2>1, TransferKeeps, PaperStays DEF StockInv
<1>7. ASSUME NEW w \in Warehouses, NEW to \in Warehouses, NEW quantity \in Quantities,
             Initiate(w, to, quantity)
      PROVE  StockInv'
  <2>1. quantity \in Nat \ {0} /\ UNCHANGED <<doc, job, fails>>
    BY <1>2, <1>7 DEF Initiate
  <2> QED BY <1>1, <1>7, <2>1, InitiateKeeps, PaperStays DEF StockInv
<1>8. ASSUME NEW k \in 1..Len(transfers), ReceiveTransfer(k) \/ CancelTransfer(k)
      PROVE  StockInv'
  <2>1. transfers[k] \in Transfer /\ k \in Ks
    BY <1>1 DEF GoodsInv, GoodsTyped, Ks
  <2>2. transfers[k].to \in Warehouses /\ transfers[k].from \in Warehouses
    BY <2>1 DEF Transfer
  <2>3. CASE ReceiveTransfer(k)
    <3>1. InTransit(k) /\ Arrive(k, transfers[k].to, "received")
      BY <2>3 DEF ReceiveTransfer
    <3>2. GoodsInv'
      BY <1>1, <2>1, <2>2, <3>1, ArriveKeeps
    <3>3. UNCHANGED <<doc, job, fails>>
      BY <3>1 DEF Arrive
    <3> QED BY <1>1, <3>2, <3>3, PaperStays DEF StockInv
  <2>4. CASE CancelTransfer(k)
    <3>1. InTransit(k) /\ Arrive(k, transfers[k].from, "cancelled")
      BY <2>4 DEF CancelTransfer
    <3>2. GoodsInv'
      BY <1>1, <2>1, <2>2, <3>1, ArriveKeeps
    <3>3. UNCHANGED <<doc, job, fails>>
      BY <3>1 DEF Arrive
    <3> QED BY <1>1, <3>2, <3>3, PaperStays DEF StockInv
  <2> QED BY <1>8, <2>3, <2>4
<1>9. ASSUME NEW d \in Documents, NEW quantity \in Quantities,
             OpenDocument(d, quantity) \/ OpenDocument(d, -quantity)
      PROVE  StockInv'
  <2>1. quantity \in Int \ {0} /\ -quantity \in Int \ {0}
    BY <1>2
  <2>2. PaperInv'
    BY <1>1, <1>9, <2>1, OpenKeeps
  <2>3. UNCHANGED <<method, goods, booked, value, moves>>
    BY <1>9 DEF OpenDocument
  <2> QED BY <1>1, <2>2, <2>3, GoodsStay DEF StockInv
<1>10. ASSUME NEW h \in Calls, NEW d \in Documents, StartBooking(h, d)
       PROVE  StockInv'
  <2>1. UNCHANGED <<method, goods, booked, value, moves>>
    BY <1>10 DEF StartBooking
  <2> QED BY <1>1, <1>10, <2>1, StartKeeps, GoodsStay DEF StockInv
<1>11. ASSUME NEW h \in Calls, BookMovement(h)
       PROVE  StockInv'
  BY <1>1, <1>11, BookKeeps DEF StockInv
<1>12. ASSUME NEW h \in Calls, CloseDocument(h)
       PROVE  StockInv'
  <2>1. UNCHANGED <<method, goods, booked, value, moves>>
    BY <1>12 DEF CloseDocument
  <2> QED BY <1>1, <1>12, <2>1, CloseKeeps, GoodsStay DEF StockInv
<1>13. ASSUME NEW h \in Calls, CallDies(h)
       PROVE  StockInv'
  <2>1. UNCHANGED <<method, goods, booked, value, moves>>
    BY <1>13 DEF CallDies
  <2> QED BY <1>1, <1>13, <2>1, DiesKeeps, GoodsStay DEF StockInv
<1> QED BY <1>3, <1>4, <1>5, <1>6, <1>7, <1>8, <1>9, <1>10, <1>11, <1>12, <1>13 DEF StockNext

LEMMA StockInvariant == StockSpec => []StockInv
BY StockStarts, StockStep, PTL DEF StockSpec

\* StockService, StockTransfersService, StockCountsService and PurchaseOrdersService:
\* whatever is received, issued, transferred, sent on a truck, taken back or booked
\* from a document, by however many calls and with calls that die, the level of a
\* warehouse is what its StockMovement rows add up to, less what left it on a truck,
\* plus what arrived on one.
THEOREM StockLevelsAddUp == StockSpec => []LevelsAddUp
<1>1. StockInv => LevelsAddUp
  BY DEF StockInv, GoodsInv
<1> QED BY <1>1, StockInvariant, PTL

\* inventory-costing.ts: what fifo takes are the oldest units of the warehouse, at what
\* they cost, and it leaves the others alone; under fifo the layers and the trucks are worth what was bought
\* less what was used up, to half of the smallest amount per unit that travelled at a
\* blended cost; and no average, layer or truck is above the dearest unit ever bought,
\* under either method and also where stock went negative before it came in.
THEOREM StockValuationHolds == StockSpec => []ValuationHolds
<1>1. StockInv => OldestFirst
  BY FifoIsOldestFirst DEF StockInv, GoodsInv, GoodsTyped
<1>2. StockInv => ValuationHolds
  BY <1>1 DEF StockInv, GoodsInv, PaperInv, GoodsTyped, PaperTyped, Within, ValuationHolds, StockTypeOK,
         CostsStayWithin
<1> QED BY <1>2, StockInvariant, PTL

\* finalize and receive check the status of a document, book its movement and close it
\* in three steps: it is booked twice only if two calls were at it at one time, or one
\* died after it had booked and before it had closed.
THEOREM DocumentsBookedOnce == StockSpec => []BookedOnce
<1>1. StockInv => BookedOnce
  <2>1. ASSUME StockInv, NEW d \in Documents PROVE doc[d].booked > 1 => doc[d].excused
    <3>1. DocumentOk(d) /\ doc[d] \in Document
      BY <2>1 DEF StockInv, PaperInv, PaperTyped
    <3>2. doc[d].booked \in Nat
      BY <3>1 DEF Document
    <3> QED BY <3>1, <3>2 DEF DocumentOk
  <2> QED BY <2>1 DEF BookedOnce
<1> QED BY <1>1, StockInvariant, PTL

=============================================================================

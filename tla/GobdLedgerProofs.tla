-------------------------- MODULE GobdLedgerProofs --------------------------
(***************************************************************************)
(* The journal stays one linear, verifiable chain for any number of        *)
(* concurrent requests and retries, and implements a tamper-evident log.   *)
(*                                                                         *)
(* The invariant has to speak about the open transactions too: what each   *)
(* of them sees (its snapshot followed by its own rows) is a good chain,   *)
(* and that snapshot is still a prefix of what it sees. Once the table was *)
(* tampered with, it has a first row that does not verify, and no commit   *)
(* changes anything up to that row.                                        *)
(***************************************************************************)
EXTENDS GobdLedger, TLAPS

IsTable(rows) == \E S : rows \in Seq(S)

\* A row has the columns it should have, and its payload was not forged.
Genuine(row) ==
    /\ row = [sequence |-> row.sequence, payload |-> row.payload,
              previousHash |-> row.previousHash, hash |-> row.hash]
    /\ row.payload = [fields |-> row.payload.fields, order |-> row.payload.order]
    /\ row.payload.fields # Forged

\* Numbered 1, 2, 3, ... and accepted by verifyChain.
GoodChain(rows) ==
    \A i \in 1..Len(rows) : rows[i].sequence = i /\ RowVerifies(rows, i) /\ Genuine(rows[i])

\* Row p is the first that verifyChain does not accept.
BrokenAt(rows, p) ==
    /\ p \in 1..Len(rows) /\ ~RowVerifies(rows, p)
    /\ \A j \in 1..(p - 1) : RowVerifies(rows, j)

Tables ==
    /\ IsTable(ledger)
    /\ \A t \in Requests : IsTable(base[t]) /\ IsTable(view[t])
    /\ DOMAIN base = Requests /\ base = [t \in Requests |-> base[t]]
    /\ DOMAIN view = Requests /\ view = [t \in Requests |-> view[t]]

\* The snapshot of a transaction is a prefix of what it sees.
Prefix ==
    \A t \in Requests : /\ Len(base[t]) <= Len(view[t])
                        /\ \A i \in 1..Len(base[t]) : view[t][i] = base[t][i]

ChainsGood ==
    tampered.kind = "no" =>
        /\ GoodChain(ledger)
        /\ \A t \in Requests : pc[t] = "open" => GoodChain(view[t])

\* The sequence number verifyChain must name.
NamedRow == IF tampered.kind = "edited" THEN tampered.sequence ELSE tampered.sequence + 1

TamperedBroken ==
    tampered.kind # "no" => \E p \in 1..Len(ledger) : BrokenAt(ledger, p) /\ ledger[p].sequence = NamedRow

\* The rows an open transaction has added are its own, in order.
OwnRows ==
    \A t \in Requests : pc[t] = "open" =>
        \A k \in 1..Inserted(t) : view[t][Len(base[t]) + k].payload.fields = <<t, k>>

IInv == Tables /\ TypeOK /\ Prefix /\ ChainsGood /\ TamperedBroken /\ OwnRows

\* Extending a table by one row leaves the rows before it where they were.
LEMMA AppendTable ==
    ASSUME NEW rows, IsTable(rows), NEW e
    PROVE  /\ IsTable(Append(rows, e))
           /\ Len(rows) \in Nat
           /\ Len(Append(rows, e)) = Len(rows) + 1
           /\ \A i \in 1..Len(rows) : Append(rows, e)[i] = rows[i]
           /\ Append(rows, e)[Len(rows) + 1] = e
<1>1. PICK S : rows \in Seq(S)
  BY DEF IsTable
<1>2. rows \in Seq(S \union {e}) /\ e \in S \union {e}
  BY <1>1
<1>3. Append(rows, e) \in Seq(S \union {e})
  BY <1>2
<1> QED BY <1>2, <1>3 DEF IsTable

\* A payload says something.
LEMMA TupleNotEmpty == \A a, b : <<a, b>> # <<>>
  OBVIOUS

\* Two hashes are equal only if the sequence numbers and the contents are, and
\* none is null.
LEMMA HashDiffers ==
    /\ \A a, b, c, x, y, z :
         <<"sha256", a, b, c>> = <<"sha256", x, y, z>> => a = x /\ b = y
    /\ \A a, b, c : <<"sha256", a, b, c>> # <<>>
  OBVIOUS

\* append() extends a good chain to a good chain.
LEMMA NextRowGood ==
    ASSUME NEW rows, IsTable(rows), GoodChain(rows), NEW t, NEW k
    PROVE  GoodChain(Append(rows, NextRow(rows, Payload(t, k))))
<1> DEFINE e == NextRow(rows, Payload(t, k))
           new == Append(rows, e)
<1>1. /\ Len(rows) \in Nat
      /\ Len(new) = Len(rows) + 1
      /\ \A i \in 1..Len(rows) : new[i] = rows[i]
      /\ new[Len(rows) + 1] = e
  BY AppendTable
<1>2. rows # <<>> => Len(rows) > 0 /\ LastIndex(rows) = Len(rows)
  <2>1. rows # <<>> => Len(rows) > 0
    <3>1. PICK S : rows \in Seq(S)
      BY DEF IsTable
    <3> QED BY <3>1
  <2> SUFFICES ASSUME Len(rows) > 0
               PROVE  LastIndex(rows) = Len(rows)
    BY <2>1
  <2>2. \A i \in 1..Len(rows) : rows[i].sequence = i
    BY DEF GoodChain
  <2>3. \E i \in 1..Len(rows) : \A j \in 1..Len(rows) : rows[j].sequence <= rows[i].sequence
    <3>1. Len(rows) \in 1..Len(rows)
      BY <1>1
    <3>2. \A j \in 1..Len(rows) : rows[j].sequence <= rows[Len(rows)].sequence
      BY <1>1, <2>2, <3>1
    <3> QED BY <3>1, <3>2
  <2>4. /\ LastIndex(rows) \in 1..Len(rows)
        /\ \A j \in 1..Len(rows) : rows[j].sequence <= rows[LastIndex(rows)].sequence
    BY <2>3 DEF LastIndex
  <2> QED BY <1>1, <2>2, <2>4
<1>3. rows = <<>> => Len(rows) = 0
  OBVIOUS
<1>4. e.sequence = Len(rows) + 1 /\ e.previousHash = HashBefore(new, Len(rows) + 1)
  BY <1>1, <1>2, <1>3 DEF NextRow, GoodChain, HashBefore
<1>5. ComputeHash(e.sequence, e.payload, e.previousHash) = e.hash
  BY DEF NextRow, ComputeHash, Canonicalize, Stored, Payload
<1>6. \A i \in 1..Len(rows) : HashBefore(new, i) = HashBefore(rows, i)
  BY <1>1 DEF HashBefore
<1>8. Genuine(e)
  BY TupleNotEmpty DEF NextRow, Genuine, Stored, Payload, Forged
<1> HIDE DEF e, new
<1>7. ASSUME NEW i \in 1..Len(new)
      PROVE  new[i].sequence = i /\ RowVerifies(new, i) /\ Genuine(new[i])
  <2>1. CASE i \in 1..Len(rows)
    BY <1>1, <1>6, <2>1 DEF GoodChain, RowVerifies
  <2>2. CASE i = Len(rows) + 1
    BY <1>1, <1>4, <1>5, <1>8, <2>2 DEF RowVerifies
  <2> QED BY <1>1, <2>1, <2>2
<1> QED BY <1>7 DEF GoodChain, new, e

\* Committing under SERIALIZABLE leaves exactly what the transaction saw.
LEMMA CommitTable ==
    ASSUME NEW b, NEW v, IsTable(b), IsTable(v), Len(b) <= Len(v),
           \A i \in 1..Len(b) : v[i] = b[i]
    PROVE  LET n == b \o SubSeq(v, Len(b) + 1, Len(v))
           IN  /\ IsTable(n)
               /\ Len(n) = Len(v)
               /\ \A i \in 1..Len(v) : n[i] = v[i]
<1>1. PICK S : b \in Seq(S)
  BY DEF IsTable
<1>2. PICK T : v \in Seq(T)
  BY DEF IsTable
<1> DEFINE U == S \union T
<1>3. b \in Seq(U) /\ v \in Seq(U)
  BY <1>1, <1>2
<1>4. /\ SubSeq(v, Len(b) + 1, Len(v)) \in Seq(U)
      /\ Len(SubSeq(v, Len(b) + 1, Len(v))) = Len(v) - Len(b)
      /\ \A i \in 1..(Len(v) - Len(b)) : SubSeq(v, Len(b) + 1, Len(v))[i] = v[Len(b) + i]
  BY <1>3
<1> HIDE DEF U
<1> QED BY <1>3, <1>4 DEF IsTable

\* What follows the first broken row does not mend it.
LEMMA BrokenStays ==
    ASSUME NEW rows, NEW more, Len(rows) \in Nat, Len(more) \in Nat, Len(rows) <= Len(more),
           \A i \in 1..Len(rows) : more[i] = rows[i],
           NEW p, BrokenAt(rows, p)
    PROVE  BrokenAt(more, p) /\ p \in 1..Len(more) /\ more[p] = rows[p]
<1>1. p \in 1..Len(rows) /\ p \in 1..Len(more) /\ more[p] = rows[p]
  BY DEF BrokenAt
<1>2. \A i \in 1..p : RowVerifies(more, i) <=> RowVerifies(rows, i)
  <2> TAKE i \in 1..p
  <2>1. i \in 1..Len(rows) /\ (i = 1 \/ i - 1 \in 1..Len(rows))
    BY <1>1
  <2>2. more[i] = rows[i] /\ HashBefore(more, i) = HashBefore(rows, i)
    BY <2>1 DEF HashBefore
  <2> QED BY <2>2 DEF RowVerifies
<1>3. ~RowVerifies(more, p)
  BY <1>1, <1>2 DEF BrokenAt
<1>4. \A j \in 1..(p - 1) : RowVerifies(more, j)
  BY <1>1, <1>2 DEF BrokenAt
<1> QED BY <1>1, <1>3, <1>4 DEF BrokenAt

\* verifyChain names the first row that does not verify.
LEMMA BrokenNamed ==
    ASSUME NEW rows, Len(rows) \in Nat, NEW p, BrokenAt(rows, p)
    PROVE  ~ChainValid(rows) /\ BrokenAtSequence(rows) = rows[p].sequence
<1> DEFINE Q(i) == ~RowVerifies(rows, i) /\ \A j \in 1..(i - 1) : RowVerifies(rows, j)
           q == CHOOSE i \in 1..Len(rows) : Q(i)
<1>1. p \in 1..Len(rows) /\ Q(p)
  BY DEF BrokenAt
<1>2. q \in 1..Len(rows) /\ Q(q)
  <2> HIDE DEF Q
  <2> QED BY <1>1
<1>3. q = p
  <2>1. ~(q < p) /\ ~(p < q)
    BY <1>1, <1>2
  <2> QED BY <1>1, <1>2, <2>1
<1>4. BrokenAtSequence(rows) = rows[q].sequence
  BY DEF BrokenAtSequence
<1> QED BY <1>1, <1>3, <1>4 DEF ChainValid

\* A forged payload does not fit the hash beside it.
LEMMA EditFound ==
    ASSUME NEW rows, IsTable(rows), GoodChain(rows), NEW i \in 1..Len(rows), NEW new,
           new = [rows EXCEPT ![i].payload.fields = Forged]
    PROVE  /\ IsTable(new) /\ Len(new) = Len(rows)
           /\ BrokenAt(new, i) /\ new[i].sequence = i
<1>1. PICK S : rows \in Seq(S)
  BY DEF IsTable
<1> DEFINE row == [rows[i] EXCEPT !.payload.fields = Forged]
<1>2. new = [rows EXCEPT ![i] = row]
  OBVIOUS
<1>3. /\ rows[i].sequence = i /\ RowVerifies(rows, i) /\ Genuine(rows[i])
      /\ \A j \in 1..Len(rows) : RowVerifies(rows, j)
  BY DEF GoodChain
<1>4. /\ row.sequence = i /\ row.payload.fields = Forged
      /\ row.previousHash = rows[i].previousHash /\ row.hash = rows[i].hash
  <2> DEFINE pay == [rows[i].payload EXCEPT !.fields = Forged]
  <2>1. row = [rows[i] EXCEPT !.payload = pay]
    OBVIOUS
  <2>2. pay.fields = Forged
    BY <1>3 DEF Genuine
  <2> HIDE DEF pay, row
  <2> QED BY <1>3, <2>1, <2>2 DEF Genuine
<1> HIDE DEF row
<1>5. /\ new \in Seq(S \union {row}) /\ Len(new) = Len(rows) /\ new[i] = row
      /\ \A j \in 1..Len(rows) : j # i => new[j] = rows[j]
  BY <1>1, <1>2
<1>6. ~RowVerifies(new, i)
  <2>1. ComputeHash(i, rows[i].payload, rows[i].previousHash) = rows[i].hash
    BY <1>3 DEF RowVerifies
  <2>2. rows[i].payload.fields # Forged
    BY <1>3 DEF Genuine
  <2>3. ComputeHash(i, row.payload, rows[i].previousHash) # rows[i].hash
    BY <1>4, <2>1, <2>2, HashDiffers DEF ComputeHash, Canonicalize
  <2> QED BY <1>4, <1>5, <2>3 DEF RowVerifies
<1>7. \A j \in 1..(i - 1) : RowVerifies(new, j)
  <2> TAKE j \in 1..(i - 1)
  <2>1. j \in 1..Len(rows) /\ j # i /\ (j = 1 \/ (j - 1 \in 1..Len(rows) /\ j - 1 # i))
    BY <1>1
  <2>2. new[j] = rows[j] /\ HashBefore(new, j) = HashBefore(rows, j)
    BY <1>5, <2>1 DEF HashBefore
  <2> QED BY <1>3, <2>1, <2>2 DEF RowVerifies
<1>8. BrokenAt(new, i)
  BY <1>5, <1>6, <1>7 DEF BrokenAt
<1> QED BY <1>4, <1>5, <1>8 DEF IsTable

\* The row after a deleted one is chained to a hash that is gone.
LEMMA DeletionFound ==
    ASSUME NEW rows, IsTable(rows), GoodChain(rows), NEW i \in 1..Len(rows), i < Len(rows), NEW new,
           new = SubSeq(rows, 1, i - 1) \o SubSeq(rows, i + 1, Len(rows))
    PROVE  /\ IsTable(new) /\ Len(new) = Len(rows) - 1
           /\ BrokenAt(new, i) /\ new[i].sequence = i + 1
<1>1. PICK S : rows \in Seq(S)
  BY DEF IsTable
<1>2. Len(rows) \in Nat /\ i \in Nat /\ i >= 1 /\ i + 1 \in 1..Len(rows)
  BY <1>1
<1>3. /\ SubSeq(rows, 1, i - 1) \in Seq(S) /\ Len(SubSeq(rows, 1, i - 1)) = i - 1
      /\ \A j \in 1..(i - 1) : SubSeq(rows, 1, i - 1)[j] = rows[j]
  BY <1>1, <1>2
<1>4. /\ SubSeq(rows, i + 1, Len(rows)) \in Seq(S)
      /\ Len(SubSeq(rows, i + 1, Len(rows))) = Len(rows) - i
      /\ \A j \in 1..(Len(rows) - i) : SubSeq(rows, i + 1, Len(rows))[j] = rows[i + j]
  BY <1>1, <1>2
<1>5. /\ new \in Seq(S) /\ Len(new) = Len(rows) - 1
      /\ \A j \in 1..(i - 1) : new[j] = rows[j]
      /\ new[i] = rows[i + 1]
  BY <1>2, <1>3, <1>4
<1>6. ~RowVerifies(new, i)
  <2>1. rows[i + 1].previousHash = rows[i].hash
    <3>1. rows[i + 1].previousHash = HashBefore(rows, i + 1)
      BY <1>2 DEF GoodChain, RowVerifies
    <3> QED BY <1>2, <3>1 DEF HashBefore
  <2>2. rows[i].hash = ComputeHash(i, rows[i].payload, rows[i].previousHash)
    BY DEF GoodChain, RowVerifies
  <2>3. HashBefore(new, i) # rows[i].hash
    <3>1. CASE i = 1
      BY <2>2, <3>1, HashDiffers DEF HashBefore, ComputeHash, NoHash
    <3>2. CASE i # 1
      <4>1. i - 1 \in 1..Len(rows) /\ i - 1 \in 1..(i - 1)
        BY <1>2, <3>2
      <4>2. HashBefore(new, i) = rows[i - 1].hash
        BY <1>5, <3>2, <4>1 DEF HashBefore
      <4>3. rows[i - 1].hash = ComputeHash(i - 1, rows[i - 1].payload, rows[i - 1].previousHash)
        BY <4>1 DEF GoodChain, RowVerifies
      <4>4. i - 1 # i
        BY <1>2
      <4> QED BY <2>2, <4>2, <4>3, <4>4, HashDiffers DEF ComputeHash
    <3> QED BY <3>1, <3>2
  <2> QED BY <1>5, <2>1, <2>3 DEF RowVerifies
<1>7. \A j \in 1..(i - 1) : RowVerifies(new, j)
  <2> TAKE j \in 1..(i - 1)
  <2>1. j \in 1..Len(rows) /\ (j = 1 \/ j - 1 \in 1..(i - 1))
    BY <1>2
  <2>2. new[j] = rows[j] /\ HashBefore(new, j) = HashBefore(rows, j)
    BY <1>5, <2>1 DEF HashBefore
  <2> QED BY <2>1, <2>2 DEF GoodChain, RowVerifies
<1>8. BrokenAt(new, i)
  BY <1>2, <1>5, <1>6, <1>7 DEF BrokenAt
<1>9. new[i].sequence = i + 1
  BY <1>2, <1>5 DEF GoodChain
<1> QED BY <1>5, <1>8, <1>9 DEF IsTable

\* The empty table is a good chain.
LEMMA InitIInv == Init => IInv
<1> SUFFICES ASSUME Init PROVE IInv
  OBVIOUS
<1>1. IsTable(<<>>)
  <2>1. <<>> \in Seq({})
    OBVIOUS
  <2> QED BY <2>1 DEF IsTable
<1>2. Tables
  BY <1>1 DEF Init, Tables
<1> QED
  BY <1>2, LedgerAssumption
  DEF Init, IInv, TypeOK, Prefix, ChainsGood, GoodChain, TamperedBroken, OwnRows, Inserted

\* A step that leaves the table and every transaction's rows alone, and opens no
\* transaction, keeps the invariant.
LEMMA QuietStep ==
    ASSUME IInv,
           ledger' = ledger, base' = base, view' = view, tampered' = tampered,
           pc' \in [Requests -> {"idle", "open", "retry", "done", "failed"}],
           attempt' \in [Requests -> 1..MaxAttempts],
           \A q \in Requests : pc'[q] = "open" => pc[q] = "open"
    PROVE  IInv'
<1>1. Tables'
  BY DEF IInv, Tables
<1>2. TypeOK'
  BY DEF IInv, TypeOK, Inserted
<1>3. Prefix'
  BY DEF IInv, Prefix
<1>4. ChainsGood'
  BY DEF IInv, ChainsGood
<1>5. TamperedBroken'
  BY DEF IInv, TamperedBroken, NamedRow
<1>6. OwnRows'
  BY DEF IInv, OwnRows, Inserted
<1> QED BY <1>1, <1>2, <1>3, <1>4, <1>5, <1>6 DEF IInv

\* Every step preserves the invariant.
LEMMA NextIInv == IInv /\ [Next]_vars => IInv'
<1> SUFFICES ASSUME IInv, [Next]_vars
             PROVE  IInv'
  OBVIOUS
<1> USE LedgerAssumption
<1>0. /\ Len(ledger) \in Nat
      /\ \A t \in Requests : Len(base[t]) \in Nat /\ Len(view[t]) \in Nat
  <2>1. \A rows : IsTable(rows) => Len(rows) \in Nat
    BY DEF IsTable
  <2> QED BY <2>1 DEF IInv, Tables
<1>00. \A t \in Requests : Entries[t] \in Nat /\ Entries[t] >= 1
  BY DEF LedgerAssumption
<1>1. CASE UNCHANGED vars
  <2>1. /\ pc' \in [Requests -> {"idle", "open", "retry", "done", "failed"}]
        /\ attempt' \in [Requests -> 1..MaxAttempts]
    BY <1>1 DEF vars, IInv, TypeOK
  <2> QED BY <1>1, <2>1, QuietStep DEF vars
<1>2. ASSUME NEW t \in Requests, Begin(t)
      PROVE  IInv'
  <2>1. Tables'
    BY <1>2 DEF Begin, IInv, Tables
  <2>2. \A q \in Requests : /\ base'[q] = IF q = t THEN ledger ELSE base[q]
                           /\ view'[q] = IF q = t THEN ledger ELSE view[q]
    BY <1>2 DEF Begin, IInv, Tables
  <2>3. Prefix'
    BY <1>0, <2>2 DEF IInv, Prefix
  <2>4. TypeOK'
    <3>1. pc' \in [Requests -> {"idle", "open", "retry", "done", "failed"}]
      BY <1>2 DEF Begin, IInv, TypeOK
    <3>2. \A q \in Requests : Len(base'[q]) <= Len(view'[q]) /\ Inserted(q)' <= Entries[q]
      <4>1. ASSUME NEW q \in Requests
            PROVE  /\ Len(base'[q]) <= Len(view'[q])
                   /\ Len(view'[q]) - Len(base'[q]) <= Entries[q]
        <5>1. CASE q = t
          <6>1. base'[q] = ledger /\ view'[q] = ledger
            BY <2>2, <5>1
          <6> QED BY <1>0, <1>00, <6>1
        <5>2. CASE q # t
          BY <1>0, <2>2, <5>2 DEF IInv, TypeOK, Inserted
        <5> QED BY <5>1, <5>2
      <4> QED BY <4>1 DEF Inserted
    <3> QED BY <1>2, <3>1, <3>2 DEF Begin, IInv, TypeOK
  <2>5. ChainsGood'
    BY <1>2 DEF Begin, IInv, Tables, TypeOK, ChainsGood
  <2>6. TamperedBroken'
    BY <1>2 DEF Begin, IInv, TamperedBroken, NamedRow
  <2>7. OwnRows'
    <3> SUFFICES ASSUME NEW q \in Requests, pc'[q] = "open", NEW k \in 1..Inserted(q)'
                 PROVE  view'[q][Len(base'[q]) + k].payload.fields = <<q, k>>
      BY DEF OwnRows
    <3>1. CASE q = t
      <4>1. Inserted(q)' = 0
        BY <1>0, <2>2, <3>1 DEF Inserted
      <4> QED BY <4>1
    <3>2. CASE q # t
      <4>1. pc[q] = "open" /\ view'[q] = view[q] /\ base'[q] = base[q] /\ Inserted(q)' = Inserted(q)
        BY <1>2, <2>2, <3>2 DEF Begin, IInv, TypeOK, Inserted
      <4> QED BY <4>1 DEF IInv, OwnRows
    <3> QED BY <3>1, <3>2
  <2> QED BY <2>1, <2>3, <2>4, <2>5, <2>6, <2>7 DEF IInv
<1>3. ASSUME NEW t \in Requests, AppendRow(t)
      PROVE  IInv'
  <2> DEFINE e == NextRow(view[t], Payload(t, Inserted(t) + 1))
  <2>1. view' = [view EXCEPT ![t] = Append(view[t], e)]
    BY <1>3 DEF AppendRow
  <2>2. IsTable(view[t])
    BY DEF IInv, Tables
  <2>3. tampered.kind = "no" => GoodChain(Append(view[t], e))
    BY <1>3, <2>2, NextRowGood DEF AppendRow, IInv, ChainsGood
  <2> HIDE DEF e
  <2>4. /\ IsTable(Append(view[t], e))
        /\ Len(Append(view[t], e)) = Len(view[t]) + 1
        /\ \A i \in 1..Len(view[t]) : Append(view[t], e)[i] = view[t][i]
    BY <2>2, AppendTable
  <2>5. Tables'
    BY <1>3, <2>1, <2>4 DEF AppendRow, IInv, Tables
  <2>6. TypeOK' /\ Prefix'
    <3>1. \A q \in Requests : view'[q] = IF q = t THEN Append(view[t], e) ELSE view[q]
      BY <2>1 DEF IInv, Tables
    <3>2. Prefix'
      BY <1>0, <1>3, <2>4, <3>1 DEF AppendRow, IInv, Prefix
    <3>3. \A q \in Requests : Len(base'[q]) <= Len(view'[q]) /\ Inserted(q)' <= Entries[q]
      <4>1. ASSUME NEW q \in Requests
            PROVE  /\ Len(base'[q]) <= Len(view'[q])
                   /\ Len(view'[q]) - Len(base'[q]) <= Entries[q]
        <5>1. CASE q = t
          <6>1. Len(base'[q]) = Len(base[t]) /\ Len(view'[q]) = Len(view[t]) + 1
            BY <1>3, <2>4, <3>1, <5>1 DEF AppendRow
          <6>2. Len(base[t]) <= Len(view[t]) /\ Len(view[t]) - Len(base[t]) < Entries[t]
            BY <1>3 DEF AppendRow, IInv, TypeOK, Inserted
          <6>3. /\ Len(base[t]) \in Nat /\ Len(view[t]) \in Nat
                /\ Entries[q] = Entries[t] /\ Entries[t] \in Nat
            BY <1>0, <1>00, <5>1
          <6>4. \A b, v, n \in Nat : b <= v /\ v - b < n => b <= v + 1 /\ (v + 1) - b <= n
            OBVIOUS
          <6> QED BY <6>1, <6>2, <6>3, <6>4
        <5>2. CASE q # t
          BY <1>0, <1>3, <3>1, <5>2 DEF AppendRow, IInv, TypeOK, Inserted
        <5> QED BY <5>1, <5>2
      <4> QED BY <4>1 DEF Inserted
    <3> QED BY <1>3, <3>2, <3>3 DEF AppendRow, IInv, TypeOK
  <2>7. ChainsGood'
    BY <1>3, <2>1, <2>3 DEF AppendRow, IInv, Tables, ChainsGood
  <2>8. TamperedBroken'
    BY <1>3 DEF AppendRow, IInv, TamperedBroken, NamedRow
  <2>9. OwnRows'
    <3> SUFFICES ASSUME NEW q \in Requests, pc'[q] = "open", NEW k \in 1..Inserted(q)'
                 PROVE  view'[q][Len(base'[q]) + k].payload.fields = <<q, k>>
      BY DEF OwnRows
    <3>1. CASE q # t
      <4>1. pc[q] = "open" /\ view'[q] = view[q] /\ base'[q] = base[q] /\ Inserted(q)' = Inserted(q)
        BY <1>3, <2>1, <3>1 DEF AppendRow, IInv, Tables, Inserted
      <4> QED BY <4>1 DEF IInv, OwnRows
    <3>2. CASE q = t
      <4>1. /\ pc[t] = "open" /\ view'[t] = Append(view[t], e) /\ base'[t] = base[t]
        BY <1>3, <2>1 DEF AppendRow, IInv, Tables
      <4>2. Len(base[t]) \in Nat /\ Len(view[t]) \in Nat /\ Len(base[t]) <= Len(view[t])
        BY <1>0 DEF IInv, TypeOK
      <4>3. Inserted(t)' = Inserted(t) + 1 /\ Inserted(t) \in Nat
        BY <2>4, <4>1, <4>2 DEF Inserted
      <4>4. CASE k \in 1..Inserted(t)
        <5>1. Len(base[t]) + k \in 1..Len(view[t])
          BY <4>2, <4>4 DEF Inserted
        <5>2. view'[t][Len(base[t]) + k] = view[t][Len(base[t]) + k]
          BY <2>4, <4>1, <5>1
        <5> QED BY <3>2, <4>1, <4>4, <5>2 DEF IInv, OwnRows
      <4>5. CASE k = Inserted(t) + 1
        <5>1. Len(base[t]) + k = Len(view[t]) + 1
          BY <4>2, <4>5 DEF Inserted
        <5>2. view'[t][Len(base[t]) + k] = e
          BY <2>2, <4>1, <5>1, AppendTable
        <5>3. e.payload.fields = <<t, k>>
          BY <4>5 DEF e, NextRow, Stored, Payload
        <5> QED BY <3>2, <4>1, <5>2, <5>3
      <4> QED BY <3>2, <4>3, <4>4, <4>5
    <3> QED BY <3>1, <3>2
  <2> QED BY <2>5, <2>6, <2>7, <2>8, <2>9 DEF IInv
<1>4. ASSUME NEW t \in Requests, Commit(t)
      PROVE  IInv'
  <2>1. ledger' = base[t] \o SubSeq(view[t], Len(base[t]) + 1, Len(view[t]))
    BY <1>4 DEF Commit, Serializable, NewTable
  <2>2. /\ IsTable(ledger')
        /\ Len(ledger') = Len(view[t])
        /\ \A i \in 1..Len(view[t]) : ledger'[i] = view[t][i]
    BY <2>1, CommitTable DEF IInv, Tables, Prefix
  <2>3. Tables' /\ TypeOK' /\ Prefix'
    <3>1. Tables'
      BY <1>4, <2>2 DEF Commit, IInv, Tables
    <3>2. TypeOK'
      BY <1>4 DEF Commit, IInv, TypeOK, Inserted
    <3>3. Prefix'
      BY <1>4 DEF Commit, IInv, Prefix
    <3> QED BY <3>1, <3>2, <3>3
  <2>4. ChainsGood'
    <3>1. GoodChain(view[t]) => GoodChain(ledger')
      BY <1>0, <2>2 DEF GoodChain, RowVerifies, HashBefore
    <3> QED BY <1>4, <3>1 DEF Commit, IInv, TypeOK, ChainsGood
  <2>5. TamperedBroken'
    <3> SUFFICES ASSUME tampered.kind # "no"
                 PROVE  \E p \in 1..Len(ledger') : BrokenAt(ledger', p) /\ ledger'[p].sequence = NamedRow
      BY <1>4 DEF Commit, TamperedBroken, NamedRow
    <3>1. PICK p \in 1..Len(ledger) : BrokenAt(ledger, p) /\ ledger[p].sequence = NamedRow
      BY DEF IInv, TamperedBroken
    <3>2. ledger = base[t] /\ Len(ledger) <= Len(ledger') /\ Len(ledger') \in Nat
      BY <1>0, <1>4, <2>2 DEF Commit, Serializable, IInv, Prefix
    <3>3. \A i \in 1..Len(ledger) : ledger'[i] = ledger[i]
      BY <1>0, <2>2, <3>2 DEF IInv, Prefix
    <3>4. BrokenAt(ledger', p) /\ p \in 1..Len(ledger') /\ ledger'[p] = ledger[p]
      BY <1>0, <3>1, <3>2, <3>3, BrokenStays
    <3> QED BY <3>1, <3>4
  <2>6. OwnRows'
    BY <1>4 DEF Commit, IInv, TypeOK, OwnRows, Inserted
  <2> QED BY <2>3, <2>4, <2>5, <2>6 DEF IInv
<1>5. ASSUME NEW t \in Requests, WriteConflict(t)
      PROVE  IInv'
  <2>1. /\ pc' \in [Requests -> {"idle", "open", "retry", "done", "failed"}]
        /\ \A q \in Requests : pc'[q] = "open" => pc[q] = "open"
    BY <1>5 DEF WriteConflict, IInv, TypeOK
  <2>2. attempt' \in [Requests -> 1..MaxAttempts]
    <3>1. CASE attempt[t] = MaxAttempts
      BY <1>5, <3>1 DEF WriteConflict, IInv, TypeOK
    <3>2. CASE attempt[t] # MaxAttempts
      <4>1. attempt[t] + 1 \in 1..MaxAttempts
        BY <3>2 DEF IInv, TypeOK
      <4> QED BY <1>5, <3>2, <4>1 DEF WriteConflict, IInv, TypeOK
    <3> QED BY <3>1, <3>2
  <2> QED BY <1>5, <2>1, <2>2, QuietStep DEF WriteConflict
<1>6. ASSUME NEW t \in Requests, Error(t)
      PROVE  IInv'
  <2>1. /\ pc' \in [Requests -> {"idle", "open", "retry", "done", "failed"}]
        /\ \A q \in Requests : pc'[q] = "open" => pc[q] = "open"
        /\ attempt' \in [Requests -> 1..MaxAttempts]
    BY <1>6 DEF Error, IInv, TypeOK
  <2> QED BY <1>6, <2>1, QuietStep DEF Error
<1>7. ASSUME NEW i \in 1..Len(ledger), Tamper(i)
      PROVE  IInv'
  <2>1. IsTable(ledger) /\ GoodChain(ledger) /\ ledger[i].sequence = i /\ i \in Nat
    BY <1>0, <1>7 DEF Tamper, IInv, Tables, ChainsGood, GoodChain
  <2>2. /\ IsTable(ledger') /\ BrokenAt(ledger', i) /\ tampered'.kind # "no"
        /\ tampered' \in [kind : {"no", "edited", "deleted"}, sequence : Nat]
        /\ ledger'[i].sequence = NamedRow'
    <3>1. CASE /\ ledger' = [ledger EXCEPT ![i].payload.fields = Forged]
               /\ tampered' = [kind |-> "edited", sequence |-> ledger[i].sequence]
      <4>1. IsTable(ledger') /\ BrokenAt(ledger', i) /\ ledger'[i].sequence = i
        BY <2>1, <3>1, EditFound
      <4> QED BY <2>1, <3>1, <4>1 DEF NamedRow
    <3>2. CASE /\ i < Len(ledger)
               /\ ledger' = SubSeq(ledger, 1, i - 1) \o SubSeq(ledger, i + 1, Len(ledger))
               /\ tampered' = [kind |-> "deleted", sequence |-> ledger[i].sequence]
      <4>1. IsTable(ledger') /\ BrokenAt(ledger', i) /\ ledger'[i].sequence = i + 1
        BY <2>1, <3>2, DeletionFound
      <4> QED BY <2>1, <3>2, <4>1 DEF NamedRow
    <3> QED BY <1>7, <3>1, <3>2 DEF Tamper
  <2>3. Tables' /\ Prefix'
    BY <1>7, <2>2 DEF Tamper, IInv, Tables, Prefix
  <2>4. TypeOK' /\ ChainsGood'
    BY <1>7, <2>2 DEF Tamper, IInv, TypeOK, ChainsGood, Inserted
  <2>5. TamperedBroken'
    BY <2>2 DEF TamperedBroken, BrokenAt
  <2>6. OwnRows'
    BY <1>7 DEF Tamper, IInv, OwnRows, Inserted
  <2> QED BY <2>3, <2>4, <2>5, <2>6 DEF IInv
<1>8. ASSUME NEW t \in Requests, Step(t) \/ WriteConflict(t) \/ Error(t)
      PROVE  IInv'
  BY <1>2, <1>3, <1>4, <1>5, <1>6, <1>8 DEF Step
<1>9. CASE Next
  <2>1. CASE \E t \in Requests : Step(t) \/ WriteConflict(t) \/ Error(t)
    BY <1>8, <2>1
  <2>2. CASE \E i \in 1..Len(ledger) : Tamper(i)
    BY <1>7, <2>2
  <2> QED BY <1>9, <2>1, <2>2 DEF Next
<1> QED BY <1>1, <1>9

\* The invariant holds in every reachable state.
LEMMA IInvAlways == Spec => []IInv
  BY InitIInv, NextIInv, PTL DEF Spec

\* The ledger never forks: rows are numbered in commit order, without gaps.
THEOREM LedgerIsLinear == Spec => []LinearHistory
<1>1. IInv => LinearHistory
  BY DEF IInv, ChainsGood, GoodChain, LinearHistory
<1> QED BY <1>1, IInvAlways, PTL

\* verifyChain never reports a break in a table nobody tampered with.
THEOREM VerifyChainAccepts == Spec => []UntamperedVerifies
<1>1. IInv => UntamperedVerifies
  BY DEF IInv, ChainsGood, GoodChain, UntamperedVerifies, ChainValid
<1> QED BY <1>1, IInvAlways, PTL

\* Every table that was edited, or that lost a row other than the newest, is rejected
\* for ever after, at the first row that no longer fits.
THEOREM TamperingDetected == Spec => []TamperingIsFound
<1>1. IInv => TamperingIsFound
  <2> SUFFICES ASSUME IInv, tampered.kind # "no"
               PROVE  ~ChainValid(ledger) /\ BrokenAtSequence(ledger) = NamedRow
    BY DEF TamperingIsFound, NamedRow
  <2>1. PICK p \in 1..Len(ledger) : BrokenAt(ledger, p) /\ ledger[p].sequence = NamedRow
    BY DEF IInv, TamperedBroken
  <2>2. Len(ledger) \in Nat
    BY DEF IInv, Tables, IsTable
  <2> QED BY <2>1, <2>2, BrokenNamed
<1> QED BY <1>1, IInvAlways, PTL

\* verifyChain is exact, in both directions and for tables of any length.
THEOREM VerifyChainExact == Spec => []VerifyChainIsExact
<1>1. UntamperedVerifies /\ TamperingIsFound => VerifyChainIsExact
  BY DEF VerifyChainIsExact
<1> QED BY <1>1, VerifyChainAccepts, TamperingDetected, PTL

\* The requests move through their phases and use up to MaxAttempts attempts.
THEOREM TypeCorrect == Spec => []TypeOK
<1>1. IInv => TypeOK
  BY DEF IInv
<1> QED BY <1>1, IInvAlways, PTL

-----------------------------------------------------------------------------
(***************************************************************************)
(* The refinement.                                                         *)
(***************************************************************************)
Fields(rows) == [i \in 1..Len(rows) |-> rows[i].payload.fields]
Finished == {t \in Requests : pc[t] = "done"}

\* The abstract log is a sequence.
LEMMA FieldsTable ==
    ASSUME NEW rows, IsTable(rows)
    PROVE  /\ Len(rows) \in Nat /\ Len(Fields(rows)) = Len(rows)
           /\ \E S : Fields(rows) \in Seq(S)
           /\ \A i \in 1..Len(rows) : Fields(rows)[i] = rows[i].payload.fields
<1>1. Len(rows) \in Nat
  BY DEF IsTable
<1> DEFINE S == {rows[i].payload.fields : i \in 1..Len(rows)}
<1>2. Fields(rows) \in [1..Len(rows) -> S]
  BY DEF Fields
<1>3. Fields(rows) \in Seq(S)
  BY <1>1, <1>2
<1>4. Len(Fields(rows)) = Len(rows)
  BY <1>1, <1>2, <1>3
<1> QED BY <1>1, <1>3, <1>4 DEF Fields

\* verifyChain says exactly whether the table was tampered with.
LEMMA ValidIffUntampered == IInv => (ChainValid(ledger) <=> tampered.kind = "no")
<1> SUFFICES ASSUME IInv PROVE ChainValid(ledger) <=> tampered.kind = "no"
  OBVIOUS
<1>1. tampered.kind = "no" => ChainValid(ledger)
  BY DEF IInv, ChainsGood, GoodChain, ChainValid
<1>2. tampered.kind # "no" => ~ChainValid(ledger)
  BY DEF IInv, TamperedBroken, BrokenAt, ChainValid
<1> QED BY <1>1, <1>2

\* The empty journal is the empty log.
LEMMA RefinesInit == Init => Log!Init
<1> SUFFICES ASSUME Init PROVE Log!Init
  OBVIOUS
<1>1. ledger = <<>> /\ Len(ledger) = 0
  BY DEF Init
<1>2. [i \in 1..Len(ledger) |-> ledger[i].payload.fields] = <<>>
  BY <1>1
<1>3. {t \in Requests : pc[t] = "done"} = {}
  BY DEF Init
<1>4. ChainValid(ledger) = TRUE
  BY <1>1 DEF ChainValid
<1> QED BY <1>2, <1>3, <1>4 DEF Log!Init

\* A step that finishes no request and leaves the table alone changes no log.
LEMMA RefinesQuiet ==
    ASSUME ledger' = ledger, \A q \in Requests : pc'[q] = "done" <=> pc[q] = "done"
    PROVE  UNCHANGED Log!vars
<1>1. {t \in Requests : pc'[t] = "done"} = {t \in Requests : pc[t] = "done"}
  OBVIOUS
<1>2. ChainValid(ledger)' = ChainValid(ledger)
  BY DEF ChainValid, RowVerifies, HashBefore, ComputeHash, Canonicalize
<1> QED BY <1>1, <1>2 DEF Log!vars

\* Two sequences are equal if they are equally long and agree everywhere.
LEMMA SameSequence ==
    ASSUME NEW S, NEW s \in Seq(S), NEW T, NEW u \in Seq(T), Len(s) = Len(u),
           \A i \in 1..Len(s) : s[i] = u[i]
    PROVE  s = u
<1>1. s = [i \in 1..Len(s) |-> s[i]]
  OBVIOUS
<1>2. u = [i \in 1..Len(u) |-> u[i]]
  OBVIOUS
<1> QED BY <1>1, <1>2

\* A commit writes the entries of its request.
LEMMA RefinesCommit ==
    ASSUME IInv, IInv', NEW t \in Requests, Commit(t)
    PROVE  Log!WriteEntries(t)
<1> USE LedgerAssumption
<1> DEFINE new == [k \in 1..Entries[t] |-> <<t, k>>]
           n == Len(ledger)
<1>1. /\ ledger = base[t] /\ IsTable(ledger) /\ IsTable(base[t]) /\ IsTable(view[t])
      /\ Len(base[t]) <= Len(view[t]) /\ \A i \in 1..Len(base[t]) : view[t][i] = base[t][i]
      /\ ledger' = base[t] \o SubSeq(view[t], Len(base[t]) + 1, Len(view[t]))
  BY DEF Commit, Serializable, NewTable, IInv, Tables, Prefix
<1>2. n \in Nat /\ Len(view[t]) \in Nat /\ Entries[t] \in Nat
  BY <1>1, FieldsTable
<1>3. /\ IsTable(ledger') /\ Len(ledger') = n + Entries[t]
      /\ \A i \in 1..Len(ledger') : ledger'[i] = view[t][i]
  <2>1. /\ IsTable(ledger') /\ Len(ledger') = Len(view[t])
        /\ \A i \in 1..Len(view[t]) : ledger'[i] = view[t][i]
    <3>1. ledger' = base[t] \o SubSeq(view[t], Len(base[t]) + 1, Len(view[t]))
      BY <1>1
    <3> QED BY <3>1, CommitTable DEF IInv, Tables, Prefix
  <2>2. Len(view[t]) = n + Entries[t]
    <3>1. Len(view[t]) - Len(base[t]) = Entries[t] /\ Len(base[t]) = n
      BY <1>1 DEF Commit, Inserted
    <3> HIDE DEF n
    <3> QED BY <1>2, <3>1
  <2> QED BY <2>1, <2>2
<1>4. \A i \in 1..n : ledger'[i] = ledger[i]
  <2> TAKE i \in 1..n
  <2>1. i \in 1..Len(base[t]) /\ view[t][i] = base[t][i] /\ base[t][i] = ledger[i]
    BY <1>1
  <2>2. i \in 1..Len(ledger')
    BY <1>2, <1>3
  <2> QED BY <1>3, <2>1, <2>2
<1>5. \A k \in 1..Entries[t] : ledger'[n + k].payload.fields = <<t, k>>
  <2> TAKE k \in 1..Entries[t]
  <2>1. k \in 1..Inserted(t) /\ pc[t] = "open" /\ n + k \in 1..Len(ledger')
    BY <1>2, <1>3 DEF Commit
  <2>2. view[t][n + k].payload.fields = <<t, k>>
    BY <1>1, <2>1 DEF IInv, OwnRows
  <2> QED BY <1>3, <2>1, <2>2
<1>6. PICK S : Fields(ledger) \in Seq(S)
  BY <1>1, FieldsTable
<1>7. PICK T : Fields(ledger') \in Seq(T)
  BY <1>3, FieldsTable
<1>8. /\ Len(Fields(ledger)) = n /\ \A i \in 1..n : Fields(ledger)[i] = ledger[i].payload.fields
  BY <1>1, FieldsTable
<1>9. /\ Len(Fields(ledger')) = n + Entries[t]
      /\ \A i \in 1..(n + Entries[t]) : Fields(ledger')[i] = ledger'[i].payload.fields
  BY <1>3, FieldsTable
<1> DEFINE P == {<<t, k>> : k \in 1..Entries[t]}
<1>10. new \in Seq(P) /\ Len(new) = Entries[t] /\ \A k \in 1..Entries[t] : new[k] = <<t, k>>
  BY <1>2
<1> DEFINE U == S \union P
<1> HIDE DEF new, P, U, n
<1>11. Fields(ledger) \in Seq(U) /\ new \in Seq(U)
  BY <1>6, <1>10 DEF U
<1>12. /\ Fields(ledger) \o new \in Seq(U)
       /\ Len(Fields(ledger) \o new) = n + Entries[t]
       /\ \A i \in 1..n : (Fields(ledger) \o new)[i] = Fields(ledger)[i]
       /\ \A i \in (n + 1)..(n + Entries[t]) : (Fields(ledger) \o new)[i] = new[i - n]
  BY <1>2, <1>8, <1>10, <1>11
<1>13. \A i \in 1..(n + Entries[t]) : Fields(ledger')[i] = (Fields(ledger) \o new)[i]
  <2> TAKE i \in 1..(n + Entries[t])
  <2>1. CASE i \in 1..n
    <3>1. ledger'[i] = ledger[i] /\ Fields(ledger)[i] = ledger[i].payload.fields
      BY <1>4, <1>8, <2>1
    <3>2. (Fields(ledger) \o new)[i] = Fields(ledger)[i]
      BY <1>12, <2>1
    <3>3. Fields(ledger')[i] = ledger'[i].payload.fields
      BY <1>9
    <3> QED BY <3>1, <3>2, <3>3
  <2>2. CASE i \in (n + 1)..(n + Entries[t])
    <3>1. i - n \in 1..Entries[t] /\ n + (i - n) = i
      BY <1>2, <2>2
    <3>2. ledger'[i].payload.fields = <<t, i - n>>
      BY <1>5, <3>1
    <3>3. (Fields(ledger) \o new)[i] = <<t, i - n>>
      BY <1>10, <1>12, <2>2, <3>1
    <3> QED BY <1>9, <3>2, <3>3
  <2>3. i \in 1..n \/ i \in (n + 1)..(n + Entries[t])
    BY <1>2
  <2> QED BY <2>1, <2>2, <2>3
<1>14. Fields(ledger') = Fields(ledger) \o new
  BY <1>7, <1>9, <1>12, <1>13, SameSequence
<1>15. t \notin Finished /\ Finished' = Finished \union {t}
  <2>1. pc[t] = "open" /\ pc' = [pc EXCEPT ![t] = "done"]
    BY DEF Commit
  <2>2. \A q \in Requests : pc'[q] = IF q = t THEN "done" ELSE pc[q]
    BY <2>1 DEF IInv, TypeOK
  <2> QED BY <2>1, <2>2 DEF Finished
<1>16. ChainValid(ledger)' = ChainValid(ledger)
  <2>1. tampered' = tampered
    BY DEF Commit
  <2>2. ChainValid(ledger) <=> tampered.kind = "no"
    BY ValidIffUntampered
  <2>3. ChainValid(ledger)' <=> tampered'.kind = "no"
    <3>1. tampered'.kind = "no" => ChainValid(ledger)'
      BY DEF IInv, ChainsGood, GoodChain, ChainValid
    <3>2. tampered'.kind # "no" => ~ChainValid(ledger)'
      BY DEF IInv, TamperedBroken, BrokenAt, ChainValid
    <3> QED BY <3>1, <3>2
  <2>4. ChainValid(ledger) \in BOOLEAN /\ ChainValid(ledger)' \in BOOLEAN
    BY DEF ChainValid
  <2> QED BY <2>1, <2>2, <2>3, <2>4
<1> QED BY <1>14, <1>15, <1>16 DEF Log!WriteEntries, Fields, Finished, new

\* Where the elements of a concatenation come from.
LEMMA ConcatElements ==
    ASSUME NEW S, NEW a \in Seq(S), NEW b \in Seq(S)
    PROVE  /\ a \o b \in Seq(S) /\ Len(a \o b) = Len(a) + Len(b)
           /\ \A j \in 1..Len(a) : (a \o b)[j] = a[j]
           /\ \A j \in 1..Len(b) : (a \o b)[Len(a) + j] = b[j]
  OBVIOUS

Without(s, i) == SubSeq(s, 1, i - 1) \o SubSeq(s, i + 1, Len(s))

\* A sequence without its i-th element.
LEMMA WithoutRow ==
    ASSUME NEW S, NEW s \in Seq(S), NEW i \in 1..Len(s)
    PROVE  /\ Without(s, i) \in Seq(S) /\ Len(Without(s, i)) = Len(s) - 1
           /\ \A j \in 1..(i - 1) : Without(s, i)[j] = s[j]
           /\ \A j \in i..(Len(s) - 1) : Without(s, i)[j] = s[j + 1]
<1>1. Len(s) \in Nat /\ i \in Nat /\ i >= 1 /\ i <= Len(s)
  OBVIOUS
<1> DEFINE a == SubSeq(s, 1, i - 1)
           b == SubSeq(s, i + 1, Len(s))
<1>2. /\ a \in Seq(S) /\ Len(a) = i - 1
      /\ \A j \in 1..(i - 1) : a[j] = s[j]
  BY <1>1
<1>3. /\ b \in Seq(S) /\ Len(b) = Len(s) - i
      /\ \A j \in 1..(Len(s) - i) : b[j] = s[i + j]
  BY <1>1
<1>4. Without(s, i) = a \o b
  BY DEF Without
<1> HIDE DEF a, b
<1>5. /\ a \o b \in Seq(S) /\ Len(a \o b) = Len(a) + Len(b)
      /\ \A j \in 1..Len(a) : (a \o b)[j] = a[j]
      /\ \A j \in 1..Len(b) : (a \o b)[Len(a) + j] = b[j]
  <2>1. a \in Seq(S) /\ b \in Seq(S)
    BY <1>2, <1>3
  <2> QED BY ONLY <2>1, ConcatElements
<1>6. Len(a \o b) = Len(s) - 1
  BY <1>1, <1>2, <1>3, <1>5
<1>7. \A j \in 1..(i - 1) : (a \o b)[j] = s[j]
  BY <1>2, <1>5
<1>8. ASSUME NEW j \in i..(Len(s) - 1)
      PROVE  (a \o b)[j] = s[j + 1]
  <2> DEFINE k == j - (i - 1)
  <2>1. k \in 1..(Len(s) - i) /\ (i - 1) + k = j /\ i + k = j + 1
    BY <1>1
  <2> HIDE DEF k
  <2>2. (a \o b)[Len(a) + k] = b[k] /\ b[k] = s[i + k]
    BY <1>3, <1>5, <2>1
  <2> QED BY <1>2, <2>1, <2>2
<1> QED BY <1>4, <1>5, <1>6, <1>7, <1>8

\* Tampering with the table is a manipulation of the log.
LEMMA RefinesTamper ==
    ASSUME IInv, IInv', NEW i \in 1..Len(ledger), Tamper(i)
    PROVE  i \in 1..Len(Fields(ledger)) /\ Log!Manipulate(i)
<1>1. IsTable(ledger) /\ IsTable(ledger') /\ GoodChain(ledger)
  BY DEF Tamper, IInv, Tables, ChainsGood
<1>2. /\ Len(ledger) \in Nat /\ Len(Fields(ledger)) = Len(ledger)
      /\ \A j \in 1..Len(ledger) : Fields(ledger)[j] = ledger[j].payload.fields
  BY <1>1, FieldsTable
<1>3. /\ Len(ledger') \in Nat /\ Len(Fields(ledger')) = Len(ledger')
      /\ \A j \in 1..Len(ledger') : Fields(ledger')[j] = ledger'[j].payload.fields
  BY <1>1, FieldsTable
<1>4. PICK S : Fields(ledger) \in Seq(S)
  BY <1>1, FieldsTable
<1>5. PICK T : Fields(ledger') \in Seq(T)
  BY <1>1, FieldsTable
<1>6. \/ Fields(ledger') = [Fields(ledger) EXCEPT ![i] = Log!Forged]
      \/ /\ i < Len(Fields(ledger))
         /\ Fields(ledger') = SubSeq(Fields(ledger), 1, i - 1)
                               \o SubSeq(Fields(ledger), i + 1, Len(Fields(ledger)))
  <2>1. CASE ledger' = [ledger EXCEPT ![i].payload.fields = Forged]
    <3> DEFINE row == [ledger[i] EXCEPT !.payload.fields = Forged]
    <3>1. ledger' = [ledger EXCEPT ![i] = row]
      BY <2>1
    <3>2. row.payload.fields = Forged
      <4> DEFINE pay == [ledger[i].payload EXCEPT !.fields = Forged]
      <4>1. row = [ledger[i] EXCEPT !.payload = pay]
        OBVIOUS
      <4>2. Genuine(ledger[i])
        BY <1>1 DEF GoodChain
      <4>3. pay.fields = Forged
        BY <4>2 DEF Genuine
      <4> HIDE DEF pay, row
      <4> QED BY <4>1, <4>2, <4>3 DEF Genuine
    <3> HIDE DEF row
    <3>3. PICK R : ledger \in Seq(R)
      BY <1>1 DEF IsTable
    <3>4. /\ Len(ledger') = Len(ledger) /\ ledger'[i] = row
          /\ \A j \in 1..Len(ledger) : j # i => ledger'[j] = ledger[j]
      BY <3>1, <3>3
    <3> DEFINE edited == [Fields(ledger) EXCEPT ![i] = Log!Forged]
    <3>5. /\ edited \in Seq(S \union {Log!Forged}) /\ Len(edited) = Len(ledger)
          /\ edited[i] = Log!Forged
          /\ \A j \in 1..Len(ledger) : j # i => edited[j] = Fields(ledger)[j]
      BY <1>2, <1>4
    <3> HIDE DEF edited
    <3>6. ASSUME NEW j \in 1..Len(ledger)
          PROVE  Fields(ledger')[j] = edited[j]
      <4>1. Fields(ledger')[j] = ledger'[j].payload.fields
        BY <1>3, <3>4
      <4>2. CASE j = i
        BY <3>2, <3>4, <3>5, <4>1, <4>2 DEF Forged, Log!Forged
      <4>3. CASE j # i
        BY <1>2, <3>4, <3>5, <4>1, <4>3
      <4> QED BY <4>2, <4>3
    <3>7. Fields(ledger') = edited
      BY <1>3, <1>5, <3>4, <3>5, <3>6, SameSequence
    <3> QED BY <3>7 DEF edited
  <2>2. CASE /\ i < Len(ledger)
             /\ ledger' = SubSeq(ledger, 1, i - 1) \o SubSeq(ledger, i + 1, Len(ledger))
    <3>1. PICK R : ledger \in Seq(R)
      BY <1>1 DEF IsTable
    <3>2. /\ Len(ledger') = Len(ledger) - 1
          /\ \A j \in 1..(i - 1) : ledger'[j] = ledger[j]
          /\ \A j \in i..(Len(ledger) - 1) : ledger'[j] = ledger[j + 1]
      <4>1. ledger' = Without(ledger, i)
        BY <2>2 DEF Without
      <4> QED BY <3>1, <4>1, WithoutRow
    <3> DEFINE rest == Without(Fields(ledger), i)
    <3>3. /\ rest \in Seq(S) /\ Len(rest) = Len(ledger) - 1
          /\ \A j \in 1..(i - 1) : rest[j] = Fields(ledger)[j]
          /\ \A j \in i..(Len(ledger) - 1) : rest[j] = Fields(ledger)[j + 1]
      <4>1. i \in 1..Len(Fields(ledger))
        BY <1>2
      <4> QED BY <1>2, <1>4, <4>1, WithoutRow
    <3> HIDE DEF rest
    <3>4. ASSUME NEW j \in 1..(Len(ledger) - 1)
          PROVE  Fields(ledger')[j] = rest[j]
      <4>1. Fields(ledger')[j] = ledger'[j].payload.fields
        BY <1>3, <3>2
      <4>2. CASE j \in 1..(i - 1)
        <5>1. j \in 1..Len(ledger)
          BY <1>2
        <5> QED BY <1>2, <3>2, <3>3, <4>1, <4>2, <5>1
      <4>3. CASE j \in i..(Len(ledger) - 1)
        <5>1. j + 1 \in 1..Len(ledger)
          BY <1>2
        <5> QED BY <1>2, <3>2, <3>3, <4>1, <4>3, <5>1
      <4>4. j \in 1..(i - 1) \/ j \in i..(Len(ledger) - 1)
        BY <1>2
      <4> QED BY <4>2, <4>3, <4>4
    <3>5. Fields(ledger') = rest
      BY <1>3, <1>5, <3>2, <3>3, <3>4, SameSequence
    <3> QED BY <1>2, <2>2, <3>5 DEF rest, Without
  <2> QED BY <2>1, <2>2 DEF Tamper
<1>7. Finished' = Finished
  BY DEF Tamper, Finished
<1>8. ChainValid(ledger) /\ ChainValid(ledger)' = FALSE
  <2>1. tampered.kind = "no" /\ tampered'.kind # "no"
    BY DEF Tamper
  <2>2. ChainValid(ledger)
    BY <2>1, ValidIffUntampered
  <2>3. ~ChainValid(ledger)'
    BY <2>1 DEF IInv, TamperedBroken, BrokenAt, ChainValid
  <2>4. ChainValid(ledger)' \in BOOLEAN
    BY DEF ChainValid
  <2> QED BY <2>2, <2>3, <2>4
<1> QED BY <1>2, <1>6, <1>7, <1>8 DEF Log!Manipulate, Fields, Finished

\* Every step of the journal is a step of the log, or none.
LEMMA RefinesNext == IInv /\ IInv' /\ [Next]_vars => [Log!Next]_(Log!vars)
<1> SUFFICES ASSUME IInv, IInv', [Next]_vars
             PROVE  [Log!Next]_(Log!vars)
  OBVIOUS
<1>1. CASE UNCHANGED vars
  BY <1>1, RefinesQuiet DEF vars
<1>2. ASSUME NEW t \in Requests, Begin(t) \/ AppendRow(t) \/ WriteConflict(t) \/ Error(t)
      PROVE  UNCHANGED Log!vars
  <2>1. ledger' = ledger /\ \A q \in Requests : pc'[q] = "done" <=> pc[q] = "done"
    <3>1. CASE Begin(t)
      BY <3>1 DEF Begin, IInv, TypeOK
    <3>2. CASE AppendRow(t)
      BY <3>2 DEF AppendRow
    <3>3. CASE WriteConflict(t)
      BY <3>3 DEF WriteConflict, IInv, TypeOK
    <3>4. CASE Error(t)
      BY <3>4 DEF Error, IInv, TypeOK
    <3> QED BY <1>2, <3>1, <3>2, <3>3, <3>4
  <2> QED BY <2>1, RefinesQuiet
<1>3. ASSUME NEW t \in Requests, Commit(t)
      PROVE  Log!Next
  <2>1. Log!WriteEntries(t)
    BY <1>3, RefinesCommit
  <2> QED BY <2>1 DEF Log!Next
<1>4. ASSUME NEW i \in 1..Len(ledger), Tamper(i)
      PROVE  Log!Next
  <2>1. i \in 1..Len(Fields(ledger)) /\ Log!Manipulate(i)
    BY <1>4, RefinesTamper
  <2> QED BY <2>1 DEF Log!Next, Fields
<1>5. CASE Next
  <2>1. CASE \E t \in Requests : Step(t) \/ WriteConflict(t) \/ Error(t)
    BY <1>2, <1>3, <2>1 DEF Step
  <2>2. CASE \E i \in 1..Len(ledger) : Tamper(i)
    BY <1>4, <2>2
  <2> QED BY <1>5, <2>1, <2>2 DEF Next
<1> QED BY <1>1, <1>5

\* The journal with its transactions, retries and hashes implements the
\* tamper-evident log: TamperEvident is Log!Spec.
THEOREM JournalIsTamperEvident == Spec => TamperEvident
<1>1. Spec => []IInv
  BY IInvAlways
<1>2. Init => Log!Init
  BY RefinesInit
<1>3. IInv /\ IInv' /\ [Next]_vars => [Log!Next]_(Log!vars)
  BY RefinesNext
<1> QED BY <1>1, <1>2, <1>3, PTL DEF Spec, TamperEvident, Log!Spec
=============================================================================

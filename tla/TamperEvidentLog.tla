-------------------------- MODULE TamperEvidentLog --------------------------
(***************************************************************************)
(* What the GoBD journal promises, without transactions, sequence numbers  *)
(* or hashes: a log in which every request writes all its entries at once  *)
(* and no more than once, and which can tell at any time whether somebody  *)
(* has manipulated it.                                                     *)
(***************************************************************************)
EXTENDS Integers, Sequences

CONSTANTS
    Requests,   \* who writes
    Entries     \* how many entries each of them writes

VARIABLES
    log,        \* the entries: the request and the number of each
    written,    \* the requests that have written theirs
    valid       \* nobody has manipulated the log

vars == <<log, written, valid>>

Forged == <<>>

Init == log = <<>> /\ written = {} /\ valid = TRUE

WriteEntries(t) ==
    /\ t \notin written
    /\ log' = log \o [k \in 1..Entries[t] |-> <<t, k>>]
    /\ written' = written \union {t}
    /\ UNCHANGED valid

\* An entry is overwritten, or one that is not the newest is taken out.
Manipulate(i) ==
    /\ valid
    /\ \/ log' = [log EXCEPT ![i] = Forged]
       \/ i < Len(log) /\ log' = SubSeq(log, 1, i - 1) \o SubSeq(log, i + 1, Len(log))
    /\ valid' = FALSE
    /\ UNCHANGED written

Next ==
    \/ \E t \in Requests : WriteEntries(t)
    \/ \E i \in 1..Len(log) : Manipulate(i)

Spec == Init /\ [][Next]_vars
=============================================================================

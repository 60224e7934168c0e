------------------------------- MODULE RingBuf -------------------------------
(***************************************************************************)
(* The ring buffer of ringbuf.c: an array and two indexes, one slot always *)
(* unused.  Its functions read and write them in separate steps; the       *)
(* modules that extend this one say who takes them.  The size is a power   *)
(* of two, so "& mask" of an index or of a difference is "modulo Size".    *)
(***************************************************************************)
EXTENDS Integers, Sequences

CONSTANTS Size, Bytes

ASSUME RingAssumption == Size \in Nat /\ Size > 1

Indexes == 0 .. Size - 1

VARIABLES data, putPtr, getPtr
ring == <<data, putPtr, getPtr>>

RingTypeOK ==
  data \in [Indexes -> Bytes] /\ putPtr \in Indexes /\ getPtr \in Indexes

\* Mutant: the index wraps one place too late.
SuccWide(i) == IF i = Size THEN 0 ELSE i + 1

\* (i + 1) & mask and (p - g) & mask.
Succ(i)   == IF i = Size - 1 THEN 0 ELSE i + 1
Dist(p, g) == IF p >= g THEN p - g ELSE p - g + Size

\* ringbuf_init; the array itself is static, and what it holds is not read.
RingInit ==
  /\ \E b \in Bytes : data = [i \in Indexes |-> b]
  /\ putPtr = 0 /\ getPtr = 0

Elements == Dist(putPtr, getPtr)

IsFull  == Elements = Size - 1
IsEmpty == Elements = 0

\* ringbuf_put after its check: the byte is stored, then made visible.
Store(b) == data' = [data EXCEPT ![putPtr] = b] /\ UNCHANGED <<putPtr, getPtr>>
Publish  == putPtr' = Succ(putPtr) /\ UNCHANGED <<data, getPtr>>

\* ringbuf_get after its check: the byte is read, then its place given back.
Oldest  == data[getPtr]
Release == getPtr' = Succ(getPtr) /\ UNCHANGED <<data, putPtr>>

\* The k-th index from g, for k < Size.
Ahead(g, k) == IF g + k < Size THEN g + k ELSE g + k - Size

\* What the buffer holds, oldest first.
Held == [k \in 1 .. Elements |-> data[Ahead(getPtr, k - 1)]]
=============================================================================

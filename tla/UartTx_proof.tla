---------------------------- MODULE UartTx_proof ----------------------------
(* Theorems about UartTx, for every size of ring buffer, hardware FIFO and  *)
(* message.                                                                 *)
EXTENDS UartTx, SequenceTheorems, TLAPS

(***************************************************************************)
(* The arithmetic of ringbuf.c: "& mask" walks round the array.            *)
(***************************************************************************)

LEMMA Distance ==
  ASSUME NEW p \in Indexes, NEW g \in Indexes
  PROVE  /\ Dist(p, g) \in 0 .. Size - 1
         /\ Ahead(g, Dist(p, g)) = p
         /\ \A k \in 0 .. Dist(p, g) :
              /\ Ahead(g, k) \in Indexes
              /\ Dist(p, Ahead(g, k)) = Dist(p, g) - k
              /\ k < Dist(p, g) => Ahead(g, k) # p
  BY RingAssumption DEF Indexes, Dist, Ahead

LEMMA AheadTwice ==
  ASSUME NEW g \in Indexes, NEW k \in 0 .. Size - 1, NEW j \in 0 .. Size - 1, k + j < Size
  PROVE  Ahead(Ahead(g, k), j) = Ahead(g, k + j)
  BY RingAssumption DEF Indexes, Ahead

LEMMA Successor ==
  ASSUME NEW p \in Indexes, NEW g \in Indexes
  PROVE  /\ Succ(p) \in Indexes
         /\ Succ(p) = Ahead(p, 1)
         /\ Dist(p, g) # Size - 1 => Dist(Succ(p), g) = Dist(p, g) + 1
  BY RingAssumption DEF Indexes, Dist, Ahead, Succ

\* n places of the array from g on are a sequence of n bytes.
LEMMA Window ==
  ASSUME NEW d \in [Indexes -> Bytes], NEW g \in Indexes, NEW n \in 0 .. Size - 1
  PROVE  LET s == [k \in 1 .. n |-> d[Ahead(g, k - 1)]]
         IN  s \in Seq(Bytes) /\ Len(s) = n /\ \A k \in 1 .. n : s[k] = d[Ahead(g, k - 1)]
<1> DEFINE s == [k \in 1 .. n |-> d[Ahead(g, k - 1)]]
<1>1. \A k \in 1 .. n : Ahead(g, k - 1) \in Indexes
  BY RingAssumption DEF Indexes, Ahead
<1>2. s \in [1 .. n -> Bytes] /\ n \in Nat
  BY <1>1, RingAssumption
<1>3. s \in Seq(Bytes) /\ DOMAIN s = 1 .. n
  BY <1>2, SeqDef
<1>4. Len(s) = n
  BY <1>2, <1>3, LenProperties
<1> QED
  BY <1>3, <1>4

\* What the ring buffer holds, before and after a step.
LEMMA HeldIsSeq ==
  ASSUME RingTypeOK
  PROVE  /\ Elements \in 0 .. Size - 1
         /\ Held \in Seq(Bytes) /\ Len(Held) = Elements
         /\ \A k \in 1 .. Elements : Held[k] = data[Ahead(getPtr, k - 1)]
<1>1. Elements \in 0 .. Size - 1
  BY Distance DEF RingTypeOK, Elements
<1> QED
  BY <1>1, Window DEF RingTypeOK, Held

LEMMA HeldIsSeqNext ==
  ASSUME RingTypeOK'
  PROVE  /\ Elements' \in 0 .. Size - 1
         /\ Held' \in Seq(Bytes) /\ Len(Held') = Elements'
         /\ \A k \in 1 .. Elements' : Held'[k] = data'[Ahead(getPtr', k - 1)]
<1>1. Elements' \in 0 .. Size - 1
  BY Distance DEF RingTypeOK, Elements
<1> QED
  BY <1>1, Window DEF RingTypeOK, Held

(***************************************************************************)
(* Type correctness.                                                       *)
(***************************************************************************)

\* Where the loop is says what it has checked and whether it is masked, the
\* ring buffer that the first of two waits has seen empty included; and a raised
\* interrupt means an empty FIFO, so that the handler has room.
LoopOK ==
  /\ masked <=> at \in {"room", "load", "write"}
  /\ at = "publish" => left > 0 /\ ~IsFull
  /\ at \in {"load", "write"} => Len(fifo) < FifoSize
  /\ at = "write" => ~IsEmpty /\ reg = Oldest
  /\ pending => fifo = <<>>
  /\ at = "drainFifo" => IsEmpty

LEMMA InitOK == Init => TypeOK /\ LoopOK /\ Awake
<1> SUFFICES ASSUME Init PROVE TypeOK /\ LoopOK /\ Awake
  OBVIOUS
<1> USE RingAssumption, TxAssumption DEF Init
<1>1. RingTypeOK /\ IsEmpty
  BY DEF RingInit, RingTypeOK, Indexes, IsEmpty, Elements, Dist
<1>2. fifo \in Seq(Bytes) /\ Len(fifo) = 0
  OBVIOUS
<1>3. TypeOK
  <2>1. fifo \in Seq(Bytes) /\ Len(fifo) <= FifoSize /\ left \in 0 .. MaxLen
    BY <1>2
  <2>2. pending \in BOOLEAN /\ masked \in BOOLEAN /\ baud \in BOOLEAN
    BY Zenon
  <2> QED
    BY <1>1, <2>1, <2>2 DEF TypeOK
<1>4. LoopOK
  BY DEF LoopOK
<1> QED
  BY <1>1, <1>3, <1>4 DEF Awake

\* The bytes the handler moves: as many as are held and fit, from the front.
LEMMA IsrMoves ==
  ASSUME TypeOK, LoopOK, Isr
  PROVE  \E n \in 0 .. Elements :
           /\ fifo = <<>> /\ n <= FifoSize - 1
           /\ Elements > 0 => n > 0
           /\ fifo' = SubSeq(Held, 1, n) /\ getPtr' = Ahead(getPtr, n)
           /\ fifo' \in Seq(Bytes) /\ Len(fifo') = n
<1> DEFINE n == IF IsrRoom < Elements THEN IsrRoom ELSE Elements
           part == SubSeq(Held, 1, n)
           filled == fifo \o part
<1>1. fifo = <<>> /\ IsrRoom = FifoSize - 1
  BY TxAssumption DEF Isr, LoopOK, IsrRoom
<1>2. Elements \in 0 .. Size - 1 /\ Held \in Seq(Bytes) /\ Len(Held) = Elements
  BY HeldIsSeq DEF TypeOK
<1>3. n \in 0 .. Elements /\ n <= FifoSize - 1 /\ (Elements > 0 => n > 0)
  BY <1>1, <1>2, TxAssumption, RingAssumption
<1>4. part \in Seq(Bytes) /\ Len(part) = n
  <2>1. \A i \in 1 .. n : Held[i] \in Bytes
    BY <1>2, <1>3, ElementOfSeq
  <2> QED
    BY <1>2, <1>3, <2>1, SubSeqProperties, RingAssumption
<1>5. filled = part
  BY <1>1, <1>4, ConcatEmptySeq
<1>6. fifo' = part
  <2>1. fifo' = SubSeq(filled, 1, IF Len(filled) < FifoSize THEN Len(filled) ELSE FifoSize)
    BY DEF Isr
  <2>2. Len(filled) < FifoSize
    BY <1>3, <1>4, <1>5, <1>2, TxAssumption, RingAssumption
  <2> QED
    BY <1>4, <1>5, <2>1, <2>2, SubSeqFull
<1>7. getPtr' = Ahead(getPtr, n)
  BY DEF Isr
<1> QED
  BY <1>1, <1>3, <1>4, <1>6, <1>7 DEF part

\* One step per action of loop, handler and hardware.
LEMMA TypeStep == TypeOK /\ LoopOK /\ [Next]_vars => TypeOK'
<1> USE RingAssumption, TxAssumption
<1> SUFFICES ASSUME TypeOK, LoopOK, [Next]_vars
             PROVE  TypeOK'
  OBVIOUS
<1>0. RingTypeOK /\ putPtr \in Indexes /\ getPtr \in Indexes
  BY DEF TypeOK, RingTypeOK
<1>1. CASE UNCHANGED vars
  BY <1>1 DEF TypeOK, RingTypeOK, vars, ring, loop
<1>2. CASE SendBegin
  BY <1>2 DEF SendBegin, TypeOK, RingTypeOK, ring
<1>3. CASE DrainBegin
  BY <1>3 DEF DrainBegin, TypeOK, RingTypeOK, ring
<1>4. CASE PutByte
  BY <1>4 DEF PutByte, Store, TypeOK, RingTypeOK
<1>5. CASE PublishByte
  <2>1. left' \in 0 .. MaxLen
    BY <1>5 DEF PublishByte, LoopOK, TypeOK
  <2> QED
    BY <1>0, <1>5, <2>1, Successor DEF PublishByte, Publish, TypeOK, RingTypeOK
<1>6. CASE KickBegin
  BY <1>6 DEF KickBegin, TypeOK, RingTypeOK, ring
<1>7. CASE KickRoom
  BY <1>7 DEF KickRoom, TypeOK, RingTypeOK, ring
<1>8. CASE KickLoad
  BY <1>8 DEF KickLoad, Oldest, TypeOK, RingTypeOK, ring
<1>9. CASE KickWrite
  <2>0. fifo' = Append(fifo, reg) /\ pending' = FALSE
    BY <1>9 DEF KickWrite, WriteThr, LoopOK
  <2>1. fifo' \in Seq(Bytes) /\ Len(fifo') <= FifoSize
    <3>1. Len(fifo) \in Nat /\ Len(fifo) < FifoSize /\ fifo \in Seq(Bytes) /\ reg \in Bytes
      BY <1>9, LenProperties DEF KickWrite, LoopOK, TypeOK
    <3> QED
      BY <2>0, <3>1, AppendProperties
  <2> QED
    BY <1>0, <1>9, <2>0, <2>1, Successor DEF KickWrite, Release, TypeOK, RingTypeOK
<1>10. CASE KickEnd
  BY <1>10 DEF KickEnd, TypeOK, RingTypeOK, ring
<1>11. CASE DrainRing \/ SetBaudrate
  BY <1>11 DEF DrainRing, SetBaudrate, TypeOK, RingTypeOK, ring
<1>12. CASE Isr
  <2>1. PICK n \in 0 .. Elements : n <= FifoSize - 1 /\ getPtr' = Ahead(getPtr, n)
                                    /\ fifo' \in Seq(Bytes) /\ Len(fifo') = n
    BY <1>12, IsrMoves
  <2>2. getPtr' \in Indexes
    BY <1>0, <2>1, Distance DEF Elements
  <2>3. Len(fifo') <= FifoSize
    BY <1>0, <2>1, Distance DEF Elements
  <2> QED
    BY <1>12, <2>1, <2>2, <2>3 DEF Isr, TypeOK, RingTypeOK, loop
<1>13. CASE ShiftOut
  <2>1. fifo' \in Seq(Bytes) /\ Len(fifo') <= FifoSize /\ pending' \in BOOLEAN
    BY <1>13, HeadTailProperties, LenProperties DEF ShiftOut, TypeOK
  <2> QED
    BY <1>13, <2>1 DEF ShiftOut, TypeOK, RingTypeOK, ring, loop
<1> QED
  BY <1>1, <1>2, <1>3, <1>4, <1>5, <1>6, <1>7, <1>8, <1>9, <1>10, <1>11, <1>12, <1>13
  DEF Next, LoopStep

\* What the loop has checked stays true while it is between two steps: the
\* handler only makes room, and is masked where the loop takes bytes itself.
LEMMA LoopStepOK == TypeOK /\ LoopOK /\ [Next]_vars => LoopOK'
<1> USE RingAssumption, TxAssumption
<1> SUFFICES ASSUME TypeOK, LoopOK, [Next]_vars
             PROVE  LoopOK'
  OBVIOUS
<1>0. RingTypeOK /\ putPtr \in Indexes /\ getPtr \in Indexes /\ fifo \in Seq(Bytes)
  BY DEF TypeOK, RingTypeOK
<1>1. CASE UNCHANGED vars
  BY <1>1 DEF LoopOK, vars, ring, loop, IsFull, IsEmpty, Elements, Oldest
<1>2. CASE SendBegin
  BY <1>2 DEF SendBegin, LoopOK
<1>3. CASE DrainBegin
  BY <1>3 DEF DrainBegin, LoopOK
<1>4. CASE PutByte
  BY <1>4 DEF PutByte, Store, LoopOK, TypeOK, IsFull, Elements
<1>5. CASE PublishByte
  BY <1>5 DEF PublishByte, LoopOK
<1>6. CASE KickBegin
  BY <1>6 DEF KickBegin, LoopOK
<1>7. CASE KickRoom
  BY <1>7 DEF KickRoom, LoopOK
<1>8. CASE KickLoad
  BY <1>8 DEF KickLoad, LoopOK, ring, IsEmpty, Elements, Oldest
<1>9. CASE KickWrite
  BY <1>9 DEF KickWrite, WriteThr, LoopOK
<1>10. CASE KickEnd
  BY <1>10 DEF KickEnd, LoopOK
<1>11. CASE DrainRing \/ SetBaudrate
  BY <1>11 DEF DrainRing, SetBaudrate, WaitOver, LoopOK, ring, IsEmpty, Elements
<1>12. CASE Isr
  <2>1. at \notin {"room", "load", "write"} /\ masked' = masked /\ pending' = FALSE
        /\ at' = at /\ left' = left /\ putPtr' = putPtr
    BY <1>12 DEF Isr, LoopOK, loop
  <2>2. ~IsFull => ~IsFull'
    <3>1. PICK n \in 0 .. Elements : getPtr' = Ahead(getPtr, n)
      BY <1>12, IsrMoves
    <3>2. Elements' = Elements - n /\ Elements \in 0 .. Size - 1
      BY <1>0, <2>1, <3>1, Distance DEF Elements
    <3> QED
      BY <3>2 DEF IsFull
  <2>3. IsEmpty => IsEmpty'
    <3>1. PICK n \in 0 .. Elements : getPtr' = Ahead(getPtr, n)
      BY <1>12, IsrMoves
    <3>2. Elements' = Elements - n /\ Elements \in 0 .. Size - 1
      BY <1>0, <2>1, <3>1, Distance DEF Elements
    <3>3. ASSUME Elements = 0 PROVE Elements' = 0
      <4>1. n = 0
        BY <3>3
      <4> QED
        BY <3>2, <3>3, <4>1
    <3> QED
      BY <3>3, Zenon DEF IsEmpty
  <2> QED
    BY <2>1, <2>2, <2>3 DEF LoopOK
<1>13. CASE ShiftOut
  <2>1. Len(fifo') = Len(fifo) - 1 /\ Len(fifo') \in Nat /\ fifo' \in Seq(Bytes)
    BY <1>0, <1>13, HeadTailProperties, LenProperties DEF ShiftOut
  <2>2. pending' => fifo' = <<>>
    <3>1. ~pending /\ (pending' => Len(fifo) = 1)
      BY <1>13, Zenon DEF ShiftOut, LoopOK
    <3>2. Len(fifo') = 0 => fifo' = <<>>
      BY <2>1, EmptySeq
    <3>3. Len(fifo) = 1 => Len(fifo') = 0
      BY <2>1
    <3> QED
      BY <3>1, <3>2, <3>3, Zenon
  <2>3. at' \in {"load", "write"} => Len(fifo') < FifoSize
    BY <1>0, <1>13, <2>1, LenProperties DEF ShiftOut, LoopOK, loop
  <2> QED
    BY <1>13, <2>2, <2>3 DEF ShiftOut, LoopOK, ring, loop, IsFull, IsEmpty, Elements, Oldest
<1> QED
  BY <1>1, <1>2, <1>3, <1>4, <1>5, <1>6, <1>7, <1>8, <1>9, <1>10, <1>11, <1>12, <1>13
  DEF Next, LoopStep

(***************************************************************************)
(* The transmitter does not sleep on data.                                 *)
(***************************************************************************)

\* The loop leaves bytes behind only in front of a full FIFO; when that runs
\* empty the interrupt is raised, and the handler that takes it withdraws it
\* but finds room for a byte.
LEMMA AwakeStep == TypeOK /\ LoopOK /\ Awake /\ [Next]_vars => Awake'
<1> USE RingAssumption, TxAssumption
<1> SUFFICES ASSUME TypeOK, LoopOK, Awake, [Next]_vars
             PROVE  Awake'
  OBVIOUS
<1>0. RingTypeOK /\ putPtr \in Indexes /\ getPtr \in Indexes /\ fifo \in Seq(Bytes)
  BY DEF TypeOK, RingTypeOK
<1>1. CASE UNCHANGED vars
  BY <1>1 DEF Awake, vars, ring, loop, IsEmpty, Elements
<1>2. CASE SendBegin \/ PutByte \/ PublishByte \/ KickBegin \/ KickRoom \/ KickLoad \/ KickWrite
  BY <1>2 DEF SendBegin, PutByte, PublishByte, KickBegin, KickRoom, KickLoad, KickWrite, Drains,
              Awake
<1>3. CASE DrainBegin \/ DrainRing \/ SetBaudrate
  BY <1>3 DEF DrainBegin, DrainRing, SetBaudrate, WaitOver, Drains, LoopOK, Awake, ring,
              IsEmpty, Elements
<1>4. CASE KickEnd
  <2>1. Len(fifo) = FifoSize => fifo # <<>>
    BY EmptySeq
  <2> QED
    BY <1>4, <2>1 DEF KickEnd, Awake, ring, IsEmpty, Elements
<1>5. CASE Isr
  <2>1. PICK n \in 0 .. Elements : (Elements > 0 => n > 0) /\ getPtr' = Ahead(getPtr, n)
                                    /\ fifo' \in Seq(Bytes) /\ Len(fifo') = n
    BY <1>5, IsrMoves
  <2>2. putPtr' = putPtr /\ Elements' = Elements - n /\ Elements \in 0 .. Size - 1
    BY <1>0, <1>5, <2>1, Distance DEF Elements, Isr
  <2>3. n > 0 => fifo' # <<>>
    BY <2>1, EmptySeq
  <2>4. n = 0 => IsEmpty'
    BY <2>1, <2>2 DEF IsEmpty
  <2> QED
    BY <2>1, <2>3, <2>4 DEF Awake
<1>6. CASE ShiftOut
  <2>1. fifo' = <<>> => pending'
    <3>1. Len(fifo') = Len(fifo) - 1 /\ Len(fifo) \in Nat
      BY <1>0, <1>6, HeadTailProperties, LenProperties DEF ShiftOut
    <3>2. fifo' = <<>> => Len(fifo') = 0
      OBVIOUS
    <3>3. fifo' = <<>> => Len(fifo) = 1
      BY <3>1, <3>2
    <3> QED
      BY <1>6, <3>3, Zenon DEF ShiftOut
  <2> QED
    BY <1>6, <2>1 DEF ShiftOut, Awake
<1> QED
  BY <1>1, <1>2, <1>3, <1>4, <1>5, <1>6 DEF Next, LoopStep

IInv == TypeOK /\ LoopOK /\ Awake

LEMMA Invariant == Spec => []IInv
<1>1. Init => IInv
  BY InitOK DEF IInv
<1>2. IInv /\ [Next]_vars => IInv'
  BY TypeStep, LoopStepOK, AwakeStep DEF IInv
<1> QED
  BY <1>1, <1>2, PTL DEF Spec

\* Indexes, FIFO and program counter stay in their ranges: the index of the
\* ring buffer never leaves the array.
THEOREM TypeCorrect == Spec => []TypeOK
<1>1. IInv => TypeOK
  BY DEF IInv
<1> QED
  BY <1>1, Invariant, PTL

\* Between two messages, bytes in the ring buffer mean bytes in the FIFO or a
\* raised interrupt.
THEOREM NeverAsleep == Spec => []Awake
<1>1. IInv => Awake
  BY DEF IInv
<1> QED
  BY <1>1, Invariant, PTL

(***************************************************************************)
(* The busy-waits have somebody to end them.                               *)
(***************************************************************************)

\* While a message is put into the ring buffer nobody may be sending, if all
\* bytes in it, those still to come included, are of that message: then they
\* fit, and the loop feeds the transmitter when it has put them.
OwnBytesOnly ==
  at \in {"put", "publish"} => fifo # <<>> \/ pending \/ Elements + left <= MaxLen

LEMMA OwnBytesStep == IInv /\ OwnBytesOnly /\ [Next]_vars => OwnBytesOnly'
<1> USE RingAssumption, TxAssumption
<1> SUFFICES ASSUME IInv, OwnBytesOnly, [Next]_vars
             PROVE  OwnBytesOnly'
  OBVIOUS
<1>0. /\ TypeOK /\ LoopOK /\ Awake /\ RingTypeOK /\ putPtr \in Indexes /\ getPtr \in Indexes
      /\ fifo \in Seq(Bytes) /\ Elements \in 0 .. Size - 1 /\ left \in 0 .. MaxLen
  BY Distance DEF IInv, TypeOK, RingTypeOK, Elements
<1>1. CASE UNCHANGED vars
  BY <1>1 DEF OwnBytesOnly, vars, ring, loop, Elements
<1>2. CASE SendBegin
  <2>1. at = "idle" /\ left' \in 1 .. MaxLen /\ Elements' = Elements /\ fifo' = fifo
        /\ pending' = pending
    BY <1>2 DEF SendBegin, ring, Elements
  <2>2. Elements = 0 \/ fifo # <<>> \/ pending
    BY <1>0, <2>1 DEF Awake, IsEmpty
  <2> QED
    BY <2>1, <2>2 DEF OwnBytesOnly
<1>3. CASE PutByte
  BY <1>3 DEF PutByte, Store, OwnBytesOnly, Elements
<1>4. CASE PublishByte
  <2>1. Elements' = Elements + 1
    BY <1>0, <1>4, Successor DEF PublishByte, Publish, LoopOK, IsFull, Elements
  <2>2. at = "publish" /\ left' = left - 1 /\ fifo' = fifo /\ pending' = pending
    BY <1>4 DEF PublishByte
  <2>3. Elements' + left' = Elements + left
    BY <1>0, <2>1, <2>2
  <2> QED
    BY <2>2, <2>3 DEF OwnBytesOnly
<1>5. CASE DrainBegin \/ KickBegin \/ KickRoom \/ KickLoad \/ KickWrite \/ KickEnd \/ DrainRing
           \/ SetBaudrate
  BY <1>5 DEF DrainBegin, KickBegin, KickRoom, KickLoad, KickWrite, KickEnd, DrainRing,
              SetBaudrate, OwnBytesOnly
<1>6. CASE Isr
  <2>1. PICK n \in 0 .. Elements : (Elements > 0 => n > 0) /\ getPtr' = Ahead(getPtr, n)
                                    /\ fifo' \in Seq(Bytes) /\ Len(fifo') = n
    BY <1>0, <1>6, IsrMoves
  <2>2. putPtr' = putPtr /\ left' = left /\ Elements' = Elements - n
    BY <1>0, <1>6, <2>1, Distance DEF Elements, Isr, loop
  <2>3. n > 0 => fifo' # <<>>
    BY <2>1, EmptySeq
  <2>4. n = 0 => Elements' + left' <= MaxLen
    BY <1>0, <2>1, <2>2
  <2> QED
    BY <1>0, <2>1, <2>3, <2>4 DEF OwnBytesOnly
<1>7. CASE ShiftOut
  <2>1. fifo' = <<>> => pending'
    <3>1. Len(fifo') = Len(fifo) - 1 /\ Len(fifo) \in Nat
      BY <1>0, <1>7, HeadTailProperties, LenProperties DEF ShiftOut
    <3>2. fifo' = <<>> => Len(fifo') = 0
      OBVIOUS
    <3>3. fifo' = <<>> => Len(fifo) = 1
      BY <3>1, <3>2
    <3> QED
      BY <1>7, <3>3, Zenon DEF ShiftOut
  <2> QED
    BY <2>1 DEF OwnBytesOnly
<1> QED
  BY <1>1, <1>2, <1>3, <1>4, <1>5, <1>6, <1>7 DEF Next, LoopStep

\* The loop never waits for a ring buffer nobody empties, whatever interrupt and
\* hardware do in between, as long as a message fits the ring buffer.
THEOREM WaitsAreServed == MaxLen < Size => (Spec => []WaitIsServed)
<1> SUFFICES ASSUME MaxLen < Size PROVE Spec => []WaitIsServed
  OBVIOUS
<1>1. Init => OwnBytesOnly
  BY DEF Init, OwnBytesOnly
<1>2. IInv /\ OwnBytesOnly /\ [Next]_vars => OwnBytesOnly'
  BY OwnBytesStep
<1>3. IInv /\ OwnBytesOnly => WaitIsServed
  <2> USE RingAssumption, TxAssumption
  <2> SUFFICES ASSUME IInv, OwnBytesOnly, Waiting
               PROVE  ~masked /\ (fifo # <<>> \/ pending)
    BY DEF WaitIsServed
  <2>1. ~masked
    BY DEF IInv, LoopOK, Waiting, Drains
  <2>2. CASE at = "put" /\ left > 0 /\ IsFull
    <3>1. ~(Elements + left <= MaxLen)
      BY <2>2 DEF IInv, TypeOK, IsFull
    <3> QED
      BY <2>1, <2>2, <3>1, Zenon DEF OwnBytesOnly
  <2>3. CASE at \in Drains /\ ~WaitOver(at)
    BY <2>1, <2>3, Zenon DEF IInv, Awake, Drains, WaitOver
  <2> QED
    BY <2>1, <2>2, <2>3 DEF Waiting
<1> QED
  BY <1>1, <1>2, <1>3, Invariant, PTL DEF Spec

(***************************************************************************)
(* The transmit path is a FIFO.                                            *)
(***************************************************************************)

LEMMA InFlightIsSeq ==
  ASSUME TypeOK
  PROVE  /\ Held \in Seq(Bytes) /\ Len(Held) = Elements /\ Elements \in 0 .. Size - 1
         /\ InFlight \in Seq(Bytes) /\ Len(InFlight) = Len(fifo) + Elements
  BY HeldIsSeq, ConcatProperties DEF TypeOK, InFlight

\* A byte stored behind the newest is not seen; made visible, it is the last.
LEMMA PutAppends ==
  ASSUME TypeOK, LoopOK, TypeOK'
  PROVE  /\ PutByte => Held' = Held
         /\ PublishByte => \E b \in Bytes : Held' = Append(Held, b)
<1> USE RingAssumption
<1>0. RingTypeOK /\ putPtr \in Indexes /\ getPtr \in Indexes /\ Elements \in 0 .. Size - 1
  BY HeldIsSeq DEF TypeOK, RingTypeOK
<1>1. ASSUME PutByte PROVE Held' = Held
  <2>1. Elements' = Elements /\ getPtr' = getPtr
    BY <1>1 DEF PutByte, Store, Elements
  <2>2. \A k \in 1 .. Elements : data'[Ahead(getPtr, k - 1)] = data[Ahead(getPtr, k - 1)]
    <3> TAKE k \in 1 .. Elements
    <3>1. Ahead(getPtr, k - 1) \in Indexes /\ Ahead(getPtr, k - 1) # putPtr
      BY <1>0, Distance DEF Elements
    <3> QED
      BY <1>0, <1>1, <3>1 DEF PutByte, Store, RingTypeOK
  <2> QED
    BY <2>1, <2>2 DEF Held
<1>2. ASSUME PublishByte PROVE \E b \in Bytes : Held' = Append(Held, b)
  <2>1. getPtr' = getPtr /\ data' = data /\ putPtr' = Succ(putPtr) /\ Elements # Size - 1
    BY <1>2 DEF PublishByte, Publish, LoopOK, IsFull
  <2>2. Elements' = Elements + 1
    BY <1>0, <2>1, Successor DEF Elements
  <2>3. data[putPtr] \in Bytes
    BY <1>0 DEF RingTypeOK
  <2>4. Held \in Seq(Bytes) /\ Len(Held) = Elements
        /\ \A k \in 1 .. Elements : Held[k] = data[Ahead(getPtr, k - 1)]
    BY <1>0, HeldIsSeq
  <2>5. Held' \in Seq(Bytes) /\ Len(Held') = Elements'
        /\ \A k \in 1 .. Elements' : Held'[k] = data[Ahead(getPtr, k - 1)]
    <3>1. RingTypeOK'
      BY DEF TypeOK
    <3>2. Held' \in Seq(Bytes) /\ Len(Held') = Elements'
          /\ \A k \in 1 .. Elements' : Held'[k] = data'[Ahead(getPtr', k - 1)]
      BY <3>1, HeldIsSeqNext
    <3> QED
      BY <2>1, <3>2
  <2>6. Ahead(getPtr, Elements) = putPtr
    BY <1>0, Distance DEF Elements
  <2> DEFINE app == Append(Held, data[putPtr])
  <2>7. app \in Seq(Bytes) /\ Len(app) = Elements + 1
        /\ (\A k \in 1 .. Elements : app[k] = Held[k]) /\ app[Elements + 1] = data[putPtr]
    BY <2>3, <2>4, AppendProperties
  <2> HIDE DEF app
  <2>8. \A k \in 1 .. Elements + 1 : Held'[k] = app[k]
    <3> TAKE k \in 1 .. Elements + 1
    <3>1. CASE k \in 1 .. Elements
      BY <2>2, <2>4, <2>5, <2>7, <3>1
    <3>2. CASE k = Elements + 1
      <4>1. Held'[k] = data[Ahead(getPtr, k - 1)] /\ k - 1 = Elements
        BY <1>0, <2>2, <2>5, <3>2
      <4> QED
        BY <2>6, <2>7, <3>2, <4>1
    <3> QED
      BY <1>0, <3>1, <3>2
  <2>9. Held' = Append(Held, data[putPtr])
    BY <2>2, <2>5, <2>7, <2>8, SeqEqual DEF app
  <2> QED
    BY <2>3, <2>9
<1> QED
  BY <1>1, <1>2

\* Bytes taken off the front and put behind those in the FIFO are in flight as
\* they were.
LEMMA TakeKeeps ==
  ASSUME TypeOK, TypeOK', NEW n \in 0 .. Elements,
         getPtr' = Ahead(getPtr, n), data' = data, putPtr' = putPtr,
         fifo' \in Seq(Bytes), Len(fifo') = Len(fifo) + n,
         \A i \in 1 .. Len(fifo) : fifo'[i] = fifo[i],
         \A i \in 1 .. n : fifo'[Len(fifo) + i] = Held[i]
  PROVE  InFlight' = InFlight
<1> USE RingAssumption
<1>0. RingTypeOK /\ RingTypeOK' /\ putPtr \in Indexes /\ getPtr \in Indexes
      /\ fifo \in Seq(Bytes) /\ Len(fifo) \in Nat
  BY LenProperties DEF TypeOK, RingTypeOK
<1>1. /\ Held \in Seq(Bytes) /\ Len(Held) = Elements /\ Elements \in 0 .. Size - 1
      /\ \A k \in 1 .. Elements : Held[k] = data[Ahead(getPtr, k - 1)]
  BY <1>0, HeldIsSeq
<1>2. Elements' = Elements - n
  BY <1>0, Distance DEF Elements
<1>3. /\ Held' \in Seq(Bytes) /\ Len(Held') = Elements - n
      /\ \A k \in 1 .. Elements - n : Held'[k] = Held[k + n]
  <2>1. /\ Held' \in Seq(Bytes) /\ Len(Held') = Elements'
        /\ \A k \in 1 .. Elements' : Held'[k] = data[Ahead(Ahead(getPtr, n), k - 1)]
    BY <1>0, HeldIsSeqNext
  <2>2. \A k \in 1 .. Elements - n : Held'[k] = Held[k + n]
    <3> TAKE k \in 1 .. Elements - n
    <3>1. n \in 0 .. Size - 1 /\ k - 1 \in 0 .. Size - 1 /\ n + (k - 1) < Size
      BY <1>1
    <3>2. Ahead(Ahead(getPtr, n), k - 1) = Ahead(getPtr, n + (k - 1))
      BY <1>0, <3>1, AheadTwice
    <3>3. k + n \in 1 .. Elements /\ (k + n) - 1 = n + (k - 1) /\ k \in 1 .. Elements'
      BY <1>1, <1>2
    <3>4. Held[k + n] = data[Ahead(getPtr, (k + n) - 1)]
      BY <1>1, <3>3
    <3> QED
      BY <2>1, <3>2, <3>3, <3>4
  <2> QED
    BY <1>2, <2>1, <2>2
<1>4. /\ InFlight \in Seq(Bytes) /\ Len(InFlight) = Len(fifo) + Elements
      /\ \A i \in 1 .. Len(fifo) + Elements :
           InFlight[i] = IF i <= Len(fifo) THEN fifo[i] ELSE Held[i - Len(fifo)]
  BY <1>0, <1>1, ConcatProperties DEF InFlight
<1> DEFINE now == InFlight
           next == InFlight'
<1>5. /\ next \in Seq(Bytes) /\ Len(next) = Len(fifo) + Elements
      /\ \A i \in 1 .. Len(fifo) + Elements :
           next[i] = IF i <= Len(fifo) + n THEN fifo'[i] ELSE Held'[i - (Len(fifo) + n)]
  <2>1. (Len(fifo) + n) + (Elements - n) = Len(fifo) + Elements
    BY <1>0, <1>1
  <2>2. next = fifo' \o Held'
    BY DEF InFlight
  <2>3. /\ next \in Seq(Bytes) /\ Len(next) = Len(fifo') + Len(Held')
        /\ \A i \in 1 .. Len(fifo') + Len(Held') :
             next[i] = IF i <= Len(fifo') THEN fifo'[i] ELSE Held'[i - Len(fifo')]
    BY <1>3, <2>2, ConcatProperties
  <2> QED
    BY <1>3, <2>1, <2>3
<1>6. \A i \in 1 .. Len(fifo) + Elements : next[i] = now[i]
  <2> HIDE DEF now, next
  <2> TAKE i \in 1 .. Len(fifo) + Elements
  <2>0. now[i] = IF i <= Len(fifo) THEN fifo[i] ELSE Held[i - Len(fifo)]
    BY <1>4 DEF now
  <2>1. CASE i <= Len(fifo)
    <3>1. next[i] = fifo'[i] /\ fifo'[i] = fifo[i]
      BY <1>0, <1>1, <1>5, <2>1
    <3> QED
      BY <2>0, <2>1, <3>1
  <2>2. CASE i > Len(fifo) /\ i <= Len(fifo) + n
    <3>1. i - Len(fifo) \in 1 .. n /\ Len(fifo) + (i - Len(fifo)) = i /\ ~(i <= Len(fifo))
      BY <1>0, <1>1, <2>2
    <3>2. fifo'[i] = Held[i - Len(fifo)]
      BY <3>1
    <3>3. next[i] = fifo'[i]
      BY <1>5, <2>2
    <3> QED
      BY <2>0, <3>1, <3>2, <3>3
  <2>3. CASE i > Len(fifo) + n
    <3>1. /\ i - (Len(fifo) + n) \in 1 .. Elements - n
          /\ (i - (Len(fifo) + n)) + n = i - Len(fifo)
          /\ ~(i <= Len(fifo)) /\ ~(i <= Len(fifo) + n)
      BY <1>0, <1>1, <2>3
    <3>2. Held'[i - (Len(fifo) + n)] = Held[i - Len(fifo)]
      BY <1>3, <3>1
    <3>3. next[i] = Held'[i - (Len(fifo) + n)]
      BY <1>5, <3>1
    <3> QED
      BY <2>0, <3>1, <3>2, <3>3
  <2> QED
    BY <1>0, <1>1, <2>1, <2>2, <2>3
<1> QED
  BY <1>4, <1>5, <1>6, SeqEqual

LEMMA TailOfConcat ==
  ASSUME NEW s \in Seq(Bytes), NEW t \in Seq(Bytes), s # <<>>
  PROVE  s \o t # <<>> /\ Tail(s \o t) = Tail(s) \o t
<1>0. /\ Len(s) \in Nat \ {0} /\ Len(t) \in Nat
      /\ s \o t \in Seq(Bytes) /\ Len(s \o t) = Len(s) + Len(t)
      /\ \A i \in 1 .. Len(s) + Len(t) :
           (s \o t)[i] = IF i <= Len(s) THEN s[i] ELSE t[i - Len(s)]
  BY EmptySeq, LenProperties, ConcatProperties
<1>1. s \o t # <<>>
  BY <1>0
<1>2. /\ Tail(s) \in Seq(Bytes) /\ Len(Tail(s)) = Len(s) - 1
      /\ \A i \in 1 .. Len(s) - 1 : Tail(s)[i] = s[i + 1]
  BY HeadTailProperties
<1> DEFINE tailOfAll == Tail(s \o t)
           withTail == Tail(s) \o t
<1>3. /\ tailOfAll \in Seq(Bytes) /\ Len(tailOfAll) = Len(s) + Len(t) - 1
      /\ \A i \in 1 .. Len(s) + Len(t) - 1 : tailOfAll[i] = (s \o t)[i + 1]
  BY <1>0, <1>1, HeadTailProperties
<1>4. /\ withTail \in Seq(Bytes) /\ Len(withTail) = Len(s) - 1 + Len(t)
      /\ \A i \in 1 .. Len(s) - 1 + Len(t) :
           withTail[i] = IF i <= Len(s) - 1 THEN Tail(s)[i] ELSE t[i - (Len(s) - 1)]
  BY <1>2, ConcatProperties
<1>5. \A i \in 1 .. Len(s) + Len(t) - 1 : tailOfAll[i] = withTail[i]
  <2> HIDE DEF tailOfAll, withTail
  <2> TAKE i \in 1 .. Len(s) + Len(t) - 1
  <2>1. tailOfAll[i] = IF i + 1 <= Len(s) THEN s[i + 1] ELSE t[(i + 1) - Len(s)]
    BY <1>0, <1>3
  <2>2. withTail[i] = IF i <= Len(s) - 1 THEN s[i + 1] ELSE t[i - (Len(s) - 1)]
    BY <1>0, <1>2, <1>4
  <2>3. (i + 1) - Len(s) = i - (Len(s) - 1) /\ (i + 1 <= Len(s) <=> i <= Len(s) - 1)
    BY <1>0
  <2> QED
    BY <2>1, <2>2, <2>3
<1>6. Len(tailOfAll) = Len(withTail)
  BY <1>0, <1>3, <1>4
<1>7. tailOfAll = withTail
  <2> HIDE DEF tailOfAll, withTail
  <2> QED
    BY <1>0, <1>3, <1>4, <1>5, <1>6, SeqEqual
<1> QED
  BY <1>1, <1>7

\* One step per action that moves a byte; the others leave the line alone.
LEMMA LineStep == IInv /\ IInv' /\ [Next]_vars => [Line!Next]_InFlight
<1> USE RingAssumption, TxAssumption
<1> SUFFICES ASSUME IInv, IInv', [Next]_vars
             PROVE  Line!Next \/ InFlight' = InFlight
  BY DEF IInv
<1>0. TypeOK /\ TypeOK' /\ LoopOK /\ fifo \in Seq(Bytes) /\ Held \in Seq(Bytes)
      /\ Len(Held) = Elements /\ Elements \in 0 .. Size - 1 /\ Len(fifo) \in Nat
      /\ RingTypeOK /\ getPtr \in Indexes
  BY InFlightIsSeq, LenProperties DEF IInv, TypeOK, RingTypeOK
<1>1. CASE UNCHANGED vars \/ SendBegin \/ DrainBegin \/ KickBegin \/ KickRoom \/ KickLoad
           \/ KickEnd \/ DrainRing
           \/ SetBaudrate
  <2>1. fifo' = fifo /\ data' = data /\ putPtr' = putPtr /\ getPtr' = getPtr
    BY <1>1 DEF vars, ring, SendBegin, DrainBegin, KickBegin, KickRoom, KickLoad, KickEnd,
                DrainRing, SetBaudrate
  <2> QED
    BY <2>1 DEF InFlight, Held, Elements
<1>2. CASE PutByte
  BY <1>0, <1>2, PutAppends DEF InFlight, PutByte
<1>3. CASE PublishByte
  <2>1. PICK b \in Bytes : Held' = Append(Held, b)
    BY <1>0, <1>3, PutAppends
  <2>2. InFlight' = fifo \o Append(Held, b)
    BY <1>3, <2>1 DEF InFlight, PublishByte
  <2>3. fifo \o Append(Held, b) = Append(fifo \o Held, b)
    <3>1. Append(Held, b) = Held \o <<b>> /\ <<b>> \in Seq(Bytes)
      BY <1>0, AppendIsConcat
    <3>2. Append(fifo \o Held, b) = (fifo \o Held) \o <<b>>
      BY <1>0, ConcatProperties, AppendIsConcat
    <3> QED
      BY <1>0, <3>1, <3>2, ConcatAssociative
  <2>4. Line!Put(b)
    BY <2>2, <2>3 DEF Line!Put, InFlight
  <2> QED
    BY <2>4 DEF Line!Next
<1>4. CASE KickWrite
  <2>1. 1 \in 0 .. Elements /\ reg \in Bytes /\ fifo' = Append(fifo, reg)
        /\ getPtr' = Ahead(getPtr, 1) /\ data' = data /\ putPtr' = putPtr
    BY <1>0, <1>4, Successor
    DEF KickWrite, WriteThr, Release, LoopOK, TypeOK, IsEmpty
  <2>2. reg = Held[1]
    <3>1. Held[1] = data[Ahead(getPtr, 1 - 1)]
      BY <1>0, <2>1, HeldIsSeq
    <3>2. Ahead(getPtr, 1 - 1) = getPtr
      BY <1>0 DEF Ahead, Indexes
    <3> QED
      BY <1>4, <3>1, <3>2, <1>0 DEF KickWrite, LoopOK, Oldest
  <2>3. /\ fifo' \in Seq(Bytes) /\ Len(fifo') = Len(fifo) + 1
        /\ \A i \in 1 .. Len(fifo) : fifo'[i] = fifo[i]
        /\ \A i \in 1 .. 1 : fifo'[Len(fifo) + i] = Held[i]
    BY <1>0, <2>1, <2>2, AppendProperties
  <2> QED
    BY <1>0, <2>1, <2>3, TakeKeeps
<1>5. CASE Isr
  <2>1. PICK n \in 0 .. Elements :
          /\ fifo = <<>> /\ fifo' = SubSeq(Held, 1, n) /\ getPtr' = Ahead(getPtr, n)
          /\ fifo' \in Seq(Bytes) /\ Len(fifo') = n
    BY <1>0, <1>5, IsrMoves
  <2>2. Len(fifo) = 0 /\ n \in Nat
    BY <1>0, <2>1
  <2>3. \A i \in 1 .. n : fifo'[Len(fifo) + i] = Held[i]
    <3>1. \A i \in 1 .. n : Held[i] \in Bytes
      BY <1>0, <2>1, ElementOfSeq
    <3>2. \A i \in 1 .. n : SubSeq(Held, 1, n)[i] = Held[i]
      BY <2>2, <3>1, SubSeqProperties
    <3> QED
      BY <2>1, <2>2, <3>2
  <2>4. Len(fifo') = Len(fifo) + n /\ \A i \in 1 .. Len(fifo) : fifo'[i] = fifo[i]
    BY <2>1, <2>2
  <2> QED
    BY <1>0, <1>5, <2>1, <2>3, <2>4, TakeKeeps DEF Isr
<1>6. CASE ShiftOut
  <2>1. fifo # <<>> /\ fifo' = Tail(fifo) /\ Held' = Held
    BY <1>6 DEF ShiftOut, ring, Held, Elements
  <2>2. InFlight # <<>> /\ InFlight' = Tail(InFlight)
    BY <1>0, <2>1, TailOfConcat DEF InFlight
  <2> QED
    BY <2>2 DEF Line!Next, Line!Get
<1> QED
  BY <1>1, <1>2, <1>3, <1>4, <1>5, <1>6 DEF Next, LoopStep

\* Every byte of every message is sent once and in order, whoever of loop and
\* handler takes it from the ring buffer: UartTx implements Fifo.
THEOREM ImplementsFifo == Spec => LineIsFifo
<1>1. Init => Line!Init
  <2> SUFFICES ASSUME Init PROVE InFlight = <<>>
    BY DEF Line!Init
  <2>1. TypeOK /\ fifo = <<>> /\ Elements = 0
    BY InitOK DEF Init, RingInit, Elements, Dist
  <2> QED
    BY <2>1, InFlightIsSeq, EmptySeq, LenProperties
<1>2. IInv /\ IInv' /\ [Next]_vars => [Line!Next]_InFlight
  BY LineStep
<1> QED
  BY <1>1, <1>2, Invariant, PTL DEF Spec, LineIsFifo, Line!Spec

\* The rate is changed in the middle of nothing accepted, although the two waits
\* before it each look at one half and the handler runs between them: what the
\* first has seen empty stays so, since the handler only takes bytes from there.
THEOREM DrainedBeforeBaud == Spec => BaudWhenDrained
<1>1. IInv /\ [Next]_vars => [baud' # baud => InFlight = <<>>]_vars
  <2> SUFFICES ASSUME IInv, [Next]_vars, baud' # baud PROVE InFlight = <<>>
    OBVIOUS
  <2>1. SetBaudrate
    BY DEF Next, LoopStep, vars, SendBegin, DrainBegin, PutByte, PublishByte, KickBegin,
           KickRoom, KickLoad, KickWrite, KickEnd, DrainRing, Isr, ShiftOut
  <2>2. fifo = <<>>
    BY <2>1 DEF SetBaudrate, WaitOver
  <2>3. Elements = 0
    BY <2>1 DEF IInv, LoopOK, SetBaudrate, IsEmpty
  <2> QED
    BY <2>2, <2>3, InFlightIsSeq, EmptySeq, LenProperties DEF IInv
<1> QED
  BY <1>1, Invariant, PTL DEF Spec, BaudWhenDrained
=============================================================================

-------------------------- MODULE CentralLink_proof --------------------------
(* Theorems about CentralLink, for every number of entries, links, peers,   *)
(* queued events and losses.                                                *)
EXTENDS CentralLink, FiniteSetTheorems, SequenceTheorems, TLAPS

(***************************************************************************)
(* What the queue says.  Undoing the queued events from the last to the    *)
(* first leads from the stack's links back to the links as the program     *)
(* knows them: L[i] are the links after i of the queued events.            *)
(***************************************************************************)
Links == [Handles -> Peers \cup {NoPeer}]

\* The event e turns the links v into w.
Turns(e, v, w) ==
  /\ e.kind = "up" =>
       /\ e.conn \in Handles /\ e.addr \in Peers /\ v[e.conn] = NoPeer
       /\ w = [v EXCEPT ![e.conn] = e.addr]
  /\ e.kind = "down" =>
       e.conn \in Handles /\ v[e.conn] # NoPeer /\ w = [v EXCEPT ![e.conn] = NoPeer]
  /\ e.kind = "info" => e.addr \in Peers
  /\ e.kind \notin {"up", "down"} => w = v

\* No peer has two links.
OneEach(v) == \A g, h \in Handles : v[g] = v[h] /\ v[g] # NoPeer => g = h

IsDown(e, h) == e.kind = "down" /\ e.conn = h
IsLinkEvent(e) == e.kind \in {"up", "down"}

\* From where L[i] differs from m to the end of q, there is an event that
\* makes the difference, and a link that has gone since has gone down.
Explains(L, q, m, i) ==
  \A h \in Handles : L[i][h] # m[h] =>
    /\ \E j \in i + 1 .. Len(q) : IsLinkEvent(q[j])
    /\ L[i][h] # NoPeer => \E j \in i + 1 .. Len(q) : IsDown(q[j], h)

History(L, q, m) ==
  /\ L \in [0 .. Len(q) -> Links]
  /\ L[Len(q)] = m
  /\ \A i \in 0 .. Len(q) : OneEach(L[i]) /\ Explains(L, q, m, i)
  /\ \A i \in 1 .. Len(q) : Turns(q[i], L[i - 1], L[i])

\* The table and the links as the program knows them: an entry in use is one of
\* them, and one without an entry is being terminated.
Knows(v) ==
  /\ \A s \in Slots : ~IsFree(s) => v[connList[s].conn] = connList[s].addr
  /\ \A h \in Handles :
       v[h] # NoPeer /\ (\A s \in Slots : connList[s].conn # h) =>
         h \in closing \/ \E j \in 1 .. Len(gapq) : IsDown(gapq[j], h)

Table ==
  \E L \in [0 .. Len(gapq) -> Links] : History(L, gapq, links) /\ Knows(L[0])

\* Entries are whole, and no handle has two.
Entries ==
  /\ \A s \in Slots : IsFree(s) => connList[s].addr = NoPeer
  /\ \A s \in Slots : ~IsFree(s) => connList[s].addr # NoPeer
  /\ \A s, t \in Slots : s # t /\ ~IsFree(s) => connList[s].conn # connList[t].conn
  /\ \A h \in closing : links[h] # NoPeer

\* Nothing happens before the stack has started; a link is created to a peer.
Started ==
  /\ mode = "off" =>
       ~scanEnabled /\ gapq = <<>> /\ \A h \in Handles : links[h] = NoPeer
  /\ mode = "init" => target \in Peers

\* ScanAlive, where a scan result alone does not count as something under way.
Scanning ==
  scanEnabled /\ (\E s \in Slots : IsFree(s)) =>
    \/ mode \in {"scan", "init"} \/ closing # {}
    \/ \E j \in 1 .. Len(gapq) : gapq[j].kind # "info"

IInv == TypeOK /\ Entries /\ Table /\ Started /\ Scanning

-----------------------------------------------------------------------------
(* The queue grows at its end and is handled from its head.                *)

LEMMA HistoryGrows ==
  ASSUME NEW q \in Seq(Events), NEW m, NEW L, History(L, q, m),
         NEW e \in Events, NEW w \in Links, Turns(e, m, w), OneEach(w)
  PROVE  LET M == [i \in 0 .. Len(q) + 1 |-> IF i <= Len(q) THEN L[i] ELSE w]
         IN  /\ M \in [0 .. Len(Append(q, e)) -> Links]
             /\ M[0] = L[0]
             /\ History(M, Append(q, e), w)
<1> DEFINE n == Len(q)
           r == Append(q, e)
           M == [i \in 0 .. n + 1 |-> IF i <= n THEN L[i] ELSE w]
<1>1. n \in Nat /\ Len(r) = n + 1 /\ r[n + 1] = e /\ \A i \in 1 .. n : r[i] = q[i]
  BY AppendProperties, LenProperties
<1>2. /\ L \in [0 .. n -> Links] /\ L[n] = m
      /\ \A i \in 0 .. n : OneEach(L[i]) /\ Explains(L, q, m, i)
      /\ \A i \in 1 .. n : Turns(q[i], L[i - 1], L[i])
  BY DEF History
<1>3. M \in [0 .. n + 1 -> Links] /\ M[n + 1] = w /\ \A i \in 0 .. n : M[i] = L[i]
  BY <1>1, <1>2
<1>4. \A i \in 1 .. n + 1 : Turns(r[i], M[i - 1], M[i])
  <2> SUFFICES ASSUME NEW i \in 1 .. n + 1 PROVE Turns(r[i], M[i - 1], M[i])
    OBVIOUS
  <2>1. CASE i = n + 1
    <3>1. r[i] = e /\ M[i] = w /\ M[i - 1] = m
      BY <1>1, <1>2, <1>3, <2>1
    <3> QED
      BY <3>1
  <2>2. CASE i # n + 1
    <3>1. i \in 1 .. n /\ i - 1 \in 0 .. n /\ i \in 0 .. n
      BY <1>1, <2>2
    <3>2. r[i] = q[i] /\ M[i] = L[i] /\ M[i - 1] = L[i - 1]
      BY <1>1, <1>3, <3>1
    <3> QED
      BY <1>2, <3>1, <3>2
  <2> QED
    BY <2>1, <2>2
<1>5. \A i \in 0 .. n + 1 : OneEach(M[i])
  <2> SUFFICES ASSUME NEW i \in 0 .. n + 1 PROVE OneEach(M[i])
    OBVIOUS
  <2>1. CASE i = n + 1
    BY <1>3, <2>1
  <2>2. CASE i # n + 1
    <3>1. i \in 0 .. n
      BY <1>1, <2>2
    <3> QED
      BY <1>2, <1>3, <3>1
  <2> QED
    BY <2>1, <2>2
<1>6. \A i \in 0 .. n + 1 : Explains(M, r, w, i)
  <2> SUFFICES ASSUME NEW i \in 0 .. n + 1, NEW h \in Handles, M[i][h] # w[h]
               PROVE  /\ \E j \in i + 1 .. Len(r) : IsLinkEvent(r[j])
                      /\ M[i][h] # NoPeer => \E j \in i + 1 .. Len(r) : IsDown(r[j], h)
    BY DEF Explains
  <2>1. i \in 0 .. n /\ M[i] = L[i]
    BY <1>1, <1>3
  <2>2. \A j \in i + 1 .. n : j \in i + 1 .. Len(r) /\ r[j] = q[j]
    BY <1>1, <2>1
  <2>3. CASE L[i][h] # m[h]
    BY <1>2, <2>1, <2>2, <2>3 DEF Explains
  <2>4. CASE L[i][h] = m[h]
    <3>1. n + 1 \in i + 1 .. Len(r) /\ r[n + 1] = e
      BY <1>1, <2>1
    <3>2. m \in Links /\ m[h] # w[h]
      BY <1>1, <1>2, <2>1, <2>4
    <3>3. IsLinkEvent(e) /\ (m[h] # NoPeer => IsDown(e, h))
      BY <3>2 DEF Turns, IsLinkEvent, IsDown, Links, Events
    <3> QED
      BY <2>1, <2>4, <3>1, <3>3
  <2> QED
    BY <2>3, <2>4
<1>7. History(M, r, w)
  BY <1>1, <1>3, <1>4, <1>5, <1>6 DEF History
<1>8. M \in [0 .. Len(r) -> Links] /\ M[0] = L[0]
  BY <1>1, <1>3
<1> QED
  BY <1>7, <1>8

LEMMA HistoryShrinks ==
  ASSUME NEW q \in Seq(Events), q # <<>>, NEW m, NEW L, History(L, q, m)
  PROVE  LET M == [i \in 0 .. Len(q) - 1 |-> L[i + 1]]
         IN  /\ M \in [0 .. Len(Tail(q)) -> Links]
             /\ M[0] = L[1]
             /\ History(M, Tail(q), m)
<1> DEFINE n == Len(q)
           r == Tail(q)
           M == [i \in 0 .. n - 1 |-> L[i + 1]]
<1>1. n \in Nat \ {0} /\ Len(r) = n - 1 /\ \A i \in 1 .. n - 1 : r[i] = q[i + 1]
  BY HeadTailProperties, LenProperties, EmptySeq
<1>2. /\ L \in [0 .. n -> Links] /\ L[n] = m
      /\ \A i \in 0 .. n : OneEach(L[i]) /\ Explains(L, q, m, i)
      /\ \A i \in 1 .. n : Turns(q[i], L[i - 1], L[i])
  BY DEF History
<1>3. M \in [0 .. n - 1 -> Links] /\ \A i \in 0 .. n - 1 : M[i] = L[i + 1]
  BY <1>1, <1>2
<1>4. \A i \in 1 .. n - 1 : Turns(r[i], M[i - 1], M[i])
  <2> SUFFICES ASSUME NEW i \in 1 .. n - 1 PROVE Turns(r[i], M[i - 1], M[i])
    OBVIOUS
  <2>1. i + 1 \in 1 .. n /\ i - 1 \in 0 .. n - 1 /\ i \in 0 .. n - 1 /\ (i - 1) + 1 = (i + 1) - 1
    BY <1>1
  <2>2. r[i] = q[i + 1] /\ M[i] = L[i + 1] /\ M[i - 1] = L[(i + 1) - 1]
    BY <1>1, <1>3, <2>1
  <2> QED
    BY <1>2, <2>1, <2>2
<1>5. \A i \in 0 .. n - 1 : OneEach(M[i])
  <2> SUFFICES ASSUME NEW i \in 0 .. n - 1 PROVE OneEach(M[i])
    OBVIOUS
  <2>1. i + 1 \in 0 .. n
    BY <1>1
  <2> QED
    BY <1>2, <1>3, <2>1
<1>6. \A i \in 0 .. n - 1 : Explains(M, r, m, i)
  <2> SUFFICES ASSUME NEW i \in 0 .. n - 1, NEW h \in Handles, M[i][h] # m[h]
               PROVE  /\ \E j \in i + 1 .. Len(r) : IsLinkEvent(r[j])
                      /\ M[i][h] # NoPeer => \E j \in i + 1 .. Len(r) : IsDown(r[j], h)
    BY DEF Explains
  <2>1. i + 1 \in 0 .. n /\ M[i] = L[i + 1]
    BY <1>1, <1>3
  <2>2. \A j \in (i + 1) + 1 .. n : j - 1 \in i + 1 .. Len(r) /\ r[j - 1] = q[j]
    BY <1>1, <2>1
  <2> QED
    BY <1>2, <2>1, <2>2 DEF Explains
<1>7. M[n - 1] = m
  BY <1>1, <1>2, <1>3
<1>8. History(M, r, m)
  BY <1>1, <1>3, <1>4, <1>5, <1>6, <1>7 DEF History
<1>9. M \in [0 .. Len(r) -> Links] /\ M[0] = L[1]
  BY <1>1, <1>3
<1> QED
  BY <1>8, <1>9

\* The event at the head, and what it does to the links the program knows.
LEMMA HeadEvent ==
  ASSUME TypeOK, gapq # <<>>, NEW L, History(L, gapq, links)
  PROVE  /\ Len(gapq) \in Nat \ {0}
         /\ Head(gapq) \in Events /\ Head(gapq) = gapq[1]
         /\ Tail(gapq) \in Seq(Events) /\ Len(Tail(gapq)) = Len(gapq) - 1
         /\ \A i \in 1 .. Len(gapq) - 1 : Tail(gapq)[i] = gapq[i + 1]
         /\ L[0] \in Links /\ L[1] \in Links
         /\ OneEach(L[0]) /\ OneEach(L[1])
         /\ Turns(Head(gapq), L[0], L[1])
<1>1. gapq \in Seq(Events)
  BY DEF TypeOK
<1>2. /\ Len(gapq) \in Nat \ {0}
      /\ Head(gapq) \in Events /\ Head(gapq) = gapq[1]
      /\ Tail(gapq) \in Seq(Events) /\ Len(Tail(gapq)) = Len(gapq) - 1
      /\ \A i \in 1 .. Len(gapq) - 1 : Tail(gapq)[i] = gapq[i + 1]
  BY <1>1, EmptySeq, HeadTailProperties
<1>3. 0 \in 0 .. Len(gapq) /\ 1 \in 0 .. Len(gapq) /\ 1 \in 1 .. Len(gapq)
  BY <1>2
<1>4. OneEach(L[0]) /\ OneEach(L[1])
  BY <1>3 DEF History
<1>5. Turns(gapq[1], L[1 - 1], L[1])
  BY <1>3 DEF History
<1>6. L[0] \in Links /\ L[1] \in Links
  BY <1>3 DEF History
<1> QED
  BY <1>2, <1>4, <1>5, <1>6

\* An event is queued: the links are turned as it says, and the table is left.
LEMMA TableQueues ==
  ASSUME TypeOK, Table, NEW e \in Events, gapq' = Append(gapq, e),
         links' \in Links, Turns(e, links, links'), OneEach(links'),
         connList' = connList, \A h \in closing : h \in closing' \/ IsDown(e, h)
  PROVE  Table'
<1>1. PICK L \in [0 .. Len(gapq) -> Links] : History(L, gapq, links) /\ Knows(L[0])
  BY DEF Table
<1> DEFINE M == [i \in 0 .. Len(gapq) + 1 |-> IF i <= Len(gapq) THEN L[i] ELSE links']
<1>2. gapq \in Seq(Events)
  BY DEF TypeOK
<1>3. M \in [0 .. Len(gapq') -> Links] /\ M[0] = L[0] /\ History(M, gapq', links')
  BY <1>1, <1>2, HistoryGrows
<1>4. /\ Len(gapq) + 1 \in 1 .. Len(gapq') /\ gapq'[Len(gapq) + 1] = e
      /\ \A j \in 1 .. Len(gapq) : j \in 1 .. Len(gapq') /\ gapq'[j] = gapq[j]
  BY <1>2, AppendProperties, LenProperties
<1>5. Knows(L[0])'
  <2>1. \A s \in Slots : ~IsFree(s)' => L[0][connList'[s].conn] = connList'[s].addr
    BY <1>1 DEF Knows, IsFree
  <2>2. ASSUME NEW h \in Handles, L[0][h] # NoPeer, \A s \in Slots : connList'[s].conn # h
        PROVE  h \in closing' \/ \E j \in 1 .. Len(gapq') : IsDown(gapq'[j], h)
    <3>1. h \in closing \/ \E j \in 1 .. Len(gapq) : IsDown(gapq[j], h)
      BY <1>1, <2>2 DEF Knows
    <3> QED
      BY <1>4, <3>1
  <2> QED
    BY <2>1, <2>2 DEF Knows
<1> QED
  BY <1>3, <1>5 DEF Table

\* Nothing is queued or handled.
LEMMA TableKeeps ==
  ASSUME Table, gapq' = gapq, links' = links, connList' = connList, closing \subseteq closing'
  PROVE  Table'
BY DEF Table, Knows, IsFree

\* An event is handled: the table has to follow it.
LEMMA TableFollows ==
  ASSUME TypeOK, gapq # <<>>, gapq' = Tail(gapq), links' = links,
         NEW L, History(L, gapq, links), Knows(L[1])'
  PROVE  Table'
<1> DEFINE M == [i \in 0 .. Len(gapq) - 1 |-> L[i + 1]]
<1>1. gapq \in Seq(Events)
  BY DEF TypeOK
<1>2. M \in [0 .. Len(gapq') -> Links] /\ M[0] = L[1] /\ History(M, gapq', links')
  BY <1>1, HistoryShrinks
<1> HIDE DEF M
<1> QED
  BY <1>2 DEF Table

\* An event that is not about a link is handled: the table is left.
LEMMA TableSkips ==
  ASSUME TypeOK, Table, gapq # <<>>, gapq' = Tail(gapq), links' = links,
         connList' = connList, closing \subseteq closing', ~IsLinkEvent(Head(gapq))
  PROVE  Table'
<1>1. PICK L \in [0 .. Len(gapq) -> Links] : History(L, gapq, links) /\ Knows(L[0])
  BY DEF Table
<1>2. L[1] = L[0]
  BY <1>1, HeadEvent DEF Turns, IsLinkEvent
<1>3. \A h : (\E j \in 1 .. Len(gapq) : IsDown(gapq[j], h)) =>
             \E j \in 1 .. Len(gapq') : IsDown(gapq'[j], h)
  <2> SUFFICES ASSUME NEW h, NEW j \in 1 .. Len(gapq), IsDown(gapq[j], h)
               PROVE  \E k \in 1 .. Len(gapq') : IsDown(gapq'[k], h)
    OBVIOUS
  <2>1. j # 1
    BY <1>1, HeadEvent DEF IsLinkEvent, IsDown
  <2>2. j - 1 \in 1 .. Len(gapq') /\ gapq'[j - 1] = gapq[j]
    BY <1>1, <2>1, HeadEvent
  <2> QED
    BY <2>2
<1>4. Knows(L[1])'
  BY <1>1, <1>2, <1>3 DEF Knows, IsFree
<1> QED
  BY <1>1, <1>4, TableFollows

-----------------------------------------------------------------------------
(* As many entries as handles: an entry is free when a handle has none.    *)

LEMMA AsManySlots ==
  ASSUME NEW k \in 1 .. MaxConn
  PROVE  /\ IsFiniteSet(Slots) /\ IsFiniteSet(Slots \ {k})
         /\ Cardinality(Slots \ {k}) < Cardinality(Slots)
<1>1. IsFiniteSet(Slots) /\ Cardinality(Slots) = MaxConn
  BY CentralAssumption, FS_Interval DEF Slots
<1>2. k \in Slots
  BY DEF Slots
<1> QED
  BY <1>1, <1>2, FS_RemoveElement, CentralAssumption

LEMMA SlotLeft ==
  ASSUME TypeOK, Entries, NEW h \in Handles, \A s \in Slots : connList[s].conn # h
  PROVE  \E s \in Slots : IsFree(s)
<1> SUFFICES ASSUME \A s \in Slots : ~IsFree(s) PROVE FALSE
  OBVIOUS
<1> DEFINE f == [s \in Slots |-> connList[s].conn]
<1>1. f \in [Slots -> Slots \ {h}]
  BY DEF TypeOK, IsFree, Slots, Handles, NoHandle
<1>2. /\ IsFiniteSet(Slots) /\ IsFiniteSet(Slots \ {h})
      /\ Cardinality(Slots \ {h}) < Cardinality(Slots)
  BY AsManySlots DEF Handles
<1>3. \A s \in Slots : f[s] = connList[s].conn
  OBVIOUS
<1> HIDE DEF f
<1>4. \E s, t \in Slots : s # t /\ f[s] = f[t]
  BY <1>1, <1>2, FS_PigeonHole
<1> QED
  BY <1>3, <1>4 DEF Entries

LEMMA HandleLeft ==
  ASSUME TypeOK, NEW s \in Slots, IsFree(s)
  PROVE  \E h \in Handles : \A t \in Slots : connList[t].conn # h
<1> SUFFICES ASSUME \A h \in Handles : \E t \in Slots : connList[t].conn = h PROVE FALSE
  OBVIOUS
<1> DEFINE f == [h \in Slots |-> CHOOSE t \in Slots : connList[t].conn = h]
<1>1. \A h \in Slots : f[h] \in Slots /\ connList[f[h]].conn = h
  BY DEF Slots, Handles
<1>2. f \in [Slots -> Slots \ {s}]
  BY <1>1, CentralAssumption DEF IsFree, NoHandle, Slots
<1>3. /\ IsFiniteSet(Slots) /\ IsFiniteSet(Slots \ {s})
      /\ Cardinality(Slots \ {s}) < Cardinality(Slots)
  BY AsManySlots DEF Slots
<1> HIDE DEF f
<1>4. \E g, h \in Slots : g # h /\ f[g] = f[h]
  BY <1>2, <1>3, FS_PigeonHole
<1> QED
  BY <1>1, <1>4

-----------------------------------------------------------------------------
(* Type correctness.                                                       *)

LEMMA InitOK == Init => IInv
<1> SUFFICES ASSUME Init PROVE IInv
  OBVIOUS
<1> USE CentralAssumption
<1>1. gapq = <<>> /\ Len(gapq) = 0 /\ gapq \in Seq(Events)
  BY EmptySeq DEF Init
<1>2. TypeOK
  <2>1. devList \in Seq(Peers) /\ Len(devList) <= MaxRes
    BY EmptySeq DEF Init
  <2>2. peerDef \in [Slots -> [addr : Peers \cup {NoPeer}, enabled : BOOLEAN]]
    BY DEF Init
  <2>3. scanEnabled \in BOOLEAN /\ timer \in BOOLEAN /\ overrun \in BOOLEAN
    BY DEF Init
  <2>4. connList \in [Slots -> [conn : Handles \cup {NoHandle}, addr : Peers \cup {NoPeer}]]
    BY DEF Init, FreeSlot
  <2>5. links \in [Handles -> Peers \cup {NoPeer}] /\ closing \subseteq Handles
    BY DEF Init
  <2>6. mode \in {"off", "idle", "scan", "init"} /\ target \in Peers \cup {NoPeer}
        /\ drops \in 0 .. MaxDrops
    BY DEF Init
  <2> QED
    BY <1>1, <2>1, <2>2, <2>3, <2>4, <2>5, <2>6 DEF TypeOK
<1>3. Entries
  BY DEF Init, Entries, IsFree, FreeSlot
<1>4. Table
  <2> DEFINE L == [i \in 0 .. Len(gapq) |-> links]
  <2>1. L \in [0 .. Len(gapq) -> Links] /\ L[0] = links /\ links \in Links
    BY <1>1 DEF Init, Links
  <2>2. \A i \in 0 .. Len(gapq) : i = 0
    BY <1>1
  <2>3. \A h \in Handles : links[h] = NoPeer
    BY DEF Init
  <2>4. History(L, gapq, links)
    BY <1>1, <2>1, <2>2, <2>3 DEF History, OneEach, Explains
  <2>5. Knows(L[0])
    BY <2>1, <2>3 DEF Knows, Init, IsFree, FreeSlot
  <2> QED
    BY <2>1, <2>4, <2>5 DEF Table
<1>5. Started /\ Scanning
  BY DEF Init, Started, Scanning
<1> QED
  BY <1>2, <1>3, <1>4, <1>5 DEF IInv

\* The two ways an established link is taken.
LEMMA UpCases ==
  ASSUME LinkEstablished
  PROVE  \/ TerminateLink(Head(gapq).conn) /\ UNCHANGED <<connList, devList, mode>>
         \/ \E s \in Slots :
              /\ FirstFree(s) /\ closing' = closing
              /\ connList' = [connList EXCEPT ![s] = [conn |-> Head(gapq).conn,
                                                     addr |-> Head(gapq).addr]]
              /\ \/ devList' = <<>> /\ Rescan
                 \/ /\ \A t \in Slots : connList'[t].conn # NoHandle
                    /\ UNCHANGED <<devList, mode>>
<1> DEFINE h == Head(gapq).conn
           p == Head(gapq).addr
<1>1. CASE TerminateLink(h) /\ UNCHANGED <<connList, devList, mode>>
  BY <1>1
<1>2. ASSUME NEW s \in Slots, FirstFree(s),
             connList' = [connList EXCEPT ![s] = [conn |-> h, addr |-> p]],
             IF \E t \in Slots : connList'[t].conn = NoHandle
             THEN devList' = <<>> /\ Rescan
             ELSE UNCHANGED <<devList, mode>>,
             UNCHANGED closing
      PROVE  \/ devList' = <<>> /\ Rescan
             \/ /\ \A t \in Slots : connList'[t].conn # NoHandle
                /\ UNCHANGED <<devList, mode>>
  <2>1. CASE \E t \in Slots : connList'[t].conn = NoHandle
    BY <1>2, <2>1
  <2>2. CASE \A t \in Slots : connList'[t].conn # NoHandle
    BY <1>2, <2>2
  <2> QED
    BY <2>1, <2>2
<1> QED
  BY <1>1, <1>2, Zenon DEF LinkEstablished

LEMMA TypeStep == IInv /\ [Next]_vars => TypeOK'
<1> SUFFICES ASSUME IInv, [Next]_vars PROVE TypeOK'
  OBVIOUS
<1> USE CentralAssumption
<1>1. TypeOK /\ Entries /\ Table /\ Started
  BY DEF IInv
<1>2. PICK L : History(L, gapq, links)
  BY <1>1 DEF Table
<1>3. ASSUME gapq # <<>>
      PROVE  /\ Tail(gapq) \in Seq(Events) /\ Head(gapq) \in Events
             /\ Head(gapq).kind \in {"up", "down"} => Head(gapq).conn \in Handles
             /\ Head(gapq).kind \in {"up", "info"} => Head(gapq).addr \in Peers
  BY <1>1, <1>2, <1>3, HeadEvent DEF Turns
<1>4. ASSUME NEW e \in Events, Queue(e) PROVE gapq' \in Seq(Events)
  BY <1>1, <1>4, AppendProperties DEF TypeOK, Queue
<1>5. ASSUME NEW h \in Handles, TerminateLink(h) PROVE closing' \subseteq Handles
  BY <1>1, <1>5 DEF TypeOK, TerminateLink
<1>6. Rescan => mode' \in {"off", "idle", "scan", "init"}
  BY <1>1 DEF TypeOK, Rescan, Scans
<1>7. <<>> \in Seq(Peers) /\ Len(<<>>) = 0
  BY EmptySeq
<1>8. CASE DeviceInitDone
  BY <1>1, <1>3, <1>6, <1>8 DEF TypeOK, DeviceInitDone, Callback
<1>9. CASE DeviceInfo
  <2>1. devList' \in Seq(Peers) /\ Len(devList') <= MaxRes
    BY <1>1, <1>3, <1>9, AppendProperties DEF TypeOK, DeviceInfo, Callback
  <2> QED
    BY <1>1, <1>3, <1>9, <2>1 DEF TypeOK, DeviceInfo, Callback
<1>10. CASE DeviceDiscovery
  <2>1. \A i \in 1 .. Len(devList) : devList[i] \in Peers
    BY <1>1, ElementOfSeq DEF TypeOK
  <2>2. /\ mode' \in {"off", "idle", "scan", "init"} /\ target' \in Peers \cup {NoPeer}
        /\ devList' \in Seq(Peers) /\ Len(devList') <= MaxRes /\ timer' \in BOOLEAN
    <3>1. CASE devList' = <<>> /\ Rescan /\ UNCHANGED <<timer, target>>
      BY <1>1, <1>6, <1>7, <3>1 DEF TypeOK
    <3>2. ASSUME NEW i \in 1 .. Len(devList), EstablishLink(devList[i]), timer' = TRUE,
                 UNCHANGED devList
          PROVE  /\ mode' \in {"off", "idle", "scan", "init"} /\ target' \in Peers \cup {NoPeer}
                 /\ devList' \in Seq(Peers) /\ Len(devList') <= MaxRes /\ timer' \in BOOLEAN
      BY <1>1, <2>1, <3>2 DEF TypeOK, EstablishLink
    <3> QED
      BY <1>10, <3>1, <3>2 DEF DeviceDiscovery
  <2> QED
    BY <1>1, <1>3, <1>10, <2>2 DEF TypeOK, DeviceDiscovery, Callback
<1>11. CASE LinkEstablished
  <2>1. timer' \in BOOLEAN
    BY <1>1, <1>11 DEF TypeOK, LinkEstablished, StopTimer
  <2>2. Head(gapq).conn \in Handles /\ Head(gapq).addr \in Peers
    BY <1>3, <1>11 DEF LinkEstablished, Callback
  <2>3. /\ mode' \in {"off", "idle", "scan", "init"} /\ closing' \subseteq Handles
        /\ devList' \in Seq(Peers) /\ Len(devList') <= MaxRes
    <3>1. CASE TerminateLink(Head(gapq).conn) /\ UNCHANGED <<connList, devList, mode>>
      BY <1>1, <1>5, <2>2, <3>1 DEF TypeOK
    <3>2. CASE closing' = closing /\ devList' = <<>> /\ Rescan
      BY <1>1, <1>6, <1>7, <3>2 DEF TypeOK
    <3>3. CASE closing' = closing /\ UNCHANGED <<devList, mode>>
      BY <1>1, <3>3 DEF TypeOK
    <3> QED
      BY <1>11, <3>1, <3>2, <3>3, UpCases
  <2>4. connList' \in [Slots -> [conn : Handles \cup {NoHandle}, addr : Peers \cup {NoPeer}]]
    BY <1>1, <1>11, <2>2 DEF TypeOK, LinkEstablished
  <2> QED
    BY <1>1, <1>3, <1>11, <2>1, <2>3, <2>4 DEF TypeOK, LinkEstablished, Callback
<1>12. CASE LinkFailed
  <2>1. timer' \in BOOLEAN
    BY <1>1, <1>12 DEF TypeOK, LinkFailed, StopTimer
  <2> QED
    BY <1>1, <1>3, <1>6, <1>7, <1>12, <2>1 DEF TypeOK, LinkFailed, Callback
<1>13. CASE LinkTerminated
  <2>1. connList' \in [Slots -> [conn : Handles \cup {NoHandle}, addr : Peers \cup {NoPeer}]]
    <3>1. FreeSlot \in [conn : Handles \cup {NoHandle}, addr : Peers \cup {NoPeer}]
      BY DEF FreeSlot
    <3>2. \/ UNCHANGED connList
          \/ \E s \in Slots : connList' = [connList EXCEPT ![s] = FreeSlot]
      BY <1>13 DEF LinkTerminated, Cleared
    <3> QED
      BY <1>1, <3>1, <3>2 DEF TypeOK
  <2>2. overrun' \in BOOLEAN
    BY <1>1, <1>13 DEF TypeOK, LinkTerminated
  <2> QED
    BY <1>1, <1>3, <1>6, <1>7, <1>13, <2>1, <2>2 DEF TypeOK, LinkTerminated, Callback
<1>14. CASE EstablishTimeout
  BY <1>1, <1>14 DEF TypeOK, EstablishTimeout
<1>15. CASE AtStartScan
  BY <1>1, <1>15 DEF TypeOK, AtStartScan
<1>16. CASE AtStopScan
  BY <1>1, <1>16 DEF TypeOK, AtStopScan, stackVars
<1>17. ASSUME NEW s \in Slots, NEW p \in Peers, NEW on \in BOOLEAN, AtSetConnect(s, p, on)
       PROVE  TypeOK'
  BY <1>1, <1>17 DEF TypeOK, AtSetConnect, stackVars
<1>18. ASSUME NEW p \in Peers, AtDisconnect(p) PROVE TypeOK'
  <2>1. closing' \subseteq Handles
    BY <1>1, <1>5, <1>18 DEF TypeOK, AtDisconnect, Entries, IsFree
  <2> QED
    BY <1>1, <1>18, <2>1 DEF TypeOK, AtDisconnect, tableVars
<1>19. CASE DeviceStarts
  <2>1. gapq' \in Seq(Events)
    BY <1>4, <1>19 DEF DeviceStarts, Event, Events
  <2> QED
    BY <1>1, <1>19, <2>1 DEF TypeOK, DeviceStarts, tableVars
<1>20. ASSUME NEW p \in Peers, Hears(p) PROVE TypeOK'
  <2>1. gapq' \in Seq(Events)
    BY <1>4, <1>20 DEF Hears, Event, Events
  <2> QED
    BY <1>1, <1>20, <2>1 DEF TypeOK, Hears, tableVars
<1>21. CASE ScanEnds
  <2>1. gapq' \in Seq(Events)
    BY <1>4, <1>21 DEF ScanEnds, Event, Events
  <2> QED
    BY <1>1, <1>21, <2>1 DEF TypeOK, ScanEnds, tableVars
<1>22. ASSUME NEW p \in Peers, LinkUp(p) PROVE TypeOK'
  <2>1. gapq' \in Seq(Events) /\ links' \in [Handles -> Peers \cup {NoPeer}]
    BY <1>1, <1>4, <1>22 DEF TypeOK, LinkUp, Event, Events
  <2> QED
    BY <1>1, <1>22, <2>1 DEF TypeOK, LinkUp, tableVars
<1>23. CASE LinkCreateFails
  <2>1. gapq' \in Seq(Events)
    BY <1>4, <1>23 DEF LinkCreateFails, Event, Events
  <2> QED
    BY <1>1, <1>23, <2>1 DEF TypeOK, LinkCreateFails, tableVars
<1>24. ASSUME NEW h \in Handles, LinkDown(h) PROVE TypeOK'
  <2>1. gapq' \in Seq(Events) /\ links' \in [Handles -> Peers \cup {NoPeer}]
    BY <1>1, <1>4, <1>24 DEF TypeOK, LinkDown, Event, Events
  <2> QED
    BY <1>1, <1>24, <2>1 DEF TypeOK, LinkDown, tableVars
<1>25. CASE UNCHANGED vars
  BY <1>1, <1>25 DEF TypeOK, vars, tableVars, stackVars
<1> QED
  BY <1>8, <1>9, <1>10, <1>11, <1>12, <1>13, <1>14, <1>15, <1>16, <1>17, <1>18, <1>19,
     <1>20, <1>21, <1>22, <1>23, <1>24, <1>25 DEF Next, CentralEventCB, Host, Stack

-----------------------------------------------------------------------------
(* The table.                                                              *)

\* What the program does not know of has no entry.
LEMMA NoEntry ==
  ASSUME TypeOK, Entries, NEW v, Knows(v), NEW h \in Handles, v[h] = NoPeer
  PROVE  \A s \in Slots : connList[s].conn # h
<1> SUFFICES ASSUME NEW s \in Slots, connList[s].conn = h PROVE FALSE
  OBVIOUS
<1>1. ~IsFree(s)
  BY CentralAssumption DEF IsFree, NoHandle, Handles
<1> QED
  BY <1>1 DEF Knows, Entries

\* The first and only entry with a handle is cleared.
LEMMA EntriesStep == IInv /\ [Next]_vars => Entries'
<1> SUFFICES ASSUME IInv, [Next]_vars PROVE Entries'
  OBVIOUS
<1> USE CentralAssumption
<1>1. TypeOK /\ Entries /\ Table
  BY DEF IInv
<1>2. ASSUME UNCHANGED connList, links' = links, \A h \in closing' : links[h] # NoPeer
      PROVE  Entries'
  BY <1>1, <1>2 DEF Entries, IsFree
<1>3. ASSUME UNCHANGED <<connList, links, closing>> PROVE Entries'
  BY <1>1, <1>2, <1>3 DEF Entries
<1>4. ASSUME NEW h, TerminateLink(h) PROVE \A g \in closing' : links[g] # NoPeer
  BY <1>1, <1>4 DEF Entries, TerminateLink
<1>5. CASE DeviceInitDone
  BY <1>3, <1>5 DEF DeviceInitDone, Callback
<1>6. CASE DeviceInfo
  BY <1>3, <1>6 DEF DeviceInfo, Callback
<1>7. CASE DeviceDiscovery
  BY <1>3, <1>7 DEF DeviceDiscovery, Callback
<1>8. CASE LinkEstablished
  <2> DEFINE h == Head(gapq).conn
             p == Head(gapq).addr
  <2>1. gapq # <<>> /\ Head(gapq).kind = "up" /\ links' = links
    BY <1>8 DEF LinkEstablished, Callback
  <2>2. CASE TerminateLink(h) /\ UNCHANGED <<connList, devList, mode>>
    BY <1>2, <1>4, <2>1, <2>2
  <2>3. ASSUME NEW s \in Slots, FirstFree(s), closing' = closing,
               connList' = [connList EXCEPT ![s] = [conn |-> h, addr |-> p]]
        PROVE  Entries'
    <3>1. PICK L \in [0 .. Len(gapq) -> Links] : History(L, gapq, links) /\ Knows(L[0])
      BY <1>1 DEF Table
    <3>2. h \in Handles /\ p \in Peers /\ L[0][h] = NoPeer
      BY <1>1, <2>1, <3>1, HeadEvent DEF Turns
    <3>3. \A t \in Slots : connList[t].conn # h
      BY <1>1, <3>1, <3>2, NoEntry
    <3>4. h # NoHandle /\ p # NoPeer
      BY <3>2 DEF Handles, NoHandle
    <3>5. connList'[s].conn = h /\ connList'[s].addr = p
          /\ \A t \in Slots : t # s => connList'[t] = connList[t]
      BY <1>1, <2>3 DEF TypeOK
    <3> QED
      BY <1>1, <2>1, <2>3, <3>3, <3>4, <3>5 DEF Entries, IsFree
  <2> QED
    BY <1>8, <2>2, <2>3, UpCases
<1>9. CASE LinkFailed
  BY <1>3, <1>9 DEF LinkFailed, Callback
<1>10. CASE LinkTerminated
  <2>1. links' = links /\ closing' = closing
    BY <1>10 DEF LinkTerminated, Callback
  <2>2. CASE UNCHANGED connList
    BY <1>3, <2>1, <2>2
  <2>3. ASSUME NEW s \in Slots, connList' = [connList EXCEPT ![s] = FreeSlot] PROVE Entries'
    <3>1. connList'[s] = FreeSlot /\ \A t \in Slots : t # s => connList'[t] = connList[t]
      BY <1>1, <2>3 DEF TypeOK
    <3> QED
      BY <1>1, <2>1, <3>1 DEF Entries, IsFree, FreeSlot
  <2> QED
    BY <1>10, <2>2, <2>3 DEF LinkTerminated, Cleared
<1>11. CASE EstablishTimeout
  BY <1>1, <1>2, <1>11 DEF Entries, EstablishTimeout
<1>12. CASE AtStartScan
  BY <1>3, <1>12 DEF AtStartScan
<1>13. CASE AtStopScan
  BY <1>3, <1>13 DEF AtStopScan, stackVars
<1>14. ASSUME NEW s \in Slots, NEW p \in Peers, NEW on \in BOOLEAN, AtSetConnect(s, p, on)
       PROVE  Entries'
  BY <1>3, <1>14 DEF AtSetConnect, stackVars
<1>15. ASSUME NEW p \in Peers, AtDisconnect(p) PROVE Entries'
  BY <1>2, <1>4, <1>15 DEF AtDisconnect, tableVars
<1>16. CASE DeviceStarts
  BY <1>3, <1>16 DEF DeviceStarts, tableVars
<1>17. ASSUME NEW p \in Peers, Hears(p) PROVE Entries'
  BY <1>3, <1>17 DEF Hears, tableVars
<1>18. CASE ScanEnds
  BY <1>3, <1>18 DEF ScanEnds, tableVars
<1>19. ASSUME NEW p \in Peers, LinkUp(p) PROVE Entries'
  <2>1. PICK h \in Handles : links[h] = NoPeer /\ links' = [links EXCEPT ![h] = p]
    BY <1>19 DEF LinkUp
  <2>2. connList' = connList /\ closing' = closing
    BY <1>19 DEF LinkUp, tableVars
  <2> QED
    BY <1>1, <2>1, <2>2 DEF TypeOK, Entries, IsFree
<1>20. CASE LinkCreateFails
  BY <1>3, <1>20 DEF LinkCreateFails, tableVars
<1>21. ASSUME NEW h \in Handles, LinkDown(h) PROVE Entries'
  <2>1. links' = [links EXCEPT ![h] = NoPeer] /\ closing' = closing \ {h} /\ connList' = connList
    BY <1>21 DEF LinkDown, tableVars
  <2> QED
    BY <1>1, <2>1 DEF TypeOK, Entries, IsFree
<1>22. CASE UNCHANGED vars
  BY <1>3, <1>22 DEF vars, tableVars, stackVars
<1> QED
  BY <1>5, <1>6, <1>7, <1>8, <1>9, <1>10, <1>11, <1>12, <1>13, <1>14, <1>15, <1>16, <1>17,
     <1>18, <1>19, <1>20, <1>21, <1>22 DEF Next, CentralEventCB, Host, Stack

\* What the stack queues for a link that comes up and for one that goes down.
LEMMA UpTurns ==
  ASSUME TypeOK, links \in Links, OneEach(links), NEW p \in Peers, LinkUp(p)
  PROVE  \E e \in Events :
           Queue(e) /\ links' \in Links /\ Turns(e, links, links') /\ OneEach(links')
<1>1. PICK h \in Handles : /\ links[h] = NoPeer /\ links' = [links EXCEPT ![h] = p]
                           /\ Queue(Event("up", h, p))
  BY DEF LinkUp
<1>2. \A g \in Handles : links[g] # p
  BY DEF LinkUp, Linked
<1>3. Event("up", h, p) \in Events /\ Turns(Event("up", h, p), links, links')
  BY <1>1 DEF Event, Events, Turns
<1>4. links'[h] = p /\ \A g \in Handles : g # h => links'[g] = links[g]
  BY <1>1 DEF Links
<1>5. links' \in Links /\ OneEach(links')
  BY <1>1, <1>2, <1>4 DEF Links, OneEach
<1> QED
  BY <1>1, <1>3, <1>5

LEMMA DownTurns ==
  ASSUME TypeOK, links \in Links, OneEach(links), NEW h \in Handles, LinkDown(h)
  PROVE  \E e \in Events :
           /\ Queue(e) /\ IsDown(e, h)
           /\ links' \in Links /\ Turns(e, links, links') /\ OneEach(links')
<1> DEFINE e == Event("down", h, links[h])
<1>1. links[h] # NoPeer /\ links' = [links EXCEPT ![h] = NoPeer] /\ Queue(e)
  BY DEF LinkDown
<1>2. e \in Events /\ Turns(e, links, links') /\ IsDown(e, h)
  BY <1>1 DEF Event, Events, Turns, IsDown, Links
<1>3. links'[h] = NoPeer /\ \A g \in Handles : g # h => links'[g] = links[g]
  BY <1>1 DEF Links
<1>4. links' \in Links /\ OneEach(links')
  BY <1>1, <1>3 DEF Links, OneEach
<1> HIDE DEF e
<1> QED
  BY <1>1, <1>2, <1>4

LEMMA TableStep == IInv /\ [Next]_vars => Table'
<1> SUFFICES ASSUME IInv, [Next]_vars PROVE Table'
  OBVIOUS
<1> USE CentralAssumption
<1>1. TypeOK /\ Entries /\ Table /\ Started
  BY DEF IInv
<1>2. PICK L \in [0 .. Len(gapq) -> Links] : History(L, gapq, links) /\ Knows(L[0])
  BY <1>1 DEF Table
<1>3. links \in Links /\ OneEach(links)
  <2>1. Len(gapq) \in 0 .. Len(gapq)
    BY <1>1, LenProperties DEF TypeOK
  <2> QED
    BY <1>1, <1>2, <2>1 DEF TypeOK, Links, History
<1>4. ASSUME NEW e \in Events, ~IsLinkEvent(e), e.kind = "info" => e.addr \in Peers, Queue(e),
             UNCHANGED <<connList, links, closing>>
      PROVE  Table'
  <2>1. Turns(e, links, links')
    BY <1>4 DEF Turns, IsLinkEvent
  <2> QED
    BY <1>1, <1>3, <1>4, <2>1, TableQueues DEF Queue
<1>5. CASE DeviceInitDone
  BY <1>1, <1>5, TableSkips DEF DeviceInitDone, Callback, IsLinkEvent
<1>6. CASE DeviceInfo
  BY <1>1, <1>6, TableSkips DEF DeviceInfo, Callback, IsLinkEvent
<1>7. CASE DeviceDiscovery
  BY <1>1, <1>7, TableSkips DEF DeviceDiscovery, Callback, IsLinkEvent
<1>8. CASE LinkEstablished
  <2> DEFINE h == Head(gapq).conn
             p == Head(gapq).addr
  <2>1. gapq # <<>> /\ Head(gapq).kind = "up" /\ gapq' = Tail(gapq) /\ links' = links
    BY <1>8 DEF LinkEstablished, Callback
  <2>2. /\ h \in Handles /\ p \in Peers /\ L[0][h] = NoPeer /\ L[0] \in Links
        /\ L[1] = [L[0] EXCEPT ![h] = p]
    BY <1>1, <1>2, <2>1, HeadEvent DEF Turns
  <2>3. L[1][h] = p /\ \A g \in Handles : g # h => L[1][g] = L[0][g]
    BY <2>2 DEF Links
  <2>4. \A t \in Slots : connList[t].conn # h
    BY <1>1, <1>2, <2>2, NoEntry
  <2>5. \A g : (\E j \in 2 .. Len(gapq) : IsDown(gapq[j], g)) =>
               \E j \in 1 .. Len(gapq') : IsDown(gapq'[j], g)
    <3> SUFFICES ASSUME NEW g, NEW j \in 2 .. Len(gapq), IsDown(gapq[j], g)
                 PROVE  \E k \in 1 .. Len(gapq') : IsDown(gapq'[k], g)
      OBVIOUS
    <3>1. j - 1 \in 1 .. Len(gapq') /\ gapq'[j - 1] = gapq[j]
      BY <1>1, <1>2, <2>1, HeadEvent
    <3> QED
      BY <3>1
  <2>6. \A g : (\E j \in 1 .. Len(gapq) : IsDown(gapq[j], g)) =>
               \E j \in 2 .. Len(gapq) : IsDown(gapq[j], g)
    <3> SUFFICES ASSUME NEW g, NEW j \in 1 .. Len(gapq), IsDown(gapq[j], g) PROVE j \in 2 .. Len(gapq)
      OBVIOUS
    <3> QED
      BY <1>1, <1>2, <2>1, HeadEvent DEF IsDown
  <2>7. CASE TerminateLink(h) /\ UNCHANGED <<connList, devList, mode>>
    <3>1. closing \subseteq closing' /\ (links[h] # NoPeer => h \in closing')
      BY <2>7 DEF TerminateLink
    <3>2. \A s \in Slots : ~IsFree(s) => L[1][connList[s].conn] = connList[s].addr
      BY <1>1, <1>2, <2>3, <2>4 DEF TypeOK, Knows, IsFree
    <3>3. ASSUME NEW g \in Handles, L[1][g] # NoPeer, \A s \in Slots : connList[s].conn # g
          PROVE  g \in closing' \/ \E j \in 1 .. Len(gapq') : IsDown(gapq'[j], g)
      <4>1. CASE g # h
        BY <1>2, <2>3, <2>5, <2>6, <3>1, <3>3, <4>1 DEF Knows
      <4>2. CASE g = h /\ links[h] # NoPeer
        BY <3>1, <4>2
      <4>3. CASE g = h /\ links[h] = NoPeer
        <5>1. 1 \in 0 .. Len(gapq) /\ 1 + 1 = 2
          BY <1>1, <1>2, <2>1, HeadEvent
        <5>2. \E j \in 2 .. Len(gapq) : IsDown(gapq[j], h)
          BY <1>2, <3>3, <4>3, <5>1 DEF History, Explains
        <5> QED
          BY <2>5, <4>3, <5>2
      <4> QED
        BY <4>1, <4>2, <4>3
    <3>4. Knows(L[1])'
      BY <2>7, <3>2, <3>3 DEF Knows, IsFree
    <3> QED
      BY <1>1, <1>2, <2>1, <3>4, TableFollows
  <2>8. ASSUME NEW s \in Slots, FirstFree(s), closing' = closing,
               connList' = [connList EXCEPT ![s] = [conn |-> h, addr |-> p]]
        PROVE  Table'
    <3>1. connList'[s].conn = h /\ connList'[s].addr = p
          /\ \A t \in Slots : t # s => connList'[t] = connList[t]
      BY <1>1, <2>8 DEF TypeOK
    <3>2. \A t \in Slots : connList'[t].conn # NoHandle => L[1][connList'[t].conn] = connList'[t].addr
      <4> SUFFICES ASSUME NEW t \in Slots, connList'[t].conn # NoHandle
                   PROVE  L[1][connList'[t].conn] = connList'[t].addr
        OBVIOUS
      <4>1. CASE t = s
        BY <2>3, <3>1, <4>1
      <4>2. CASE t # s
        <5>1. connList'[t] = connList[t] /\ connList[t].conn # h /\ connList[t].conn \in Handles
          BY <1>1, <2>4, <3>1, <4>2 DEF TypeOK
        <5>2. L[0][connList[t].conn] = connList[t].addr
          BY <1>2, <5>1 DEF Knows, IsFree
        <5> QED
          BY <2>3, <5>1, <5>2
      <4> QED
        BY <4>1, <4>2
    <3>3. IsFree(s)
      BY <2>8 DEF FirstFree
    <3>4. ASSUME NEW g \in Handles, L[1][g] # NoPeer, \A t \in Slots : connList'[t].conn # g
          PROVE  g \in closing' \/ \E j \in 1 .. Len(gapq') : IsDown(gapq'[j], g)
      <4>1. g # h /\ g # NoHandle
        BY <3>1, <3>4 DEF Handles, NoHandle
      <4>2. \A t \in Slots : connList[t].conn # g
        BY <3>1, <3>3, <3>4, <4>1 DEF IsFree
      <4> QED
        BY <1>2, <2>3, <2>5, <2>6, <2>8, <3>4, <4>1, <4>2 DEF Knows
    <3>5. Knows(L[1])'
      BY <3>2, <3>4 DEF Knows, IsFree
    <3> QED
      BY <1>1, <1>2, <2>1, <3>5, TableFollows
  <2> QED
    BY <1>8, <2>7, <2>8, UpCases
<1>9. CASE LinkFailed
  BY <1>1, <1>9, TableSkips DEF LinkFailed, Callback, IsLinkEvent
<1>10. CASE LinkTerminated
  <2> DEFINE h == Head(gapq).conn
  <2>1. /\ gapq # <<>> /\ Head(gapq).kind = "down" /\ gapq' = Tail(gapq)
        /\ links' = links /\ closing' = closing
    BY <1>10 DEF LinkTerminated, Callback
  <2>2. /\ h \in Handles /\ L[0] \in Links /\ L[1] = [L[0] EXCEPT ![h] = NoPeer]
    BY <1>1, <1>2, <2>1, HeadEvent DEF Turns
  <2>3. L[1][h] = NoPeer /\ \A g \in Handles : g # h => L[1][g] = L[0][g]
    BY <2>2 DEF Links
  <2>4. \A g : g # h /\ (\E j \in 1 .. Len(gapq) : IsDown(gapq[j], g)) =>
               \E j \in 1 .. Len(gapq') : IsDown(gapq'[j], g)
    <3> SUFFICES ASSUME NEW g, g # h, NEW j \in 1 .. Len(gapq), IsDown(gapq[j], g)
                 PROVE  \E k \in 1 .. Len(gapq') : IsDown(gapq'[k], g)
      OBVIOUS
    <3>1. j # 1
      BY <1>1, <1>2, <2>1, HeadEvent DEF IsDown
    <3>2. j - 1 \in 1 .. Len(gapq') /\ gapq'[j - 1] = gapq[j]
      BY <1>1, <1>2, <2>1, <3>1, HeadEvent
    <3> QED
      BY <3>2
  <2>5. /\ \A t \in Slots : connList'[t] = connList[t] \/ connList'[t] = FreeSlot
        /\ \A t \in Slots : connList[t].conn # h => connList'[t] = connList[t]
        /\ \A t \in Slots : connList'[t].conn # h
    <3>1. CASE UNCHANGED connList /\ \A s \in Slots : connList[s].conn # h
      BY <3>1
    <3>2. ASSUME NEW s \in Slots, connList[s].conn = h,
                 connList' = [connList EXCEPT ![s] = FreeSlot]
          PROVE  /\ \A t \in Slots : connList'[t] = connList[t] \/ connList'[t] = FreeSlot
                 /\ \A t \in Slots : connList[t].conn # h => connList'[t] = connList[t]
                 /\ \A t \in Slots : connList'[t].conn # h
      <4>1. connList'[s] = FreeSlot /\ \A t \in Slots : t # s => connList'[t] = connList[t]
        BY <1>1, <3>2 DEF TypeOK
      <4>2. \A t \in Slots : t # s => connList[t].conn # h
        BY <1>1, <2>2, <3>2 DEF Entries, IsFree, Handles, NoHandle
      <4> QED
        BY <2>2, <3>2, <4>1, <4>2 DEF FreeSlot, Handles, NoHandle
    <3> QED
      BY <1>10, <3>1, <3>2 DEF LinkTerminated, Cleared, FirstWith
  <2>6. \A t \in Slots : connList'[t].conn # NoHandle => L[1][connList'[t].conn] = connList'[t].addr
    BY <1>1, <1>2, <2>3, <2>5 DEF TypeOK, Knows, IsFree, FreeSlot
  <2>7. ASSUME NEW g \in Handles, L[1][g] # NoPeer, \A t \in Slots : connList'[t].conn # g
        PROVE  g \in closing' \/ \E j \in 1 .. Len(gapq') : IsDown(gapq'[j], g)
    <3>1. g # h /\ L[0][g] # NoPeer
      BY <2>3, <2>7
    <3>2. \A t \in Slots : connList[t].conn # g
      BY <2>5, <2>7, <3>1
    <3> QED
      BY <1>2, <2>1, <2>4, <3>1, <3>2 DEF Knows
  <2>8. Knows(L[1])'
    BY <2>6, <2>7 DEF Knows, IsFree
  <2> QED
    BY <1>1, <1>2, <2>1, <2>8, TableFollows
<1>11. CASE EstablishTimeout
  <2>1. closing \subseteq closing'
    BY <1>1, <1>11 DEF TypeOK, Entries, EstablishTimeout
  <2> QED
    BY <1>1, <1>11, <2>1, TableKeeps DEF EstablishTimeout
<1>12. CASE AtStartScan
  BY <1>1, <1>12, TableKeeps DEF AtStartScan
<1>13. CASE AtStopScan
  BY <1>1, <1>13, TableKeeps DEF AtStopScan, stackVars
<1>14. ASSUME NEW s \in Slots, NEW p \in Peers, NEW on \in BOOLEAN, AtSetConnect(s, p, on)
       PROVE  Table'
  BY <1>1, <1>14, TableKeeps DEF AtSetConnect, stackVars
<1>15. ASSUME NEW p \in Peers, AtDisconnect(p) PROVE Table'
  <2>1. closing \subseteq closing'
    BY <1>15 DEF AtDisconnect, TerminateLink
  <2> QED
    BY <1>1, <1>15, <2>1, TableKeeps DEF AtDisconnect, tableVars
<1>16. CASE DeviceStarts
  BY <1>4, <1>16 DEF DeviceStarts, tableVars, Event, Events, IsLinkEvent
<1>17. ASSUME NEW p \in Peers, Hears(p) PROVE Table'
  BY <1>4, <1>17 DEF Hears, tableVars, Event, Events, IsLinkEvent
<1>18. CASE ScanEnds
  BY <1>4, <1>18 DEF ScanEnds, tableVars, Event, Events, IsLinkEvent
<1>19. ASSUME NEW p \in Peers, LinkUp(p) PROVE Table'
  <2>1. connList' = connList /\ closing' = closing
    BY <1>19 DEF LinkUp, tableVars
  <2> QED
    BY <1>1, <1>3, <1>19, <2>1, UpTurns, TableQueues DEF Queue
<1>20. CASE LinkCreateFails
  BY <1>4, <1>20 DEF LinkCreateFails, tableVars, Event, Events, IsLinkEvent
<1>21. ASSUME NEW h \in Handles, LinkDown(h) PROVE Table'
  <2>1. closing' = closing \ {h} /\ connList' = connList
    BY <1>21 DEF LinkDown, tableVars
  <2>2. PICK e \in Events : /\ Queue(e) /\ IsDown(e, h)
                            /\ links' \in Links /\ Turns(e, links, links') /\ OneEach(links')
    BY <1>1, <1>3, <1>21, DownTurns
  <2>3. \A g \in closing : g \in closing' \/ IsDown(e, g)
    BY <2>1, <2>2
  <2> QED
    BY <1>1, <2>1, <2>2, <2>3, TableQueues DEF Queue
<1>22. CASE UNCHANGED vars
  BY <1>1, <1>22, TableKeeps DEF vars, tableVars, stackVars
<1> QED
  BY <1>5, <1>6, <1>7, <1>8, <1>9, <1>10, <1>11, <1>12, <1>13, <1>14, <1>15, <1>16, <1>17,
     <1>18, <1>19, <1>20, <1>21, <1>22 DEF Next, CentralEventCB, Host, Stack

-----------------------------------------------------------------------------
(* Scanning.                                                               *)

LEMMA StartedStep == IInv /\ [Next]_vars => Started'
<1> SUFFICES ASSUME IInv, [Next]_vars PROVE Started'
  OBVIOUS
<1>1. TypeOK /\ Started
  BY DEF IInv
<1>2. ASSUME mode' = mode, target' = target, gapq' = gapq, links' = links,
             mode # "off" \/ ~scanEnabled'
      PROVE  Started'
  BY <1>1, <1>2 DEF Started
<1>3. ASSUME mode # "off", mode' \in {"idle", "scan"} \/ (mode' = mode /\ target' = target)
      PROVE  Started'
  BY <1>1, <1>3 DEF Started
<1>4. ASSUME NEW k, Callback(k) PROVE mode # "off"
  BY <1>1, <1>4 DEF Started, Callback
<1>5. ASSUME mode # "off", Rescan, target' = target PROVE Started'
  <2>1. mode' = "scan" \/ mode' = mode
    BY <1>5 DEF Rescan, Scans
  <2> QED
    BY <1>3, <1>5, <2>1
<1>6. CASE DeviceInitDone
  BY <1>4, <1>5, <1>6 DEF DeviceInitDone
<1>7. CASE DeviceInfo
  BY <1>3, <1>4, <1>7 DEF DeviceInfo
<1>8. CASE DeviceDiscovery
  <2>1. \A i \in 1 .. Len(devList) : devList[i] \in Peers
    BY <1>1, ElementOfSeq DEF TypeOK
  <2>2. mode # "off"
    BY <1>4, <1>8 DEF DeviceDiscovery
  <2>3. CASE Rescan /\ target' = target
    BY <1>5, <2>2, <2>3
  <2>4. ASSUME NEW i \in 1 .. Len(devList), EstablishLink(devList[i]) PROVE Started'
    BY <1>1, <2>1, <2>2, <2>4 DEF Started, EstablishLink
  <2> QED
    BY <1>8, <2>3, <2>4 DEF DeviceDiscovery
<1>9. CASE LinkEstablished
  BY <1>3, <1>4, <1>5, <1>9, UpCases DEF LinkEstablished
<1>10. CASE LinkFailed
  BY <1>4, <1>5, <1>10 DEF LinkFailed
<1>11. CASE LinkTerminated
  BY <1>4, <1>5, <1>11 DEF LinkTerminated
<1>12. CASE EstablishTimeout
  BY <1>1, <1>12 DEF Started, EstablishTimeout
<1>13. CASE AtStartScan
  BY <1>3, <1>13 DEF AtStartScan
<1>14. CASE AtStopScan
  BY <1>2, <1>14 DEF AtStopScan, stackVars
<1>15. ASSUME NEW s \in Slots, NEW p \in Peers, NEW on \in BOOLEAN, AtSetConnect(s, p, on)
       PROVE  Started'
  BY <1>1, <1>15 DEF Started, AtSetConnect, stackVars
<1>16. ASSUME NEW p \in Peers, AtDisconnect(p) PROVE Started'
  BY <1>1, <1>16 DEF Started, AtDisconnect, tableVars
<1>17. CASE DeviceStarts
  BY <1>17 DEF Started, DeviceStarts
<1>18. ASSUME NEW p \in Peers, Hears(p) PROVE Started'
  BY <1>3, <1>18 DEF Hears
<1>19. CASE ScanEnds
  BY <1>3, <1>19 DEF ScanEnds
<1>20. ASSUME NEW p \in Peers, LinkUp(p) PROVE Started'
  BY <1>3, <1>20 DEF LinkUp
<1>21. CASE LinkCreateFails
  BY <1>3, <1>21 DEF LinkCreateFails
<1>22. ASSUME NEW h \in Handles, LinkDown(h) PROVE Started'
  <2>1. mode # "off"
    BY <1>1, <1>22 DEF Started, LinkDown
  <2> QED
    BY <1>3, <1>22, <2>1 DEF LinkDown, tableVars
<1>23. CASE UNCHANGED vars
  BY <1>1, <1>23 DEF Started, vars, tableVars, stackVars
<1> QED
  BY <1>6, <1>7, <1>8, <1>9, <1>10, <1>11, <1>12, <1>13, <1>14, <1>15, <1>16, <1>17, <1>18,
     <1>19, <1>20, <1>21, <1>22, <1>23 DEF Next, CentralEventCB, Host, Stack

\* When no link can be made although an entry is free, some link without an
\* entry is on its way to the program or away.
LEMMA LinkWithoutEntry ==
  ASSUME IInv, NEW s \in Slots, IsFree(s), \A h \in Handles : links[h] # NoPeer
  PROVE  closing # {} \/ \E j \in 1 .. Len(gapq) : IsLinkEvent(gapq[j])
<1>1. TypeOK /\ Entries /\ Table
  BY DEF IInv
<1>2. PICK L \in [0 .. Len(gapq) -> Links] : History(L, gapq, links) /\ Knows(L[0])
  BY <1>1 DEF Table
<1>3. PICK h \in Handles : \A t \in Slots : connList[t].conn # h
  BY <1>1, HandleLeft
<1>4. 0 \in 0 .. Len(gapq) /\ 0 + 1 = 1
  BY <1>1, LenProperties DEF TypeOK
<1>5. CASE L[0][h] # NoPeer
  <2>1. h \in closing \/ \E j \in 1 .. Len(gapq) : IsDown(gapq[j], h)
    BY <1>2, <1>3, <1>5 DEF Knows
  <2> QED
    BY <2>1 DEF IsDown, IsLinkEvent
<1>6. CASE L[0][h] = NoPeer
  BY <1>2, <1>4, <1>6 DEF History, Explains
<1> QED
  BY <1>5, <1>6

LEMMA ScanningStep == IInv /\ [Next]_vars => Scanning'
<1> SUFFICES ASSUME IInv, [Next]_vars, scanEnabled', NEW s \in Slots, IsFree(s)'
             PROVE  \/ mode' \in {"scan", "init"} \/ closing' # {}
                    \/ \E j \in 1 .. Len(gapq') : gapq'[j].kind # "info"
  BY DEF Scanning
<1> DEFINE Under == \/ mode' \in {"scan", "init"} \/ closing' # {}
                    \/ \E j \in 1 .. Len(gapq') : gapq'[j].kind # "info"
<1> SUFFICES Under
  OBVIOUS
<1>1. TypeOK /\ Entries /\ Table /\ Started /\ Scanning
  BY DEF IInv
<1>2. ASSUME scanEnabled' = scanEnabled, mode # "off", Rescan PROVE Under
  BY <1>1, <1>2 DEF TypeOK, Rescan, Scans
<1>3. ASSUME NEW k, Callback(k)
      PROVE  /\ scanEnabled' = scanEnabled /\ mode # "off" /\ links' = links
             /\ gapq # <<>> /\ gapq' = Tail(gapq) /\ Head(gapq).kind = k
  BY <1>1, <1>3 DEF Started, Callback
<1>4. ASSUME NEW e \in Events, Queue(e), e.kind # "info" PROVE Under
  <2>1. Len(gapq) + 1 \in 1 .. Len(gapq') /\ gapq'[Len(gapq) + 1] = e
    BY <1>1, <1>4, AppendProperties, LenProperties DEF TypeOK, Queue
  <2> QED
    BY <1>4, <2>1
<1>5. ASSUME scanEnabled' = scanEnabled, connList' = connList, mode' = mode, gapq' = gapq,
             closing \subseteq closing'
      PROVE  Under
  BY <1>1, <1>5 DEF Scanning, IsFree
<1>6. ASSUME gapq # <<>>, gapq' = Tail(gapq),
             NEW j \in 1 .. Len(gapq), gapq[j].kind # "info", j # 1
      PROVE  Under
  <2>1. PICK L : History(L, gapq, links)
    BY <1>1 DEF Table
  <2>2. j - 1 \in 1 .. Len(gapq') /\ gapq'[j - 1] = gapq[j]
    BY <1>1, <1>6, <2>1, HeadEvent
  <2> QED
    BY <1>6, <2>2
<1>7. CASE DeviceInitDone
  BY <1>2, <1>3, <1>7 DEF DeviceInitDone
<1>8. CASE DeviceInfo
  <2>1. /\ gapq # <<>> /\ gapq' = Tail(gapq) /\ Head(gapq).kind = "info"
        /\ scanEnabled' = scanEnabled /\ connList' = connList /\ mode' = mode /\ closing' = closing
    BY <1>3, <1>8 DEF DeviceInfo
  <2>2. CASE \E j \in 1 .. Len(gapq) : gapq[j].kind # "info"
    <3>1. PICK j \in 1 .. Len(gapq) : gapq[j].kind # "info"
      BY <2>2
    <3>2. PICK L : History(L, gapq, links)
      BY <1>1 DEF Table
    <3>3. j # 1
      BY <1>1, <2>1, <3>1, <3>2, HeadEvent
    <3> QED
      BY <1>6, <2>1, <3>1, <3>3
  <2>3. CASE ~ \E j \in 1 .. Len(gapq) : gapq[j].kind # "info"
    BY <1>1, <2>1, <2>3 DEF Scanning, IsFree
  <2> QED
    BY <2>2, <2>3
<1>9. CASE DeviceDiscovery
  <2>1. /\ gapq # <<>> /\ gapq' = Tail(gapq) /\ Head(gapq).kind = "done"
        /\ scanEnabled' = scanEnabled /\ mode # "off"
        /\ connList' = connList /\ closing' = closing
    BY <1>3, <1>9 DEF DeviceDiscovery
  <2>2. CASE Rescan
    BY <1>2, <2>1, <2>2
  <2>3. ASSUME NEW i \in 1 .. Len(devList), EstablishLink(devList[i]) PROVE Under
    <3>1. CASE mode = "idle" /\ \E h \in Handles : links[h] = NoPeer
      BY <2>3, <3>1 DEF EstablishLink
    <3>2. CASE mode # "idle"
      BY <1>1, <2>1, <2>3, <3>2 DEF TypeOK, EstablishLink
    <3>3. CASE \A h \in Handles : links[h] # NoPeer
      <4>1. IsFree(s)
        BY <2>1 DEF IsFree
      <4>2. CASE closing # {}
        BY <2>1, <4>2
      <4>3. ASSUME NEW j \in 1 .. Len(gapq), IsLinkEvent(gapq[j]) PROVE Under
        <5>1. PICK L : History(L, gapq, links)
          BY <1>1 DEF Table
        <5>2. j # 1 /\ gapq[j].kind # "info"
          BY <1>1, <2>1, <4>3, <5>1, HeadEvent DEF IsLinkEvent
        <5> QED
          BY <1>6, <2>1, <5>2
      <4> QED
        BY <3>3, <4>1, <4>2, <4>3, LinkWithoutEntry
    <3> QED
      BY <3>1, <3>2, <3>3
  <2> QED
    BY <1>9, <2>2, <2>3 DEF DeviceDiscovery
<1>10. CASE LinkEstablished
  <2> DEFINE h == Head(gapq).conn
  <2>1. /\ gapq # <<>> /\ gapq' = Tail(gapq) /\ Head(gapq).kind = "up"
        /\ scanEnabled' = scanEnabled /\ mode # "off"
    BY <1>3, <1>10 DEF LinkEstablished
  <2>2. CASE TerminateLink(h)
    <3>1. PICK L \in [0 .. Len(gapq) -> Links] : History(L, gapq, links)
      BY <1>1 DEF Table
    <3>2. h \in Handles /\ L[1][h] # NoPeer
      <4>1. h \in Handles /\ Head(gapq).addr # NoPeer /\ L[0] \in Links
            /\ L[1] = [L[0] EXCEPT ![h] = Head(gapq).addr]
        BY <1>1, <2>1, <3>1, HeadEvent, CentralAssumption DEF Turns
      <4> QED
        BY <4>1 DEF Links
    <3>3. CASE links[h] # NoPeer
      BY <2>2, <3>3 DEF TerminateLink
    <3>4. CASE links[h] = NoPeer
      <4>1. 1 \in 0 .. Len(gapq) /\ 1 + 1 = 2
        BY <1>1, <2>1, <3>1, HeadEvent
      <4>2. PICK j \in 2 .. Len(gapq) : IsDown(gapq[j], h)
        BY <3>1, <3>2, <3>4, <4>1 DEF History, Explains
      <4>3. j \in 1 .. Len(gapq) /\ j # 1 /\ gapq[j].kind # "info"
        BY <4>2 DEF IsDown
      <4> QED
        BY <1>6, <2>1, <4>3
    <3> QED
      BY <3>3, <3>4
  <2>3. CASE Rescan
    BY <1>2, <2>1, <2>3
  <2>4. CASE \A t \in Slots : connList'[t].conn # NoHandle
    BY <2>4 DEF IsFree
  <2> QED
    BY <1>10, <2>2, <2>3, <2>4, UpCases
<1>11. CASE LinkFailed
  BY <1>2, <1>3, <1>11 DEF LinkFailed
<1>12. CASE LinkTerminated
  BY <1>2, <1>3, <1>12 DEF LinkTerminated
<1>13. CASE EstablishTimeout
  <2>1. closing \subseteq closing'
    BY <1>1, <1>13 DEF TypeOK, Entries, EstablishTimeout
  <2> QED
    BY <1>5, <1>13, <2>1 DEF EstablishTimeout
<1>14. CASE AtStartScan
  BY <1>14 DEF AtStartScan
<1>15. CASE AtStopScan
  BY <1>15 DEF AtStopScan
<1>16. ASSUME NEW t \in Slots, NEW p \in Peers, NEW on \in BOOLEAN, AtSetConnect(t, p, on)
       PROVE  Under
  BY <1>5, <1>16 DEF AtSetConnect, stackVars
<1>17. ASSUME NEW p \in Peers, AtDisconnect(p) PROVE Under
  <2>1. closing \subseteq closing'
    BY <1>17 DEF AtDisconnect, TerminateLink
  <2> QED
    BY <1>5, <1>17, <2>1 DEF AtDisconnect, tableVars
<1>18. CASE DeviceStarts
  BY <1>4, <1>18 DEF DeviceStarts, Event, Events
<1>19. ASSUME NEW p \in Peers, Hears(p) PROVE Under
  BY <1>19 DEF Hears
<1>20. CASE ScanEnds
  BY <1>4, <1>20 DEF ScanEnds, Event, Events
<1>21. ASSUME NEW p \in Peers, LinkUp(p) PROVE Under
  BY <1>4, <1>21 DEF LinkUp, Event, Events
<1>22. CASE LinkCreateFails
  BY <1>4, <1>22 DEF LinkCreateFails, Event, Events
<1>23. ASSUME NEW h \in Handles, LinkDown(h) PROVE Under
  <2>1. Event("down", h, links[h]) \in Events
    BY <1>1 DEF TypeOK, Event, Events
  <2> QED
    BY <1>4, <1>23, <2>1 DEF LinkDown, Event
<1>24. CASE UNCHANGED vars
  BY <1>5, <1>24 DEF vars, tableVars, stackVars
<1> HIDE DEF Under
<1> QED
  BY <1>7, <1>8, <1>9, <1>10, <1>11, <1>12, <1>13, <1>14, <1>15, <1>16, <1>17, <1>18,
     <1>19, <1>20, <1>21, <1>22, <1>23, <1>24 DEF Next, CentralEventCB, Host, Stack

-----------------------------------------------------------------------------
(* The theorems.                                                           *)

LEMMA Inductive == Spec => []IInv
<1>1. IInv /\ [Next]_vars => IInv'
  BY TypeStep, EntriesStep, TableStep, StartedStep, ScanningStep DEF IInv
<1> QED
  BY InitOK, <1>1, PTL DEF Spec

\* Every variable of the table and of the stack's role layer keeps its type,
\* past every order of callbacks, commands and losses: the scan list stays
\* within DEFAULT_MAX_SCAN_RES, and every entry names a handle and an address.
THEOREM TypeCorrect == Spec => []TypeOK
  BY Inductive, PTL DEF IInv

\* No two entries of centralConnList share a handle or an address, however
\* often the stack has reused a handle: the look-ups of centralEventCB and
\* at_cmd.c, which take the first match, take the right one.
THEOREM NoDoubleEntry == Spec => []EntriesDistinct
<1>1. IInv => EntriesDistinct
  <2> SUFFICES ASSUME IInv, NEW s \in Slots, NEW t \in Slots, s # t, ~IsFree(s), ~IsFree(t)
               PROVE  connList[s].conn # connList[t].conn /\ connList[s].addr # connList[t].addr
    BY DEF EntriesDistinct
  <2>1. TypeOK /\ Entries /\ Table
    BY DEF IInv
  <2>2. PICK L \in [0 .. Len(gapq) -> Links] : History(L, gapq, links) /\ Knows(L[0])
    BY <2>1 DEF Table
  <2>3. 0 \in 0 .. Len(gapq)
    BY <2>1, LenProperties DEF TypeOK
  <2>4. OneEach(L[0])
    BY <2>2, <2>3 DEF History
  <2>5. connList[s].conn # connList[t].conn
    BY <2>1 DEF Entries
  <2>6. connList[s].conn \in Handles /\ connList[t].conn \in Handles
    BY <2>1 DEF TypeOK, IsFree
  <2> QED
    BY <2>1, <2>2, <2>4, <2>5, <2>6 DEF Knows, OneEach, Entries
<1> QED
  BY Inductive, <1>1, PTL

LEMMA RoomInvariant == IInv => EntryForLink
<1> SUFFICES ASSUME IInv, gapq # <<>>, Head(gapq).kind = "up" PROVE \E s \in Slots : IsFree(s)
  BY DEF EntryForLink
<1>1. TypeOK /\ Entries /\ Table
  BY DEF IInv
<1>2. PICK L \in [0 .. Len(gapq) -> Links] : History(L, gapq, links) /\ Knows(L[0])
  BY <1>1 DEF Table
<1>3. Head(gapq).conn \in Handles /\ L[0][Head(gapq).conn] = NoPeer
  BY <1>1, <1>2, HeadEvent DEF Turns
<1>4. \A s \in Slots : connList[s].conn # Head(gapq).conn
  BY <1>1, <1>2, <1>3, NoEntry
<1> QED
  BY <1>1, <1>3, <1>4, SlotLeft

\* When the callback for an established link is made there is a free entry in
\* centralConnList: "connection max" can only be reached for the peer's sake.
THEOREM RoomForLink == Spec => []EntryForLink
  BY Inductive, RoomInvariant, PTL

\* The table lags behind the stack by the queued events and by nothing else:
\* once they are handled, its entries are the live links, but for those the
\* program has asked the stack to terminate.
THEOREM TableIsLinks == Spec => []TableMatchesLinks
<1>1. IInv => TableMatchesLinks
  <2> DEFINE used == {connList[s] : s \in {t \in Slots : ~IsFree(t)}}
             live == {h \in Handles : links[h] # NoPeer}
  <2> SUFFICES ASSUME IInv, \A i \in 1 .. Len(gapq) : gapq[i].kind \notin {"up", "down"}
               PROVE  /\ used \subseteq {[conn |-> h, addr |-> links[h]] : h \in live}
                      /\ \A h \in live \ closing : \E e \in used : e.conn = h
    BY DEF TableMatchesLinks
  <2>1. TypeOK /\ Entries /\ Table
    BY DEF IInv
  <2>2. PICK L \in [0 .. Len(gapq) -> Links] : History(L, gapq, links) /\ Knows(L[0])
    BY <2>1 DEF Table
  <2>3. 0 \in 0 .. Len(gapq) /\ 0 + 1 = 1
    BY <2>1, LenProperties DEF TypeOK
  <2>4. \A h \in Handles : L[0][h] = links[h]
    BY <2>2, <2>3 DEF History, Explains, IsLinkEvent
  <2>5. ASSUME NEW s \in Slots, ~IsFree(s)
        PROVE  connList[s] \in {[conn |-> h, addr |-> links[h]] : h \in live}
    <3> DEFINE h == connList[s].conn
    <3>1. h \in Handles /\ connList[s] = [conn |-> h, addr |-> connList[s].addr]
      BY <2>1, <2>5 DEF TypeOK, IsFree
    <3>2. links[h] = connList[s].addr /\ connList[s].addr # NoPeer
      BY <2>1, <2>2, <2>4, <2>5, <3>1 DEF Knows, Entries
    <3> QED
      BY <3>1, <3>2
  <2>6. ASSUME NEW h \in live \ closing PROVE \E e \in used : e.conn = h
    <3>1. PICK s \in Slots : connList[s].conn = h
      BY <2>2, <2>4, <2>6 DEF Knows, IsDown
    <3>2. ~IsFree(s)
      BY <3>1 DEF IsFree, Handles, NoHandle
    <3> QED
      BY <3>1, <3>2
  <2> QED
    BY <2>5, <2>6
<1> QED
  BY Inductive, <1>1, PTL

\* With scanning enabled and an entry free, the stack is scanning or creating a
\* link, or an event is queued or due: none of the five places that restart the
\* scan by hand is missing one.
THEOREM NeverStopsScanning == Spec => []ScanAlive
<1>1. IInv => ScanAlive
  <2> SUFFICES ASSUME IInv, scanEnabled, \E s \in Slots : IsFree(s), gapq = <<>>
               PROVE  mode \in {"scan", "init"} \/ closing # {}
    BY DEF ScanAlive
  <2>1. Len(gapq) = 0
    BY EmptySeq
  <2> QED
    BY <2>1 DEF IInv, Scanning
<1> QED
  BY Inductive, <1>1, PTL

-----------------------------------------------------------------------------
(* Every link has an entry, if no wanted peer is unlisted.                 *)

HasEntry(h) == \E s \in Slots : connList[s].conn = h

\* Every link the program knows has an entry.
AllKnown ==
  \E L \in [0 .. Len(gapq) -> Links] :
    History(L, gapq, links) /\ \A h \in Handles : L[0][h] # NoPeer => HasEntry(h)

\* Links are made to wanted peers only, and are still wanted when they are up.
AllWanted ==
  /\ mode = "init" => Wanted(target)
  /\ \A i \in 1 .. Len(gapq) : gapq[i].kind = "up" => Wanted(gapq[i].addr)

EInv == ~overrun /\ AllKnown /\ AllWanted

LEMMA AllKnownQueues ==
  ASSUME TypeOK, AllKnown, NEW e \in Events, gapq' = Append(gapq, e),
         links' \in Links, Turns(e, links, links'), OneEach(links'), connList' = connList
  PROVE  AllKnown'
<1>1. PICK L \in [0 .. Len(gapq) -> Links] :
        History(L, gapq, links) /\ \A h \in Handles : L[0][h] # NoPeer => HasEntry(h)
  BY DEF AllKnown
<1> DEFINE M == [i \in 0 .. Len(gapq) + 1 |-> IF i <= Len(gapq) THEN L[i] ELSE links']
<1>2. gapq \in Seq(Events)
  BY DEF TypeOK
<1>3. M \in [0 .. Len(gapq') -> Links] /\ M[0] = L[0] /\ History(M, gapq', links')
  BY <1>1, <1>2, HistoryGrows
<1> HIDE DEF M
<1>4. \A h \in Handles : M[0][h] # NoPeer => HasEntry(h)'
  BY <1>1, <1>3 DEF HasEntry
<1> QED
  BY <1>3, <1>4 DEF AllKnown

LEMMA AllKnownKeeps ==
  ASSUME AllKnown, gapq' = gapq, links' = links, connList' = connList
  PROVE  AllKnown'
BY DEF AllKnown, HasEntry

LEMMA AllKnownFollows ==
  ASSUME TypeOK, gapq # <<>>, gapq' = Tail(gapq), links' = links,
         NEW L, History(L, gapq, links), \A h \in Handles : L[1][h] # NoPeer => HasEntry(h)'
  PROVE  AllKnown'
<1> DEFINE M == [i \in 0 .. Len(gapq) - 1 |-> L[i + 1]]
<1>1. gapq \in Seq(Events)
  BY DEF TypeOK
<1>2. M \in [0 .. Len(gapq') -> Links] /\ M[0] = L[1] /\ History(M, gapq', links')
  BY <1>1, HistoryShrinks
<1> HIDE DEF M
<1> QED
  BY <1>2 DEF AllKnown

LEMMA AllKnownSkips ==
  ASSUME TypeOK, AllKnown, gapq # <<>>, gapq' = Tail(gapq), links' = links,
         connList' = connList, ~IsLinkEvent(Head(gapq))
  PROVE  AllKnown'
<1>1. PICK L \in [0 .. Len(gapq) -> Links] :
        History(L, gapq, links) /\ \A h \in Handles : L[0][h] # NoPeer => HasEntry(h)
  BY DEF AllKnown
<1>2. L[1] = L[0]
  BY <1>1, HeadEvent DEF Turns, IsLinkEvent
<1>3. \A h \in Handles : L[1][h] # NoPeer => HasEntry(h)'
  BY <1>1, <1>2 DEF HasEntry
<1> QED
  BY <1>1, <1>3, AllKnownFollows

\* A wanted peer stays wanted.
LEMMA WantedStays ==
  ASSUME ~Unlists, TypeOK, [Next]_vars, NEW p, Wanted(p)
  PROVE  Wanted(p)'
<1>1. PICK s \in Slots : peerDef[s].enabled /\ peerDef[s].addr = p
  BY DEF Wanted
<1>2. peerDef'[s] = peerDef[s]
  <2>1. ASSUME NEW t \in Slots, NEW q \in Peers, NEW on \in BOOLEAN, AtSetConnect(t, q, on)
        PROVE  peerDef'[s] = peerDef[s]
    <3>1. t # s
      BY <1>1, <2>1 DEF AtSetConnect
    <3> QED
      BY <2>1, <3>1 DEF AtSetConnect, TypeOK
  <2>2. CASE peerDef' = peerDef
    BY <2>2
  <2>3. CentralEventCB \/ EstablishTimeout \/ Stack \/ UNCHANGED vars => peerDef' = peerDef
    BY DEF CentralEventCB, DeviceInitDone, DeviceInfo, DeviceDiscovery, LinkEstablished,
           LinkFailed, LinkTerminated, Callback, EstablishTimeout, Stack, DeviceStarts,
           ScanEnds, LinkCreateFails, Hears, LinkUp, LinkDown, vars, tableVars
  <2>4. AtStartScan \/ AtStopScan \/ (\E q \in Peers : AtDisconnect(q)) => peerDef' = peerDef
    BY DEF AtStartScan, AtStopScan, AtDisconnect, tableVars
  <2> QED
    BY <2>1, <2>2, <2>3, <2>4 DEF Next, Host
<1> QED
  BY <1>1, <1>2 DEF Wanted

LEMMA WantedStep ==
  ASSUME ~Unlists, IInv, AllWanted, [Next]_vars
  PROVE  AllWanted'
<1>1. TypeOK /\ gapq \in Seq(Events)
  BY DEF IInv, TypeOK
<1>2. \A p : Wanted(p) => Wanted(p)'
  BY <1>1, WantedStays
<1>3. ASSUME mode' = "init" PROVE Wanted(target)'
  <2>1. CASE mode = "init" /\ target' = target
    BY <1>2, <2>1 DEF AllWanted, Wanted
  <2>2. CASE DeviceDiscovery
    <3>1. CASE Rescan /\ target' = target
      BY <1>3, <2>1, <3>1 DEF Rescan, Scans
    <3>2. ASSUME NEW p, Wanted(p), EstablishLink(p) PROVE Wanted(target)'
      <4>1. CASE target' = p
        BY <1>2, <3>2, <4>1 DEF Wanted
      <4>2. CASE mode' = mode /\ target' = target
        BY <1>3, <2>1, <4>2
      <4> QED
        BY <3>2, <4>1, <4>2 DEF EstablishLink
    <3> QED
      BY <2>2, <3>1, <3>2 DEF DeviceDiscovery
  <2>3. ASSUME Rescan \/ mode' = mode, target' = target PROVE Wanted(target)'
    <3>1. mode = "init"
      BY <1>3, <2>3 DEF Rescan, Scans
    <3> QED
      BY <2>1, <2>3, <3>1
  <2>4. DeviceInitDone \/ DeviceInfo \/ LinkFailed \/ LinkTerminated =>
          (Rescan \/ mode' = mode) /\ target' = target
    BY DEF DeviceInitDone, DeviceInfo, LinkFailed, LinkTerminated
  <2>5. LinkEstablished => (Rescan \/ mode' = mode) /\ target' = target
    <3> SUFFICES ASSUME LinkEstablished PROVE (Rescan \/ mode' = mode) /\ target' = target
      OBVIOUS
    <3>1. target' = target
      BY DEF LinkEstablished
    <3> QED
      BY <3>1, UpCases
  <2>6. EstablishTimeout \/ (\E s \in Slots, p \in Peers, on \in BOOLEAN : AtSetConnect(s, p, on))
          \/ AtStopScan \/ (\E p \in Peers : AtDisconnect(p)) \/ (\E p \in Peers : Hears(p))
          \/ (\E h \in Handles : LinkDown(h)) \/ UNCHANGED vars =>
            mode' = mode /\ target' = target
    BY DEF EstablishTimeout, AtSetConnect, AtStopScan, AtDisconnect, Hears, LinkDown, vars, stackVars
  <2>7. ~AtStartScan /\ ~DeviceStarts /\ ~ScanEnds /\ ~LinkCreateFails
          /\ ~(\E p \in Peers : LinkUp(p))
    BY <1>3 DEF AtStartScan, DeviceStarts, ScanEnds, LinkCreateFails, LinkUp
  <2> QED
    BY <2>2, <2>3, <2>4, <2>5, <2>6, <2>7 DEF Next, CentralEventCB, Host, Stack
<1>4. ASSUME NEW i \in 1 .. Len(gapq'), gapq'[i].kind = "up", NEW a, a = gapq'[i].addr
      PROVE  Wanted(a)'
  <2>1. CASE gapq' = gapq
    BY <1>2, <1>4, <2>1 DEF AllWanted
  <2>2. CASE gapq # <<>> /\ gapq' = Tail(gapq)
    <3>1. i + 1 \in 1 .. Len(gapq) /\ gapq'[i] = gapq[i + 1]
      BY <1>1, <1>4, <2>2, HeadTailProperties, EmptySeq, LenProperties
    <3> QED
      BY <1>2, <1>4, <3>1 DEF AllWanted
  <2>3. ASSUME NEW e \in Events, gapq' = Append(gapq, e), e.kind = "up" => Wanted(e.addr)
        PROVE  Wanted(a)'
    <3>1. (i \in 1 .. Len(gapq) /\ gapq'[i] = gapq[i]) \/ gapq'[i] = e
      BY <1>1, <1>4, <2>3, AppendProperties, LenProperties
    <3>2. Wanted(a)
      BY <1>4, <2>3, <3>1 DEF AllWanted
    <3> QED
      BY <1>2, <3>2
  <2>4. CASE CentralEventCB
    BY <2>2, <2>4 DEF CentralEventCB, DeviceInitDone, DeviceInfo, DeviceDiscovery,
                      LinkEstablished, LinkFailed, LinkTerminated, Callback
  <2>5. EstablishTimeout \/ Host \/ UNCHANGED vars => gapq' = gapq
    BY DEF EstablishTimeout, Host, AtSetConnect, AtStartScan, AtStopScan, AtDisconnect, vars, stackVars
  <2>6. ASSUME NEW e \in Events, Queue(e), e.kind # "up" PROVE Wanted(a)'
    BY <2>3, <2>6 DEF Queue
  <2>7. CASE DeviceStarts \/ ScanEnds \/ LinkCreateFails
    BY <2>6, <2>7 DEF DeviceStarts, ScanEnds, LinkCreateFails, Event, Events
  <2>8. ASSUME NEW p \in Peers, Hears(p) PROVE Wanted(a)'
    BY <2>6, <2>8 DEF Hears, Event, Events
  <2>9. ASSUME NEW p \in Peers, LinkUp(p) PROVE Wanted(a)'
    <3>1. PICK h \in Handles : Queue(Event("up", h, p))
      BY <2>9 DEF LinkUp
    <3>2. Wanted(p)
      BY <2>9 DEF LinkUp, AllWanted
    <3>3. Event("up", h, p) \in Events /\ Event("up", h, p).addr = p
      BY DEF Event, Events
    <3> QED
      BY <2>3, <3>1, <3>2, <3>3 DEF Queue
  <2>10. ASSUME NEW h \in Handles, LinkDown(h) PROVE Wanted(a)'
    <3>1. Event("down", h, links[h]) \in Events
      BY <1>1 DEF Event, Events, TypeOK
    <3>2. Event("down", h, links[h]).kind # "up" /\ Queue(Event("down", h, links[h]))
      BY <2>10 DEF LinkDown, Event
    <3> QED
      BY <2>6, <3>1, <3>2
  <2> QED
    BY <2>1, <2>4, <2>5, <2>7, <2>8, <2>9, <2>10 DEF Next, Stack
<1> QED
  BY <1>3, <1>4 DEF AllWanted, Wanted

LEMMA EntryStep ==
  ASSUME ~Unlists, IInv, EInv, [Next]_vars
  PROVE  AllKnown' /\ ~overrun'
<1> USE CentralAssumption
<1>1. TypeOK /\ Entries /\ Table /\ AllKnown /\ AllWanted /\ ~overrun
  BY DEF IInv, EInv
<1>2. PICK L \in [0 .. Len(gapq) -> Links] :
        History(L, gapq, links) /\ \A h \in Handles : L[0][h] # NoPeer => HasEntry(h)
  BY <1>1 DEF AllKnown
<1>3. links \in Links /\ OneEach(links)
  <2>1. Len(gapq) \in 0 .. Len(gapq)
    BY <1>1, LenProperties DEF TypeOK
  <2> QED
    BY <1>1, <1>2, <2>1 DEF TypeOK, Links, History
<1>4. CASE LinkEstablished
  <2> DEFINE h == Head(gapq).conn
             p == Head(gapq).addr
  <2>1. /\ gapq # <<>> /\ Head(gapq).kind = "up" /\ gapq' = Tail(gapq)
        /\ links' = links /\ overrun' = overrun
    BY <1>4 DEF LinkEstablished, Callback
  <2>2. /\ h \in Handles /\ L[0] \in Links /\ L[1] = [L[0] EXCEPT ![h] = p]
    BY <1>1, <1>2, <2>1, HeadEvent DEF Turns
  <2>3. \A g \in Handles : g # h => L[1][g] = L[0][g]
    BY <2>2 DEF Links
  <2>4. Wanted(p) /\ \E s \in Slots : IsFree(s)
    <3>1. 1 \in 1 .. Len(gapq) /\ Head(gapq) = gapq[1]
      BY <1>1, <1>2, <2>1, HeadEvent
    <3>2. Wanted(p)
      BY <1>1, <2>1, <3>1 DEF AllWanted
    <3>3. IInv => EntryForLink
      BY RoomInvariant
    <3> QED
      BY <2>1, <3>2, <3>3 DEF EntryForLink
  <2>5. PICK s \in Slots : /\ FirstFree(s)
                           /\ connList' = [connList EXCEPT ![s] = [conn |-> h, addr |-> p]]
    BY <1>4, <2>4 DEF LinkEstablished
  <2>6. connList'[s].conn = h /\ \A t \in Slots : t # s => connList'[t] = connList[t]
    BY <1>1, <2>5 DEF TypeOK
  <2>7. ASSUME NEW g \in Handles, L[1][g] # NoPeer PROVE HasEntry(g)'
    <3>1. CASE g = h
      BY <2>6, <3>1 DEF HasEntry
    <3>2. CASE g # h
      <4>1. PICK t \in Slots : connList[t].conn = g
        BY <1>2, <2>3, <2>7, <3>2 DEF HasEntry
      <4>2. t # s
        BY <2>5, <4>1 DEF FirstFree, IsFree, NoHandle, Handles
      <4> QED
        BY <2>6, <4>1, <4>2 DEF HasEntry
    <3> QED
      BY <3>1, <3>2
  <2>8. AllKnown'
    BY <1>1, <1>2, <2>1, <2>7, AllKnownFollows
  <2> QED
    BY <1>1, <2>1, <2>8
<1>5. CASE LinkTerminated
  <2> DEFINE h == Head(gapq).conn
  <2>1. gapq # <<>> /\ Head(gapq).kind = "down" /\ gapq' = Tail(gapq) /\ links' = links
    BY <1>5 DEF LinkTerminated, Callback
  <2>2. h \in Handles /\ L[0][h] # NoPeer /\ L[0] \in Links /\ L[1] = [L[0] EXCEPT ![h] = NoPeer]
    BY <1>1, <1>2, <2>1, HeadEvent DEF Turns
  <2>3. L[1][h] = NoPeer /\ \A g \in Handles : g # h => L[1][g] = L[0][g]
    BY <2>2 DEF Links
  <2>4. \E t \in Slots : connList[t].conn = h
    BY <1>2, <2>2 DEF HasEntry
  <2>5. /\ overrun' = overrun
        /\ \E s \in Slots : FirstWith(s, h) /\ connList' = [connList EXCEPT ![s] = FreeSlot]
    BY <1>5, <2>4 DEF LinkTerminated, Cleared
  <2>6. PICK s \in Slots : FirstWith(s, h) /\ connList' = [connList EXCEPT ![s] = FreeSlot]
    BY <2>5
  <2>7. connList[s].conn = h /\ \A t \in Slots : t # s => connList'[t] = connList[t]
    BY <1>1, <2>6 DEF TypeOK, FirstWith
  <2>8. ASSUME NEW g \in Handles, L[1][g] # NoPeer PROVE HasEntry(g)'
    <3>1. PICK t \in Slots : connList[t].conn = g
      BY <1>2, <2>3, <2>8 DEF HasEntry
    <3>2. t # s
      BY <2>3, <2>7, <2>8, <3>1
    <3> QED
      BY <2>7, <3>1, <3>2 DEF HasEntry
  <2>9. AllKnown'
    BY <1>1, <1>2, <2>1, <2>8, AllKnownFollows
  <2> QED
    BY <1>1, <2>5, <2>9
<1>6. DeviceInitDone \/ DeviceInfo \/ DeviceDiscovery \/ LinkFailed => AllKnown' /\ overrun' = overrun
  BY <1>1, AllKnownSkips DEF DeviceInitDone, DeviceInfo, DeviceDiscovery, LinkFailed, Callback, IsLinkEvent
<1>7. EstablishTimeout \/ Host \/ UNCHANGED vars => AllKnown' /\ overrun' = overrun
  BY <1>1, AllKnownKeeps DEF EstablishTimeout, Host, AtSetConnect, AtStartScan, AtStopScan,
                             AtDisconnect, vars, stackVars, tableVars
<1>8. ASSUME NEW e \in Events, ~IsLinkEvent(e), e.kind = "info" => e.addr \in Peers, Queue(e),
             links' = links, connList' = connList
      PROVE  AllKnown'
  <2>1. Turns(e, links, links')
    BY <1>8 DEF Turns, IsLinkEvent
  <2> QED
    BY <1>1, <1>3, <1>8, <2>1, AllKnownQueues DEF Queue
<1>9. DeviceStarts \/ ScanEnds \/ LinkCreateFails => AllKnown' /\ overrun' = overrun
  BY <1>8 DEF DeviceStarts, ScanEnds, LinkCreateFails, tableVars, Event, Events, IsLinkEvent
<1>10. ASSUME NEW p \in Peers, Hears(p) PROVE AllKnown' /\ overrun' = overrun
  BY <1>8, <1>10 DEF Hears, tableVars, Event, Events, IsLinkEvent
<1>11. ASSUME NEW p \in Peers, LinkUp(p) PROVE AllKnown' /\ overrun' = overrun
  BY <1>1, <1>3, <1>11, UpTurns, AllKnownQueues DEF Queue, LinkUp, tableVars
<1>12. ASSUME NEW h \in Handles, LinkDown(h) PROVE AllKnown' /\ overrun' = overrun
  BY <1>1, <1>3, <1>12, DownTurns, AllKnownQueues DEF Queue, LinkDown, tableVars
<1> QED
  BY <1>1, <1>4, <1>5, <1>6, <1>7, <1>9, <1>10, <1>11, <1>12 DEF Next, CentralEventCB, Stack

\* The host can have centralEventCB write behind centralConnList
\* (multiCentral.c:1128, "Should not go there") only by disabling or replacing
\* an entry of a wanted peer: as long as it does not, every terminated link has
\* an entry, past refused and failed links, reused handles and AT+DISCONNECT.
THEOREM EntryWhileListed == ~Unlists => (Spec => []TerminatedFindsEntry)
<1> SUFFICES ASSUME ~Unlists PROVE Spec => []TerminatedFindsEntry
  OBVIOUS
<1>1. Init => EInv
  <2> SUFFICES ASSUME Init PROVE EInv
    OBVIOUS
  <2> USE CentralAssumption
  <2> DEFINE L == [i \in 0 .. 0 |-> links]
  <2>1. gapq = <<>> /\ Len(gapq) = 0 /\ links = [h \in Handles |-> NoPeer] /\ mode = "off" /\ ~overrun
    BY DEF Init
  <2>2. L \in [0 .. Len(gapq) -> Links] /\ L[0] = links
    BY <2>1 DEF Links
  <2>3. History(L, gapq, links)
    BY <2>1, <2>2 DEF History, OneEach, Explains
  <2>4. \A h \in Handles : L[0][h] = NoPeer
    BY <2>1, <2>2
  <2>5. AllKnown
    BY <2>2, <2>3, <2>4 DEF AllKnown
  <2> QED
    BY <2>1, <2>5 DEF EInv, AllWanted
<1>2. IInv /\ EInv /\ [Next]_vars => EInv'
  BY EntryStep, WantedStep DEF EInv
<1>3. EInv => TerminatedFindsEntry
  BY DEF EInv, TerminatedFindsEntry
<1> QED
  BY <1>1, <1>2, <1>3, Inductive, PTL DEF Spec
=============================================================================

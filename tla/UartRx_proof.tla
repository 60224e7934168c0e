---------------------------- MODULE UartRx_proof ----------------------------
(* Theorems about UartRx, for every set of frames, every size of the       *)
(* buffers and every time-out longer than the gaps within a frame.         *)
EXTENDS UartRx, SequenceTheorems, WellFoundedInduction, TLAPS

(***************************************************************************)
(* The length of a command's name.                                         *)
(***************************************************************************)

LEMMA Least ==
  ASSUME NEW S, S \subseteq Nat, S # {}
  PROVE  \E i \in S : \A j \in S : i <= j
<1>1. PICK i \in S : \A j \in S : ~(<<j, i>> \in OpToRel(<, Nat))
  BY NatLessThanWellFounded, WFMin, Zenon
<1>2. \A j \in S : ~(j < i)
  BY <1>1, Zenon DEF OpToRel
<1>3. i \in Nat
  OBVIOUS
<1> QED
  BY <1>2, <1>3

LEMMA NameEnds ==
  ASSUME NEW f \in Seq(Bytes), Len(f) >= 3
  PROVE  /\ NameLen(f) \in 0 .. Len(f) - 3
         /\ \A i \in 1 .. NameLen(f) : f[3 + i] \in Letters
         /\ NameLen(f) < Len(f) - 3 => f[4 + NameLen(f)] \notin Letters
<1> DEFINE Ends(e) == /\ \A i \in 1 .. e : f[3 + i] \in Letters
                      /\ 4 + e \in DOMAIN f => f[4 + e] \notin Letters
           over == {j \in 0 .. Len(f) - 3 : j = Len(f) - 3 \/ f[4 + j] \notin Letters}
<1>0. DOMAIN f = 1 .. Len(f)
  BY LenProperties
<1>1. Len(f) \in Nat
  BY LenProperties
<1>2. over \subseteq Nat /\ Len(f) - 3 \in over
  BY <1>1
<1>3. PICK n : n \in over /\ \A m \in over : n <= m
  BY <1>2, Least, Zenon
<1>4. n \in 0 .. Len(f) - 3
  BY <1>3
<1>5. ASSUME NEW k \in 0 .. Len(f) - 3, ~(n <= k) PROVE f[4 + k] \in Letters
  BY <1>1, <1>3, <1>4, <1>5
<1> HIDE DEF Ends, over
<1>6. ASSUME NEW i \in 1 .. n PROVE f[3 + i] \in Letters
  <2>1. n \in Int /\ n <= Len(f) - 3 /\ i \in Int /\ 1 <= i /\ i <= n
    BY <1>1, <1>4
  <2>2. i - 1 \in 0 .. Len(f) - 3 /\ ~(n <= i - 1) /\ 4 + (i - 1) = 3 + i
    BY <1>1, <2>1
  <2> QED
    BY <1>5, <2>2
<1>7. 4 + n \in DOMAIN f => f[4 + n] \notin Letters
  <2>1. n = Len(f) - 3 \/ f[4 + n] \notin Letters
    BY <1>3 DEF over
  <2>2. 4 + n \in 1 .. Len(f) => n # Len(f) - 3
    BY <1>1
  <2> QED
    BY <1>0, <2>1, <2>2
<1>8. \E k : k \in 0 .. Len(f) - 3 /\ Ends(k)
  <2>1. Ends(n)
    BY <1>6, <1>7, Zenon DEF Ends
  <2> QED
    BY <1>4, <2>1
<1>9. NameLen(f) = CHOOSE k : k \in 0 .. Len(f) - 3 /\ Ends(k)
  BY Zenon DEF NameLen, Ends
<1>10. NameLen(f) \in 0 .. Len(f) - 3 /\ Ends(NameLen(f))
  BY <1>8, <1>9, Zenon
<1> USE DEF Ends
<1>11. NameLen(f) < Len(f) - 3 => 4 + NameLen(f) \in DOMAIN f
  BY <1>0, <1>1, <1>10
<1> QED
  BY <1>10, <1>11

(***************************************************************************)
(* Type correctness.                                                       *)
(***************************************************************************)

\* The machine after a byte: within its buffers, and ready for the next.
LEMMA AcceptType ==
  ASSUME TypeOK, NEW c \in Bytes, NEW m,
         m = Accept([fsm |-> fsm, cmd |-> cmd, data |-> data, sent |-> answers], c)
  PROVE  /\ m.fsm \in States
         /\ m.cmd \in Seq(Letters) /\ Len(m.cmd) <= CmdMax
         /\ m.data \in Seq(Bytes) /\ Len(m.data) <= DataMax
         /\ m.sent \in Seq(Answers)
<1> USE RxAssumption
<1> DEFINE Good(r) == /\ r.fsm \in States
                      /\ r.cmd \in Seq(Letters) /\ Len(r.cmd) <= CmdMax
                      /\ r.data \in Seq(Bytes) /\ Len(r.data) <= DataMax
                      /\ r.sent \in Seq(Answers)
           Machines == [fsm : States, cmd : Seq(Letters), data : Seq(Bytes), sent : Seq(Answers)]
           m0 == [fsm |-> fsm, cmd |-> cmd, data |-> data, sent |-> answers]
<1>1. m0 \in Machines /\ Good(m0)
  BY DEF TypeOK
<1>2. ASSUME NEW r \in Machines, Good(r) PROVE Good(AtStart(r, c))
  BY <1>2 DEF AtStart, States
<1>3. ASSUME NEW r \in Machines, Good(r) PROVE Good(AtData(r, c))
  <2>1. CASE Len(r.data) < DataMax
    <3>1. Append(r.data, c) \in Seq(Bytes) /\ Len(Append(r.data, c)) <= DataMax
      BY <2>1, AppendProperties, LenProperties
    <3> QED
      BY <1>3, <2>1, <3>1 DEF AtData, States
  <2>2. CASE ~(Len(r.data) < DataMax)
    BY <1>2, <1>3, <2>2 DEF AtData
  <2> QED
    BY <2>1, <2>2
<1>4. ASSUME NEW r \in Machines, Good(r) PROVE Good(AtCommand(r, c))
  <2>1. CASE Len(r.cmd) = CmdMax
    BY <1>2, <1>4, <2>1 DEF AtCommand
  <2>2. CASE Len(r.cmd) # CmdMax /\ c \in Letters
    <3>1. Append(r.cmd, c) \in Seq(Letters) /\ Len(Append(r.cmd, c)) <= CmdMax
      BY <1>4, <2>2, AppendProperties, LenProperties
    <3> QED
      BY <1>4, <2>2, <3>1 DEF AtCommand, States
  <2>3. CASE Len(r.cmd) # CmdMax /\ c \notin Letters
    BY <1>3, <1>4, <2>3 DEF AtCommand
  <2> QED
    BY <2>1, <2>2, <2>3
<1> HIDE DEF Machines
<1>5. Fresh(m0) \in Machines /\ Good(Fresh(m0))
  <2>1. /\ <<>> \in Seq(Letters) /\ <<>> \in Seq(Bytes) /\ Len(<<>>) = 0
    BY EmptySeq
  <2>2. ASSUME NEW e, e \in Seq(Letters), e \in Seq(Bytes), Len(e) = 0,
               NEW r \in Machines, Good(r)
        PROVE  /\ [r EXCEPT !.cmd = e, !.data = e] \in Machines
               /\ Good([r EXCEPT !.cmd = e, !.data = e])
    <3> DEFINE w == [r EXCEPT !.cmd = e, !.data = e]
    <3>1. w \in Machines
      BY <2>2 DEF Machines
    <3>2. w.fsm = r.fsm /\ w.cmd = e /\ w.data = e /\ w.sent = r.sent
      BY <2>2 DEF Machines
    <3> HIDE DEF w
    <3>3. Good(w)
      BY <2>2, <3>2
    <3> QED
      BY <3>1, <3>3 DEF w
  <2> HIDE DEF Good, m0
  <2> QED
    BY <1>1, <2>1, <2>2, Zenon DEF Fresh
<1>6. Ok \in Answers
  BY EmptySeq DEF Ok, Answers
<1>7. Answered(answers, Ok) \in Seq(Answers)
  BY <1>1, <1>6, AppendProperties DEF Answered
<1>8. CASE fsm \in {"rest", "start"}
  BY <1>1, <1>2, <1>8 DEF Accept
<1>9. CASE fsm = "a"
  <2>1. c = "T" => Good(m)
    BY <1>1, <1>9 DEF Accept, States
  <2>2. c # "T" => Good(m)
    BY <1>1, <1>2, <1>9 DEF Accept
  <2> QED
    BY <2>1, <2>2
<1>10. CASE fsm = "at"
  <2>1. c \in {"+", "CR"} => Good(m)
    BY <1>1, <1>10 DEF Accept, States
  <2>2. c \notin {"+", "CR"} => Good(m)
    BY <1>1, <1>2, <1>10 DEF Accept
  <2> QED
    BY <2>1, <2>2
<1>11. CASE fsm = "cr"
  <2>1. c = "LF" => Good(m)
    BY <1>1, <1>7, <1>11 DEF Accept, States
  <2>2. c # "LF" => Good(m)
    BY <1>1, <1>2, <1>11 DEF Accept
  <2> QED
    BY <2>1, <2>2
<1>12. CASE fsm = "plus"
  BY <1>4, <1>5, <1>12 DEF Accept
<1>13. CASE fsm = "cmd"
  BY <1>1, <1>4, <1>13 DEF Accept
<1>14. CASE fsm = "data"
  BY <1>1, <1>3, <1>14 DEF Accept
<1> QED
  BY <1>8, <1>9, <1>10, <1>11, <1>12, <1>13, <1>14 DEF TypeOK, States

LEMMA TypeInit == Init => TypeOK
<1> SUFFICES ASSUME Init PROVE TypeOK
  OBVIOUS
<1> USE RxAssumption DEF Init
<1>1. rx \in Seq(Bytes) /\ cmd \in Seq(Letters) /\ data \in Seq(Bytes) /\ todo \in Seq(Bytes)
  BY EmptySeq
<1>2. answers \in Seq(Answers)
  BY EmptySeq
<1>3. Len(rx) <= RxMax /\ Len(cmd) <= CmdMax /\ Len(data) <= DataMax
  BY EmptySeq
<1>4. wait \in 0 .. Timeout /\ gap \in 0 .. MaxGap
  OBVIOUS
<1>5. draining \in BOOLEAN /\ fsm \in States
  BY Zenon DEF States
<1>6. watched \in Frames \cup {<<>>}
  BY Zenon
<1> QED
  BY <1>1, <1>2, <1>3, <1>4, <1>5, <1>6, Zenon DEF TypeOK

\* The bytes of a frame are bytes.
LEMMA FrameIsSeq == \A f \in Frames : f \in Seq(Bytes) /\ f # <<>>
  BY RxAssumption DEF Bytes, Letters

LEMMA TypeStep == TypeOK /\ [Next]_vars => TypeOK'
<1> SUFFICES ASSUME TypeOK, [Next]_vars PROVE TypeOK'
  OBVIOUS
<1> USE RxAssumption
<1>1. CASE FrameBegins
  <2>1. \E f \in Frames : todo' = f /\ watched' \in Frames \cup {<<>>}
    BY <1>1 DEF FrameBegins
  <2>2. todo' \in Seq(Bytes)
    BY <2>1, FrameIsSeq
  <2>3. answers' \in Seq(Answers) /\ gap' \in 0 .. MaxGap
    BY <1>1, EmptySeq DEF FrameBegins
  <2> QED
    BY <1>1, <2>1, <2>2, <2>3 DEF TypeOK, FrameBegins, machine
<1>2. CASE Receives
  <2>1. Head(todo) \in Bytes /\ Tail(todo) \in Seq(Bytes) /\ todo # <<>>
    BY <1>2, HeadTailProperties DEF TypeOK, Receives
  <2>2. CASE Len(rx) < RxMax
    <3>1. rx \in Seq(Bytes) /\ Len(rx) \in Nat /\ rx' = Append(rx, Head(todo))
      BY <1>2, <2>2, LenProperties DEF TypeOK, Receives
    <3>2. rx' \in Seq(Bytes) /\ Len(rx') = Len(rx) + 1
      BY <2>1, <3>1, AppendProperties
    <3>3. Len(rx') <= RxMax
      BY <2>2, <3>1, <3>2
    <3> QED
      BY <1>2, <2>1, <2>2, <3>2, <3>3 DEF TypeOK, Receives, machine
  <2>3. CASE ~(Len(rx) < RxMax)
    <3>1. answers' \in Seq(Answers)
      BY <1>2, <2>3, EmptySeq DEF Receives
    <3> QED
      BY <1>2, <2>1, <2>3, <3>1 DEF TypeOK, Receives, machine
  <2> QED
    BY <2>2, <2>3
<1>3. CASE TaskRun
  <2>1. gap' \in 0 .. MaxGap /\ todo' = todo /\ watched' = watched
    BY <1>3 DEF TypeOK, TaskRun
  <2>2. CASE Waits
    BY <2>1, <2>2 DEF TypeOK, Waits, machine
  <2>3. CASE PackageEnds
    <3>1. Wild \in Answers /\ Err02 \in Answers /\ Runs(cmd, data) \in Answers
      BY EmptySeq DEF TypeOK, Wild, Err02, Runs, Answers
    <3>2. \A a \in Answers : Answered(answers, a) \in Seq(Answers)
      BY AppendProperties DEF TypeOK, Answered
    <3>3. answers' \in Seq(Answers)
      BY <2>3, <3>1, <3>2 DEF TypeOK, PackageEnds
    <3> QED
      BY <2>1, <2>3, <3>3 DEF TypeOK, PackageEnds, States
  <2>4. CASE DrainBegins
    BY <2>1, <2>4 DEF TypeOK, DrainBegins, machine
  <2> QED
    BY <1>3, <2>2, <2>3, <2>4 DEF TaskRun
<1>4. CASE TakeByte
  <2>1. Head(rx) \in Bytes /\ Tail(rx) \in Seq(Bytes) /\ Len(Tail(rx)) <= RxMax
    BY <1>4, HeadTailProperties, LenProperties DEF TypeOK, TakeByte
  <2> DEFINE m == Accept([fsm |-> fsm, cmd |-> cmd, data |-> data, sent |-> answers], Head(rx))
  <2>2. fsm' = m.fsm /\ cmd' = m.cmd /\ data' = m.data /\ answers' = m.sent
    BY <1>4 DEF TakeByte
  <2>3. /\ m.fsm \in States /\ m.cmd \in Seq(Letters) /\ Len(m.cmd) <= CmdMax
        /\ m.data \in Seq(Bytes) /\ Len(m.data) <= DataMax /\ m.sent \in Seq(Answers)
    BY <2>1, AcceptType
  <2> HIDE DEF m
  <2> QED
    BY <1>4, <2>1, <2>2, <2>3 DEF TypeOK, TakeByte, host
<1>5. CASE DrainEnds
  <2>1. wait' \in 0 .. Timeout
    BY <1>5 DEF DrainEnds
  <2>2. draining' \in BOOLEAN
    BY <1>5, Zenon DEF DrainEnds
  <2> QED
    BY <1>5, <2>1, <2>2 DEF TypeOK, DrainEnds, machine, host
<1>6. CASE UNCHANGED vars
  BY <1>6 DEF TypeOK, vars, machine, host
<1> QED
  BY <1>1, <1>2, <1>3, <1>4, <1>5, <1>6 DEF Next, TaskStep

\* The buffers are never overrun, and the time-out stays in its range.
THEOREM TypeCorrect == Spec => []TypeOK
<1>1. Init => TypeOK
  BY TypeInit
<1>2. TypeOK /\ [Next]_vars => TypeOK'
  BY TypeStep
<1> QED
  BY <1>1, <1>2, PTL DEF Spec

(***************************************************************************)
(* A frame is read.  Taken bytes of it have been through the machine; the  *)
(* rest is in the ring buffer and still to come, in this order.            *)
(***************************************************************************)

Machines == [fsm : States, cmd : Seq(Letters), data : Seq(Bytes), sent : Seq(Answers)]
Machine  == [fsm |-> fsm, cmd |-> cmd, data |-> data, sent |-> answers]

Taken == Len(watched) - Len(todo) - Len(rx)

Flow ==
  /\ Taken >= 0
  /\ \A i \in 1 .. Len(rx) : rx[i] = watched[Taken + i]
  /\ \A i \in 1 .. Len(todo) : todo[i] = watched[Taken + Len(rx) + i]

\* In the name, and in what follows it, after k bytes of f.
NameRead(f, k, m) ==
  /\ k >= 4 /\ k <= 3 + NameLen(f)
  /\ m.fsm = "cmd" /\ m.cmd = SubSeq(f, 4, k) /\ m.data = <<>>
DataRead(f, k, m) ==
  /\ k >= 4 + NameLen(f)
  /\ m.fsm = "data" /\ m.cmd = NameOf(f) /\ m.data = SubSeq(f, 4 + NameLen(f), k)

ReadAt(f, k, m) ==
  /\ m.sent = <<>>
  /\ \/ k = 0 /\ m.fsm = "rest"
     \/ k = 1 /\ m.fsm = "a"
     \/ k = 2 /\ m.fsm = "at"
     \/ k = 3 /\ ~Prefixed(f) /\ m.fsm = "cr"
     \/ k = 3 /\ Prefixed(f) /\ m.fsm = "plus"
     \/ Prefixed(f) /\ NameRead(f, k, m)
     \/ Prefixed(f) /\ DataRead(f, k, m)

Done == /\ todo = <<>> /\ rx = <<>> /\ fsm = "rest"
        /\ answers = <<Due(watched)>>

\* The next byte comes before the time is up.
InTime ==
  fsm # "rest" /\ ~draining /\ (todo # <<>> \/ rx # <<>>) =>
    IF rx = <<>> THEN wait + gap >= Timeout ELSE wait >= 1

FrameInv ==
  watched # <<>> /\ Fits(watched) => Flow /\ (ReadAt(watched, Taken, Machine) \/ Done) /\ InTime

(***************************************************************************)
(* One byte of a frame that fits.                                          *)
(***************************************************************************)

LEMMA SubSeqNext ==
  ASSUME NEW S, NEW f \in Seq(S), NEW a \in Nat, NEW k \in Nat, 1 <= a, a <= k + 1, k < Len(f)
  PROVE  SubSeq(f, a, k + 1) = Append(SubSeq(f, a, k), f[k + 1])
<1>1. Len(f) \in Nat /\ f[k + 1] \in S
  BY LenProperties, ElementOfSeq
<1>2. /\ SubSeq(f, a, k) \in Seq(S) /\ Len(SubSeq(f, a, k)) = k + 1 - a
      /\ \A i \in 1 .. k + 1 - a : SubSeq(f, a, k)[i] = f[a + i - 1]
  BY <1>1, SubSeqProperties
<1>3. /\ SubSeq(f, a, k + 1) \in Seq(S) /\ Len(SubSeq(f, a, k + 1)) = k + 2 - a
      /\ \A i \in 1 .. k + 2 - a : SubSeq(f, a, k + 1)[i] = f[a + i - 1]
  BY <1>1, SubSeqProperties
<1> DEFINE p == SubSeq(f, a, k)  q == SubSeq(f, a, k + 1)  r == Append(p, f[k + 1])
<1>4. /\ r \in Seq(S) /\ Len(r) = k + 2 - a
      /\ \A i \in 1 .. k + 1 - a : r[i] = p[i]
      /\ r[k + 2 - a] = f[k + 1]
  BY <1>1, <1>2, AppendProperties
<1> HIDE DEF p, q, r
<1>5. \A i \in 1 .. k + 2 - a : q[i] = r[i]
  <2> SUFFICES ASSUME NEW i \in 1 .. k + 2 - a PROVE q[i] = r[i]
    OBVIOUS
  <2>1. CASE i = k + 2 - a
    BY <1>3, <1>4, <2>1 DEF q
  <2>2. CASE i # k + 2 - a
    BY <1>2, <1>3, <1>4, <2>2 DEF p, q
  <2> QED
    BY <2>1, <2>2
<1>6. q = r
  BY <1>3, <1>4, <1>5, SeqEqual DEF q
<1> QED
  BY <1>6 DEF p, q, r

\* What a command that fits consists of.
LEMMA CommandFits ==
  ASSUME NEW f \in Seq(Bytes), Fits(f), Prefixed(f)
  PROVE  /\ Len(f) \in Nat /\ Len(f) > 3
         /\ f[1] = "A" /\ f[2] = "T" /\ f[3] = "+"
         /\ NameLen(f) \in Nat /\ NameLen(f) <= Len(f) - 3 /\ NameLen(f) < CmdMax
         /\ Len(f) - 3 - NameLen(f) < DataMax
         /\ \A i \in 1 .. NameLen(f) : f[3 + i] \in Letters
         /\ NameLen(f) < Len(f) - 3 => f[4 + NameLen(f)] \notin Letters
<1>1. Len(f) \in Nat
  BY LenProperties
<1>2. Len(f) >= 3 /\ f[1] = "A" /\ f[2] = "T" /\ f[3] = "+"
  BY Zenon DEF Prefixed
<1>3. f # <<"A", "T", "CR", "LF">>
  BY <1>2
<1>4. Len(f) > 3 /\ NameLen(f) < CmdMax /\ Len(RestOf(f)) < DataMax
  BY <1>3, Zenon DEF Fits
<1>5. /\ NameLen(f) \in 0 .. Len(f) - 3
      /\ \A i \in 1 .. NameLen(f) : f[3 + i] \in Letters
      /\ NameLen(f) < Len(f) - 3 => f[4 + NameLen(f)] \notin Letters
  BY <1>2, NameEnds
<1> DEFINE n == NameLen(f)
<1>6. n \in Nat /\ n <= Len(f) - 3
  BY <1>1, <1>5
<1> HIDE DEF n
<1>7. Len(SubSeq(f, 4 + n, Len(f))) = Len(f) - 3 - n
  <2>1. \A i \in 4 + n .. Len(f) : f[i] \in Bytes
    BY <1>1, <1>6, ElementOfSeq
  <2>2. Len(SubSeq(f, 4 + n, Len(f))) = IF 4 + n <= Len(f) THEN Len(f) - (4 + n) + 1 ELSE 0
    BY <1>1, <1>6, <2>1, SubSeqProperties
  <2> QED
    BY <1>1, <1>6, <2>2
<1>8. Len(f) - 3 - NameLen(f) < DataMax
  BY <1>4, <1>7, Zenon DEF RestOf, n
<1> QED
  BY <1>1, <1>2, <1>4, <1>5, <1>6, <1>8 DEF n

\* After AT+, and in the name: the byte belongs to the name, or ends it.
LEMMA CommandByte ==
  ASSUME NEW f \in Seq(Bytes), Fits(f), Prefixed(f),
         NEW k \in Nat, 3 <= k, k <= 3 + NameLen(f), k < Len(f),
         NEW m \in Machines, m.sent = <<>>, m.cmd = SubSeq(f, 4, k), m.data = <<>>
  PROVE  ReadAt(f, k + 1, AtCommand(m, f[k + 1]))
<1> DEFINE n == NameLen(f)  c == f[k + 1]
<1> USE RxAssumption
<1>1. /\ Len(f) \in Nat /\ n \in Nat /\ n <= Len(f) - 3 /\ n < CmdMax
      /\ Len(f) - 3 - n < DataMax
      /\ \A i \in 1 .. n : f[3 + i] \in Letters
      /\ n < Len(f) - 3 => f[4 + n] \notin Letters
  BY CommandFits
<1>2. Len(SubSeq(f, 4, k)) = k - 3
  <2>1. \A i \in 4 .. k : f[i] \in Bytes
    BY <1>1, ElementOfSeq
  <2> QED
    BY <2>1, SubSeqProperties
<1> HIDE DEF n
<1>3. Len(m.cmd) # CmdMax
  BY <1>1, <1>2 DEF n
<1>4. CASE k < 3 + n
  <2>1. k - 2 \in 1 .. n /\ 3 + (k - 2) = k + 1
    BY <1>1, <1>4
  <2>2. c \in Letters
    BY <1>1, <2>1
  <2>3. AtCommand(m, c) = [m EXCEPT !.fsm = "cmd", !.cmd = Append(m.cmd, c)]
    BY <1>3, <2>2 DEF AtCommand
  <2> DEFINE w == [m EXCEPT !.fsm = "cmd", !.cmd = Append(m.cmd, c)]
  <2>4. w.fsm = "cmd" /\ w.cmd = Append(m.cmd, c) /\ w.data = m.data /\ w.sent = m.sent
    BY DEF Machines
  <2>5. SubSeq(f, 4, k + 1) = Append(SubSeq(f, 4, k), c)
    BY SubSeqNext
  <2> HIDE DEF w, c
  <2>6. k + 1 >= 4 /\ k + 1 <= 3 + NameLen(f)
    BY <1>1, <1>4 DEF n
  <2>7. NameRead(f, k + 1, w)
    BY <2>4, <2>5, <2>6, Zenon DEF NameRead
  <2> QED
    BY <2>3, <2>4, <2>7, Zenon DEF ReadAt, w, c
<1>5. CASE k = 3 + n
  <2>1. c \notin Letters
    BY <1>1, <1>5
  <2>2. Len(m.data) < DataMax
    BY EmptySeq
  <2>3. AtCommand(m, c) = [m EXCEPT !.fsm = "data", !.data = Append(m.data, c)]
    BY <1>3, <2>1, <2>2 DEF AtCommand, AtData
  <2> DEFINE w == [m EXCEPT !.fsm = "data", !.data = Append(m.data, c)]
  <2>4. w.fsm = "data" /\ w.data = Append(m.data, c) /\ w.cmd = m.cmd /\ w.sent = m.sent
    BY DEF Machines
  <2>5. SubSeq(f, 4 + n, k + 1) = Append(SubSeq(f, 4 + n, k), c)
    <3>1. 4 + n \in Nat /\ 1 <= 4 + n /\ 4 + n <= k + 1
      BY <1>1, <1>5
    <3> QED
      BY <3>1, SubSeqNext
  <2>6. SubSeq(f, 4 + n, k) = <<>>
    BY <1>1, <1>5, SubSeqEmpty
  <2> HIDE DEF w, c
  <2>7. k + 1 >= 4 + NameLen(f)
    BY <1>1, <1>5 DEF n
  <2>8. w.cmd = NameOf(f)
    BY <1>5, <2>4 DEF NameOf, n
  <2>9. DataRead(f, k + 1, w)
    BY <2>4, <2>5, <2>6, <2>7, <2>8, Zenon DEF DataRead, n
  <2> QED
    BY <2>3, <2>4, <2>9, Zenon DEF ReadAt, w, c
<1> QED
  BY <1>1, <1>4, <1>5 DEF n

LEMMA DataByte ==
  ASSUME NEW f \in Seq(Bytes), Fits(f), Prefixed(f),
         NEW k \in Nat, k < Len(f),
         NEW m \in Machines, m.sent = <<>>, DataRead(f, k, m)
  PROVE  ReadAt(f, k + 1, AtData(m, f[k + 1]))
<1> DEFINE n == NameLen(f)  c == f[k + 1]
<1> USE RxAssumption
<1>1. /\ Len(f) \in Nat /\ n \in Nat /\ n <= Len(f) - 3
      /\ Len(f) - 3 - n < DataMax
  BY CommandFits
<1>2. k >= 4 + n /\ m.data = SubSeq(f, 4 + n, k) /\ m.cmd = NameOf(f)
  BY Zenon DEF DataRead
<1> HIDE DEF n
<1>3. Len(SubSeq(f, 4 + n, k)) = k - 3 - n
  <2>1. \A i \in 4 + n .. k : f[i] \in Bytes
    BY <1>1, ElementOfSeq
  <2>2. Len(SubSeq(f, 4 + n, k)) = IF 4 + n <= k THEN k - (4 + n) + 1 ELSE 0
    BY <1>1, <2>1, SubSeqProperties
  <2> QED
    BY <1>1, <1>2, <2>2
<1>4. Len(m.data) < DataMax
  BY <1>1, <1>2, <1>3
<1>5. AtData(m, c) = [m EXCEPT !.fsm = "data", !.data = Append(m.data, c)]
  BY <1>4 DEF AtData
<1> DEFINE w == [m EXCEPT !.fsm = "data", !.data = Append(m.data, c)]
<1>6. w.fsm = "data" /\ w.data = Append(m.data, c) /\ w.cmd = m.cmd /\ w.sent = m.sent
  BY DEF Machines
<1>7. SubSeq(f, 4 + n, k + 1) = Append(SubSeq(f, 4 + n, k), c)
  BY <1>1, <1>2, SubSeqNext
<1> HIDE DEF w, c
<1>8. k + 1 >= 4 + NameLen(f)
  BY <1>1, <1>2 DEF n
<1>9. DataRead(f, k + 1, w)
  BY <1>2, <1>6, <1>7, <1>8, Zenon DEF DataRead, n
<1> QED
  BY <1>5, <1>6, <1>9, Zenon DEF ReadAt, w, c

\* One byte of a frame that fits takes the machine one place on, or ends a test.
LEMMA AcceptStep ==
  ASSUME NEW f \in Seq(Bytes), Fits(f), watched = f, f # <<>>,
         NEW k \in Nat, k < Len(f),
         NEW m \in Machines, ReadAt(f, k, m)
  PROVE  \/ ReadAt(f, k + 1, Accept(m, f[k + 1]))
         \/ /\ k + 1 = Len(f)
            /\ Accept(m, f[k + 1]).fsm = "rest" /\ Accept(m, f[k + 1]).sent = <<Due(f)>>
<1> DEFINE c == f[k + 1]  w == Accept(m, c)
<1>1. m.sent = <<>>
  BY Zenon DEF ReadAt
<1>2. Len(f) \in Nat
  BY LenProperties
<1> DEFINE Test == f = <<"A", "T", "CR", "LF">>
<1>3. Test => /\ Len(f) = 4 /\ f[1] = "A" /\ f[2] = "T" /\ f[3] = "CR" /\ f[4] = "LF"
              /\ ~Prefixed(f)
  BY DEF Prefixed
<1>4. ~Test => Prefixed(f)
  BY Zenon DEF Fits
<1>5. Prefixed(f) => f[1] = "A" /\ f[2] = "T" /\ f[3] = "+"
  BY Zenon DEF Prefixed
<1> HIDE DEF Test
<1>6. f[1] = "A" /\ f[2] = "T"
  BY <1>3, <1>4, <1>5
<1>7. CASE k = 0 /\ m.fsm = "rest"
  <2>1. c = "A"
    BY <1>6, <1>7
  <2>2. w = [m EXCEPT !.fsm = "a"]
    BY <1>7, <2>1 DEF Accept, AtStart
  <2>3. w.fsm = "a" /\ w.sent = <<>>
    BY <1>1, <2>2 DEF Machines
  <2> QED
    BY <1>7, <2>3 DEF ReadAt
<1>8. CASE k = 1 /\ m.fsm = "a"
  <2>1. c = "T"
    BY <1>6, <1>8
  <2>2. w = [m EXCEPT !.fsm = "at"]
    BY <1>8, <2>1 DEF Accept
  <2>3. w.fsm = "at" /\ w.sent = <<>>
    BY <1>1, <2>2 DEF Machines
  <2> QED
    BY <1>8, <2>3 DEF ReadAt
<1>9. CASE k = 2 /\ m.fsm = "at"
  <2>1. CASE Prefixed(f)
    <3>1. c = "+"
      BY <1>5, <1>9, <2>1
    <3>2. w = [m EXCEPT !.fsm = "plus"]
      BY <1>9, <3>1 DEF Accept
    <3>3. w.fsm = "plus" /\ w.sent = <<>>
      BY <1>1, <3>2 DEF Machines
    <3> QED
      BY <1>9, <2>1, <3>3 DEF ReadAt
  <2>2. CASE ~Prefixed(f)
    <3>1. c = "CR"
      BY <1>3, <1>4, <1>9, <2>2
    <3>2. w = [m EXCEPT !.fsm = "cr"]
      BY <1>9, <3>1 DEF Accept
    <3>3. w.fsm = "cr" /\ w.sent = <<>>
      BY <1>1, <3>2 DEF Machines
    <3> QED
      BY <1>9, <2>2, <3>3 DEF ReadAt
  <2> QED
    BY <2>1, <2>2
<1>10. CASE k = 3 /\ ~Prefixed(f) /\ m.fsm = "cr"
  <2>1. Test /\ c = "LF" /\ Len(f) = 4
    BY <1>3, <1>4, <1>10
  <2>2. w = [m EXCEPT !.fsm = "rest", !.sent = Answered(m.sent, Ok)]
    BY <1>10, <2>1 DEF Accept
  <2>3. w.fsm = "rest" /\ w.sent = Answered(m.sent, Ok)
    BY <2>2 DEF Machines
  <2>4. Answered(m.sent, Ok) = <<Ok>>
    BY <1>1 DEF Answered
  <2>5. Due(f) = Ok
    BY <2>1, Zenon DEF Due, Test
  <2> HIDE DEF w, c
  <2>6. w.fsm = "rest" /\ w.sent = <<Due(f)>>
    BY <2>3, <2>4, <2>5, Zenon
  <2>7. k + 1 = Len(f)
    BY <1>10, <2>1
  <2> QED
    BY <2>6, <2>7, Zenon DEF w, c
<1>11. CASE k = 3 /\ Prefixed(f) /\ m.fsm = "plus"
  <2> DEFINE r == [m EXCEPT !.cmd = <<>>, !.data = <<>>]
  <2>1. w = AtCommand(r, c)
    BY <1>11 DEF Accept, Fresh
  <2>2. r \in Machines
    BY EmptySeq DEF Machines
  <2>3. r.sent = <<>> /\ r.cmd = <<>> /\ r.data = <<>>
    BY <1>1 DEF Machines
  <2>4. SubSeq(f, 4, k) = <<>>
    BY <1>11, SubSeqEmpty
  <2> HIDE DEF r, w
  <2>5. NameLen(f) \in Nat
    BY <1>11, CommandFits
  <2>6. 3 <= k /\ k <= 3 + NameLen(f)
    BY <1>11, <2>5
  <2>7. ReadAt(f, k + 1, AtCommand(r, c))
    BY <1>11, <2>2, <2>3, <2>4, <2>6, CommandByte
  <2> QED
    BY <2>1, <2>7, Zenon DEF w
<1>12. CASE Prefixed(f) /\ NameRead(f, k, m)
  <2>1. m.fsm = "cmd" /\ m.cmd = SubSeq(f, 4, k) /\ m.data = <<>> /\ 4 <= k /\ k <= 3 + NameLen(f)
    BY <1>12 DEF NameRead
  <2>2. w = AtCommand(m, c)
    BY <2>1 DEF Accept
  <2>3. ReadAt(f, k + 1, AtCommand(m, c))
    BY <1>1, <1>12, <2>1, CommandByte
  <2> QED
    BY <2>2, <2>3, Zenon
<1>13. CASE Prefixed(f) /\ DataRead(f, k, m)
  <2>1. m.fsm = "data"
    BY <1>13 DEF DataRead
  <2>2. w = AtData(m, c)
    BY <2>1 DEF Accept
  <2>3. ReadAt(f, k + 1, AtData(m, c))
    BY <1>1, <1>13, DataByte
  <2> QED
    BY <2>2, <2>3, Zenon
<1> QED
  BY <1>7, <1>8, <1>9, <1>10, <1>11, <1>12, <1>13, Zenon DEF ReadAt

(***************************************************************************)
(* The steps of the host, the handler and the task keep FrameInv.          *)
(***************************************************************************)

\* What a step has to show about the frame it leaves.
FrameNext ==
  /\ Flow'
  /\ ReadAt(watched', Taken', Machine') \/ Done'
  /\ InTime'

LEMMA FrameBeginsKeeps ==
  ASSUME TypeOK, FrameBegins, watched' # <<>>, Fits(watched')
  PROVE  FrameNext
<1>1. /\ rx = <<>> /\ fsm = "rest" /\ rx' = <<>> /\ fsm' = "rest"
      /\ answers' = <<>> /\ todo' = watched' /\ todo' \in Frames
  BY Zenon DEF FrameBegins, AtRest, machine
<1>2. Len(rx') = 0 /\ Len(todo') = Len(watched') /\ Len(todo') \in Nat
  BY <1>1, EmptySeq, FrameIsSeq, LenProperties
<1>3. Taken' = 0
  BY <1>2 DEF Taken
<1>4. Flow'
  BY <1>1, <1>2, <1>3 DEF Flow
<1>5. InTime'
  BY <1>1 DEF InTime
<1>6. Machine'.fsm = "rest" /\ Machine'.sent = <<>>
  BY <1>1 DEF Machine
<1>7. ReadAt(watched', Taken', Machine')
  BY <1>3, <1>6 DEF ReadAt
<1> QED
  BY <1>4, <1>5, <1>7 DEF FrameNext

LEMMA ReceivesKeeps ==
  ASSUME TypeOK, Receives, MaxGap < Timeout, watched' # <<>>, FrameInv, Fits(watched')
  PROVE  FrameNext
<1> USE RxAssumption
<1>1. /\ todo # <<>> /\ rx' = Append(rx, Head(todo)) /\ watched' = watched
      /\ answers' = answers /\ todo' = Tail(todo) /\ gap' = 0
      /\ fsm' = fsm /\ cmd' = cmd /\ data' = data /\ wait' = wait /\ draining' = draining
  BY Zenon DEF Receives, machine
<1>2. Flow /\ (ReadAt(watched, Taken, Machine) \/ Done) /\ InTime
  BY <1>1, Zenon DEF FrameInv
<1>3. /\ rx \in Seq(Bytes) /\ todo \in Seq(Bytes) /\ watched \in Seq(Bytes)
      /\ Len(rx) \in Nat /\ Len(todo) \in Nat /\ Len(watched) \in Nat
      /\ gap \in 0 .. MaxGap /\ wait \in 0 .. Timeout
  BY <1>1, FrameIsSeq, LenProperties DEF TypeOK
<1>4. /\ Head(todo) \in Bytes /\ Head(todo) = todo[1]
      /\ Tail(todo) \in Seq(Bytes) /\ Len(Tail(todo)) = Len(todo) - 1
      /\ \A i \in 1 .. Len(todo) - 1 : Tail(todo)[i] = todo[i + 1]
  BY <1>1, <1>3, HeadTailProperties
<1>5. /\ Len(rx') = Len(rx) + 1 /\ rx'[Len(rx) + 1] = Head(todo)
      /\ \A i \in 1 .. Len(rx) : rx'[i] = rx[i]
  BY <1>1, <1>3, <1>4, AppendProperties
<1>6. Len(todo) >= 1
  BY <1>1, <1>3, EmptySeq
<1>7. Taken' = Taken
  BY <1>1, <1>3, <1>4, <1>5 DEF Taken
<1>8. Flow'
  <2>1. Taken \in Int /\ Taken >= 0
    BY <1>2, <1>3 DEF Flow, Taken
  <2>2. ASSUME NEW i \in 1 .. Len(rx) + 1 PROVE rx'[i] = watched[Taken + i]
    <3>1. CASE i = Len(rx) + 1
      <4>1. todo[1] = watched[Taken + Len(rx) + 1]
        BY <1>2, <1>3, <1>6 DEF Flow
      <4>2. Taken + Len(rx) + 1 = Taken + i
        BY <1>3, <2>1, <3>1
      <4> QED
        BY <1>4, <1>5, <3>1, <4>1, <4>2
    <3>2. CASE i # Len(rx) + 1
      BY <1>2, <1>3, <1>5, <3>2 DEF Flow
    <3> QED
      BY <3>1, <3>2
  <2>3. ASSUME NEW i \in 1 .. Len(todo) - 1 PROVE todo'[i] = watched[Taken + Len(rx') + i]
    <3>1. i + 1 \in 1 .. Len(todo)
      BY <1>3
    <3>2. todo[i + 1] = watched[Taken + Len(rx) + (i + 1)]
      BY <1>2, <3>1 DEF Flow
    <3>3. Taken + Len(rx) + (i + 1) = Taken + Len(rx') + i
      BY <1>3, <1>5, <2>1
    <3> QED
      BY <1>1, <1>4, <3>2, <3>3
  <2> QED
    BY <1>1, <1>4, <1>5, <1>7, <2>1, <2>2, <2>3 DEF Flow
<1>9. ReadAt(watched', Taken', Machine')
  <2>1. Machine' = Machine
    BY <1>1 DEF Machine
  <2>2. ReadAt(watched, Taken, Machine)
    BY <1>1, <1>2, Zenon DEF Done
  <2> QED
    BY <1>1, <1>7, <2>1, <2>2
<1>10. InTime'
  <2> SUFFICES ASSUME fsm # "rest", ~draining PROVE wait >= 1
    <3>1. rx' # <<>>
      BY <1>3, <1>5, EmptySeq
    <3> QED
      BY <1>1, <3>1 DEF InTime
  <2>1. IF rx = <<>> THEN wait + gap >= Timeout ELSE wait >= 1
    BY <1>1, <1>2, Zenon DEF InTime
  <2> QED
    BY <1>3, <2>1
<1> QED
  BY <1>8, <1>9, <1>10 DEF FrameNext

LEMMA SameMachine ==
  ASSUME NEW f, NEW k, NEW a, NEW b,
         a.fsm = b.fsm, a.cmd = b.cmd, a.data = b.data, a.sent = b.sent, ReadAt(f, k, a)
  PROVE  ReadAt(f, k, b)
  BY Zenon DEF ReadAt, NameRead, DataRead

LEMMA TakeByteKeeps ==
  ASSUME TypeOK, TakeByte, watched' # <<>>, FrameInv, Fits(watched')
  PROVE  FrameNext
<1> DEFINE w == Accept(Machine, Head(rx))
<1>1. /\ rx # <<>> /\ draining /\ rx' = Tail(rx) /\ todo' = todo /\ watched' = watched
      /\ draining' = draining
  BY Zenon DEF TakeByte, host
<1>2. fsm' = w.fsm /\ cmd' = w.cmd /\ data' = w.data /\ answers' = w.sent
  BY DEF TakeByte, Machine
<1> HIDE DEF w
<1>3. /\ rx \in Seq(Bytes) /\ todo \in Seq(Bytes) /\ watched \in Seq(Bytes)
      /\ Len(rx) \in Nat /\ Len(todo) \in Nat /\ Len(watched) \in Nat
  BY <1>1, FrameIsSeq, LenProperties DEF TypeOK
<1>4. Flow /\ ReadAt(watched, Taken, Machine)
  BY <1>1, Zenon DEF FrameInv, Done
<1>5. Taken \in Nat /\ Len(rx) >= 1 /\ Taken < Len(watched)
  <2>1. Len(rx) >= 1
    BY <1>1, <1>3, EmptySeq
  <2> QED
    BY <1>3, <1>4, <2>1 DEF Flow, Taken
<1>6. /\ Head(rx) = rx[1] /\ Tail(rx) \in Seq(Bytes) /\ Len(Tail(rx)) = Len(rx) - 1
      /\ \A i \in 1 .. Len(rx) - 1 : Tail(rx)[i] = rx[i + 1]
  BY <1>1, <1>3, HeadTailProperties
<1>7. Head(rx) = watched[Taken + 1]
  BY <1>3, <1>4, <1>5, <1>6 DEF Flow
<1>8. Taken' = Taken + 1
  BY <1>1, <1>3, <1>6 DEF Taken
<1>9. Flow'
  <2>1. ASSUME NEW i \in 1 .. Len(rx) - 1 PROVE rx'[i] = watched[Taken + 1 + i]
    <3>1. i + 1 \in 1 .. Len(rx)
      BY <1>3
    <3>2. rx[i + 1] = watched[Taken + (i + 1)]
      BY <1>4, <3>1 DEF Flow
    <3>3. Taken + (i + 1) = Taken + 1 + i
      BY <1>5
    <3> QED
      BY <1>1, <1>6, <3>2, <3>3
  <2>2. ASSUME NEW i \in 1 .. Len(todo) PROVE todo[i] = watched[Taken + 1 + Len(rx') + i]
    <3>1. todo[i] = watched[Taken + Len(rx) + i]
      BY <1>4 DEF Flow
    <3>2. Taken + Len(rx) + i = Taken + 1 + Len(rx') + i
      BY <1>1, <1>3, <1>5, <1>6
    <3> QED
      BY <3>1, <3>2
  <2> QED
    BY <1>1, <1>5, <1>6, <1>8, <2>1, <2>2 DEF Flow
<1>10. InTime'
  BY <1>1, Zenon DEF InTime
<1>11. Machine \in Machines
  BY DEF TypeOK, Machine, Machines
<1>12. \/ ReadAt(watched, Taken + 1, w)
       \/ Taken + 1 = Len(watched) /\ w.fsm = "rest" /\ w.sent = <<Due(watched)>>
  BY <1>1, <1>3, <1>4, <1>5, <1>7, <1>11, AcceptStep DEF w
<1>13. CASE ReadAt(watched, Taken + 1, w)
  <2>1. /\ Machine'.fsm = w.fsm /\ Machine'.cmd = w.cmd
        /\ Machine'.data = w.data /\ Machine'.sent = w.sent
    BY <1>2 DEF Machine
  <2>2. ReadAt(watched, Taken + 1, Machine')
    BY <1>13, <2>1, SameMachine, Zenon
  <2>3. ReadAt(watched', Taken', Machine')
    BY <1>1, <1>8, <2>2
  <2> QED
    BY <1>9, <1>10, <2>3 DEF FrameNext
<1>14. CASE Taken + 1 = Len(watched) /\ w.fsm = "rest" /\ w.sent = <<Due(watched)>>
  <2>1. Len(rx') = 0 /\ Len(todo') = 0
    BY <1>1, <1>3, <1>6, <1>8, <1>14 DEF Taken
  <2>2. rx' = <<>> /\ todo' = <<>>
    BY <1>1, <1>3, <1>6, <2>1, EmptySeq
  <2>3. Done'
    BY <1>1, <1>2, <1>14, <2>2 DEF Done
  <2> QED
    BY <1>9, <1>10, <2>3 DEF FrameNext
<1> QED
  BY <1>12, <1>13, <1>14

\* Runs of the task that leave the machine alone.
LEMMA QuietKeeps ==
  ASSUME FrameInv, watched' = watched, watched # <<>>, Fits(watched), rx' = rx, todo' = todo,
         fsm' = fsm, cmd' = cmd, data' = data, answers' = answers, InTime => InTime'
  PROVE  FrameNext
<1>1. Flow /\ (ReadAt(watched, Taken, Machine) \/ Done) /\ InTime
  BY Zenon DEF FrameInv
<1>2. Taken' = Taken /\ Machine' = Machine
  BY DEF Taken, Machine
<1>3. Flow'
  BY <1>1, <1>2 DEF Flow
<1>4. ReadAt(watched', Taken', Machine') \/ Done'
  BY <1>1, <1>2 DEF Done
<1> QED
  BY <1>1, <1>3, <1>4 DEF FrameNext

\* The package ends, and the frame is over: its command is answered.
LEMMA PackageEndsKeeps ==
  ASSUME TypeOK, TaskRun, PackageEnds, MaxGap < Timeout, watched' # <<>>, FrameInv, Fits(watched')
  PROVE  FrameNext
<1> USE RxAssumption
<1>1. /\ ~draining /\ wait = 0 /\ watched' = watched /\ todo' = todo /\ rx' = rx
      /\ cmd' = cmd /\ data' = data /\ fsm' = "rest" /\ draining' = draining
  BY Zenon DEF TaskRun, PackageEnds
<1>2. Flow /\ (ReadAt(watched, Taken, Machine) \/ Done) /\ InTime
  BY <1>1, Zenon DEF FrameInv
<1>3. InTime'
  BY <1>1 DEF InTime
<1>4. CASE fsm = "rest"
  <2>1. answers' = answers /\ fsm' = fsm
    BY <1>1, <1>4, Zenon DEF PackageEnds
  <2> QED
    BY <1>1, <1>3, <2>1, QuietKeeps
<1>5. CASE fsm # "rest"
  <2>1. /\ rx \in Seq(Bytes) /\ todo \in Seq(Bytes) /\ watched \in Seq(Bytes)
        /\ Len(rx) \in Nat /\ Len(todo) \in Nat /\ Len(watched) \in Nat
        /\ gap \in 0 .. MaxGap /\ wait \in 0 .. Timeout
    BY <1>1, FrameIsSeq, LenProperties DEF TypeOK
  <2>2. rx = <<>> /\ todo = <<>>
    <3> SUFFICES ASSUME todo # <<>> \/ rx # <<>> PROVE FALSE
      OBVIOUS
    <3>1. IF rx = <<>> THEN wait + gap >= Timeout ELSE wait >= 1
      BY <1>1, <1>2, <1>5, Zenon DEF InTime
    <3> QED
      BY <1>1, <2>1, <3>1
  <2>3. Taken = Len(watched)
    BY <2>1, <2>2, EmptySeq DEF Taken
  <2>4. ReadAt(watched, Taken, Machine) /\ answers = <<>>
    <3>1. ReadAt(watched, Taken, Machine)
      BY <1>2, <1>5, Zenon DEF Done
    <3> QED
      BY <3>1 DEF ReadAt, Machine
  <2>5. Prefixed(watched) /\ (NameRead(watched, Taken, Machine) \/ DataRead(watched, Taken, Machine))
    <3>1. Len(watched) > 3
      <4>1. CASE watched = <<"A", "T", "CR", "LF">>
        BY <4>1
      <4>2. CASE watched # <<"A", "T", "CR", "LF">>
        BY <1>1, <4>2, Zenon DEF Fits
      <4> QED
        BY <4>1, <4>2
    <3>2. Taken # 0 /\ Taken # 1 /\ Taken # 2 /\ Taken # 3
      BY <2>1, <2>3, <3>1
    <3> QED
      BY <2>4, <3>2, Zenon DEF ReadAt
  <2> DEFINE f == watched  n == NameLen(f)
  <2>6. /\ n \in Nat /\ n <= Len(f) - 3 /\ n < CmdMax /\ Len(f) - 3 - n < DataMax
        /\ f[3] = "+"
    BY <1>1, <2>1, <2>5, CommandFits
  <2>7. cmd = NameOf(f) /\ data = RestOf(f)
    <3>1. CASE NameRead(f, Taken, Machine)
      <4>1. cmd = SubSeq(f, 4, Len(f)) /\ data = <<>> /\ Len(f) <= 3 + n
        BY <2>3, <3>1 DEF NameRead, Machine
      <4>2. Len(f) = 3 + n
        BY <2>1, <2>6, <4>1
      <4>3. SubSeq(f, 4 + n, Len(f)) = <<>>
        BY <2>1, <2>6, <4>2, SubSeqEmpty
      <4> QED
        BY <4>1, <4>2, <4>3 DEF NameOf, RestOf
    <3>2. CASE DataRead(f, Taken, Machine)
      BY <2>3, <3>2 DEF DataRead, Machine, RestOf
    <3> QED
      BY <2>5, <3>1, <3>2
  <2>8. Len(data) # DataMax
    <3> HIDE DEF n
    <3>1. \A i \in 4 + n .. Len(f) : f[i] \in Bytes
      BY <2>1, <2>6, ElementOfSeq
    <3>2. Len(SubSeq(f, 4 + n, Len(f))) = IF 4 + n <= Len(f) THEN Len(f) - (4 + n) + 1 ELSE 0
      BY <2>1, <2>6, <3>1, SubSeqProperties
    <3>3. Len(SubSeq(f, 4 + n, Len(f))) = Len(f) - 3 - n
      BY <2>1, <2>6, <3>2
    <3>4. Len(data) = Len(f) - 3 - n
      BY <2>7, <3>3 DEF RestOf, n
    <3> QED
      BY <2>1, <2>6, <3>4
  <2>9. answers' = Append(<<>>, IF EndsLine(data) THEN Runs(cmd, data) ELSE Err02)
    BY <1>1, <1>5, <2>4, <2>8, Zenon DEF PackageEnds, Answered
  <2>10. f # <<"A", "T", "CR", "LF">>
    BY <2>6
  <2>11. Due(f) = IF EndsLine(data) THEN Runs(cmd, data) ELSE Err02
    BY <2>5, <2>6, <2>7, <2>10, Zenon DEF Due
  <2>12. answers' = <<Due(f)>>
    <3> DEFINE a == IF EndsLine(data) THEN Runs(cmd, data) ELSE Err02
    <3> HIDE DEF a
    <3>1. Append(<<>>, a) = <<a>>
      OBVIOUS
    <3> QED
      BY <2>9, <2>11, <3>1, Zenon DEF a
  <2>13. Done'
    BY <1>1, <2>2, <2>12 DEF Done
  <2>14. Taken' = Taken
    BY <1>1 DEF Taken
  <2>15. Flow'
    BY <1>1, <1>2, <2>14 DEF Flow
  <2> QED
    BY <1>3, <2>13, <2>15, Zenon DEF FrameNext
<1> QED
  BY <1>4, <1>5

LEMMA TaskRunKeeps ==
  ASSUME TypeOK, TaskRun, MaxGap < Timeout, watched' # <<>>, FrameInv, Fits(watched')
  PROVE  FrameNext
<1> USE RxAssumption
<1>1. ~draining /\ watched' = watched /\ todo' = todo
  BY Zenon DEF TaskRun
<1>2. gap \in 0 .. MaxGap /\ wait \in 0 .. Timeout
  BY DEF TypeOK
<1>3. gap' = IF todo # <<>> THEN gap + 1 ELSE 0
  BY Zenon DEF TaskRun
<1>4. CASE Waits
  <2>1. /\ rx = <<>> /\ rx' = rx /\ wait' = wait - 1 /\ draining' = draining /\ answers' = answers
        /\ fsm' = fsm /\ cmd' = cmd /\ data' = data
    BY <1>4, Zenon DEF Waits, machine
  <2>2. ASSUME InTime PROVE InTime'
    <3> SUFFICES ASSUME fsm # "rest", todo # <<>> PROVE wait' + gap' >= Timeout
      BY <1>1, <2>1, Zenon DEF InTime
    <3>1. wait + gap >= Timeout
      BY <1>1, <2>1, <2>2, Zenon DEF InTime
    <3> QED
      BY <1>2, <1>3, <2>1, <3>1
  <2> QED
    BY <1>1, <2>1, <2>2, QuietKeeps
<1>5. CASE PackageEnds
  BY <1>5, PackageEndsKeeps
<1>6. CASE DrainBegins
  <2>1. /\ rx' = rx /\ draining' /\ answers' = answers
        /\ fsm' = fsm /\ cmd' = cmd /\ data' = data
    BY <1>6, Zenon DEF DrainBegins, machine
  <2>2. InTime'
    BY <2>1, Zenon DEF InTime
  <2> QED
    BY <1>1, <2>1, <2>2, QuietKeeps
<1> QED
  BY <1>4, <1>5, <1>6, Zenon DEF TaskRun

LEMMA DrainEndsKeeps ==
  ASSUME TypeOK, DrainEnds, watched' # <<>>, FrameInv, Fits(watched')
  PROVE  FrameNext
<1>1. /\ rx = <<>> /\ rx' = rx /\ watched' = watched /\ todo' = todo /\ gap' = gap
      /\ answers' = answers /\ wait' = Timeout
      /\ fsm' = fsm /\ cmd' = cmd /\ data' = data
  BY Zenon DEF DrainEnds, machine, host
<1>2. wait' + gap' >= Timeout
  BY <1>1, RxAssumption DEF TypeOK
<1>3. InTime'
  BY <1>1, <1>2, Zenon DEF InTime
<1> QED
  BY <1>1, <1>3, QuietKeeps

LEMMA FrameInit == Init => FrameInv
  BY Zenon DEF Init, FrameInv

LEMMA FrameStep ==
  ASSUME TypeOK, FrameInv, MaxGap < Timeout, [Next]_vars
  PROVE  FrameInv'
<1> SUFFICES ASSUME watched' # <<>>, Fits(watched') PROVE FrameNext
  BY Zenon DEF FrameInv, FrameNext
<1>1. CASE FrameBegins
  BY <1>1, FrameBeginsKeeps
<1>2. CASE Receives
  BY <1>2, ReceivesKeeps
<1>3. CASE TaskRun
  BY <1>3, TaskRunKeeps
<1>4. CASE TakeByte
  BY <1>4, TakeByteKeeps
<1>5. CASE DrainEnds
  BY <1>5, DrainEndsKeeps
<1>6. CASE UNCHANGED vars
  <2>1. /\ rx' = rx /\ watched' = watched /\ todo' = todo /\ gap' = gap
        /\ answers' = answers /\ wait' = wait /\ draining' = draining
        /\ fsm' = fsm /\ cmd' = cmd /\ data' = data
    BY <1>6, Zenon DEF vars, machine, host
  <2>2. InTime => InTime'
    BY <2>1 DEF InTime
  <2> QED
    BY <2>1, <2>2, QuietKeeps
<1> QED
  BY <1>1, <1>2, <1>3, <1>4, <1>5, <1>6, Zenon DEF Next, TaskStep

LEMMA FrameOver == TypeOK /\ FrameInv => CommandAnswered
<1> SUFFICES ASSUME TypeOK, FrameInv, Settled, Fits(watched) PROVE answers = <<Due(watched)>>
  BY Zenon DEF CommandAnswered
<1>1. watched # <<>> /\ todo = <<>> /\ rx = <<>> /\ fsm = "rest"
  BY Zenon DEF Settled, AtRest
<1>2. watched \in Seq(Bytes)
  BY <1>1, FrameIsSeq DEF TypeOK
<1>3. Taken = Len(watched) /\ Taken # 0
  BY <1>1, <1>2, EmptySeq, LenProperties DEF Taken
<1>4. ~ReadAt(watched, Taken, Machine)
  BY <1>1, <1>3 DEF ReadAt, Machine, NameRead, DataRead
<1> QED
  BY <1>1, <1>4, Zenon DEF FrameInv, Done

\* When the gaps within a frame are shorter than the time-out, a test or a
\* command that fits its buffers, sent to a receiver at rest, is answered once
\* and with its own name and data: for every set of frames, whatever was
\* received before, and however its bytes fall between the runs of the task.
THEOREM CommandIsAnswered == MaxGap < Timeout => (Spec => []CommandAnswered)
<1> SUFFICES ASSUME MaxGap < Timeout PROVE Spec => []CommandAnswered
  OBVIOUS
<1>1. Init => TypeOK /\ FrameInv
  BY TypeInit, FrameInit
<1>2. (TypeOK /\ FrameInv) /\ [Next]_vars => (TypeOK /\ FrameInv)'
  BY TypeStep, FrameStep
<1>3. TypeOK /\ FrameInv => CommandAnswered
  BY FrameOver
<1> QED
  BY <1>1, <1>2, <1>3, PTL DEF Spec

=============================================================================

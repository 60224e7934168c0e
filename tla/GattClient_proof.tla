--------------------------- MODULE GattClient_proof ---------------------------
(* Theorems about GattClient, for every value of its constants. *)
EXTENDS GattClient, TLAPS

(***************************************************************************)
(* Type correctness.                                                       *)
(***************************************************************************)

\* What a GATT call does to the outstanding request is well typed.
LEMMA RequestTypes ==
  ASSUME NEW op \in {"none", "svc", "type", "mtu", "read", "write"},
         NEW to \in {"central", "conn"}, NEW h \in HandleNames, NEW a \in Handles
  PROVE  Request(op, to, h, a) \in Requests
  BY DEF Request, Requests

LEMMA HandleTypes ==
  /\ NotFound \in Handles /\ NotFound.link = 0
  /\ \A g \in Gens, a \in HandleNames, k \in {0, 1} :
       Handle(g, a, k) \in Handles /\ Handle(g, a, k).link = g
  BY GattAssumption DEF NotFound, Handle, Handles, Gens, HandleNames

LEMMA TypeInit == Init => TypeOK
<1> USE GattAssumption
<1>1. 0 \in Gens
  BY DEF Gens
<1>2. NoReq \in Requests
  BY HandleTypes, RequestTypes DEF NoReq, HandleNames
<1>3. SUFFICES ASSUME Init PROVE TypeOK
  OBVIOUS
<1>4. ValuesOK
  BY <1>1, <1>2, <1>3, HandleTypes DEF Init, ValuesOK, DiscStates, Procs, Events
<1>5. MessagesOK
  BY <1>3 DEF Init, MessagesOK
<1>6. FlagsOK
  BY <1>3, Zenon DEF Init, FlagsOK
<1> QED
  BY <1>4, <1>5, <1>6 DEF TypeOK

\* One step per action: no handler, command or answer puts a variable out of
\* its range; for the fragment arithmetic this says that pMsg_len never passes
\* pMsg_wlen.
LEMMA ValuesStep == ValuesOK /\ MessagesOK /\ [Next]_vars => ValuesOK'
<1> USE GattAssumption
<1> SUFFICES ASSUME ValuesOK, MessagesOK, [Next]_vars
             PROVE  ValuesOK'
  OBVIOUS
<1>0. 0 \in Gens /\ gen \in Gens /\ MaxGen \in Nat
  BY DEF Gens, ValuesOK
<1>1. NoReq \in Requests
  BY HandleTypes, RequestTypes DEF NoReq, HandleNames
<1>2. \A r \in Requests : Attempt(r) => pend' \in Requests
  BY DEF Attempt, Accepted, Refused, ValuesOK
<1>3. CASE UNCHANGED vars
  BY <1>3 DEF vars, appVars, tmosVars, stackVars, ValuesOK
<1>4. CASE \E c \in Configs : LinkEstablished(c)
  BY <1>1, <1>4 DEF LinkEstablished, ValuesOK, Procs, Events, Gens
<1>5. CASE LinkDrop
  BY <1>1, <1>5 DEF LinkDrop, ValuesOK, appVars, tmosVars
<1>6. CASE LinkTerminated
  BY <1>6 DEF LinkTerminated, ValuesOK, Procs, DiscStates
<1>7. CASE MtuChange
  <2>1. pend' \in Requests
    BY HandleTypes, <1>2, <1>7, RequestTypes DEF MtuChange, HandleNames
  <2> QED
    BY <1>7, <2>1 DEF MtuChange, ValuesOK, Procs, tmosVars
<1>8. CASE SvcDiscoveryEvt
  <2>1. pend' \in Requests
    BY HandleTypes, <1>2, <1>8, RequestTypes DEF SvcDiscoveryEvt, HandleNames, ValuesOK
  <2>2. hdl' \in [HandleNames -> Handles]
    BY HandleTypes, <1>8 DEF SvcDiscoveryEvt, NoHandles, ValuesOK
  <2> QED
    BY <1>8, <2>1, <2>2 DEF SvcDiscoveryEvt, Over, ValuesOK, DiscStates
<1>9. ASSUME NEW e \in Events, NEW h \in HandleNames, WriteEvt(e, h)
      PROVE  ValuesOK'
  <2>1. Request("write", "conn", h, hdl[h]) \in Requests
    BY RequestTypes DEF ValuesOK
  <2>2. pend' \in Requests
    BY <1>9, <2>1 DEF WriteEvt, WriteStep, Accepted, Refused, ValuesOK
  <2>3. pLen' \in 0 .. MaxLen
    BY <1>9 DEF WriteEvt, WriteStep, FragmentSent, FragmentLen, ValuesOK,
                   DefaultMtu, LargeMtu
  <2>4. pMsg' \in {"none", "spp", "custom"} /\ armed' \subseteq Events
    BY <1>9 DEF WriteEvt, WriteStep, FragmentSent, Again, Over, ValuesOK
  <2> QED
    BY <1>9, <2>2, <2>3, <2>4 DEF WriteEvt, ValuesOK
<1>10. ASSUME NEW e, NEW p \in Procs, NEW r \in Requests, StartProcedure(e, p, r)
       PROVE  ValuesOK'
  BY <1>10 DEF StartProcedure, Accepted, Refused, Again, Over, ValuesOK
<1>11. CASE centralProcessGATTMsg
  <2>1. PICK m \in Messages : GattMsgConnected(m) \/ GattMsgUnmatched
    BY <1>11 DEF centralProcessGATTMsg, MessagesOK
  <2>2. CASE GattMsgUnmatched
    BY <1>11, <2>2 DEF centralProcessGATTMsg, GattMsgUnmatched, ValuesOK
  <2>3. CASE GattMsgConnected(m)
    <3> DEFINE p == IF m.op = "mtu" THEN "free" ELSE proc
    <3>1. p \in Procs
      BY DEF Procs, ValuesOK
    <3>2. mtu' \in {DefaultMtu, LargeMtu}
      BY <2>3 DEF GattMsgConnected, ValuesOK
    <3>3. \A op, h : \A k \in {0, 1} : Found(m, op, h, k) \in [HandleNames -> Handles]
      <4>1. ASSUME NEW op, HasRow(m, op), NEW k \in {0, 1}
            PROVE  Handle(gen, m.row, k) \in Handles
        BY <1>0, <4>1, HandleTypes DEF HasRow, Messages
      <4> QED
        BY <4>1 DEF Found, ValuesOK
    <3>4. \A d : GoTo(d, p) => proc' \in Procs /\ pend' \in Requests /\ discState' = d
      <4>1. \A d : Sought(d) \in HandleNames
        BY DEF Sought, HandleNames
      <4> QED
        BY <1>2, <3>1, <4>1, HandleTypes, RequestTypes DEF GoTo, Procs, ValuesOK
    <3>5. StayInDiscovery(p) => /\ proc' \in Procs /\ pend' \in Requests
                                /\ discState' \in DiscStates /\ armed' \subseteq Events
      BY <3>1 DEF StayInDiscovery, ValuesOK
    <3>6. /\ \A c : AfterSvc(c) \in DiscStates /\ AfterCccd(c) \in DiscStates
                    /\ AfterWrite(c) \in DiscStates
          /\ "IDLE" \in DiscStates /\ "NOTIFY_CCCD" \in DiscStates
      BY DEF AfterSvc, AfterCccd, AfterWrite, DiscStates
    <3>7. armed \subseteq Events /\ armed \cup {"WRITE_CCCD"} \subseteq Events
      BY DEF ValuesOK, Events
    <3>8. /\ discState' \in DiscStates /\ proc' \in Procs /\ pend' \in Requests
          /\ armed' \subseteq Events /\ hdl' \in [HandleNames -> Handles]
      <4>1. CASE ReadAnswer
        BY <4>1 DEF ReadAnswer, ValuesOK, Procs
      <4>2. CASE WriteAnswer(m)
        BY <3>7, <4>2 DEF WriteAnswer, ValuesOK, Procs
      <4>3. CASE proc' = p /\ UNCHANGED <<discState, hdl, pend, armed, ready>>
        BY <3>1, <4>3 DEF ValuesOK
      <4>4. CASE DiscSvc(m, p)
        BY <3>3, <3>4, <3>5, <3>6, <3>7, <4>4 DEF DiscSvc
      <4>5. CASE DiscNotifyChar(m, p)
        BY <3>3, <3>4, <3>5, <3>6, <3>7, <4>5 DEF DiscNotifyChar
      <4>6. CASE DiscNotifyCccd(m, p)
        <5>1. hdl' \in [HandleNames -> Handles]
          BY <3>3, <4>6 DEF DiscNotifyCccd, HandleNames, StayInDiscovery
        <5> QED
          BY <3>4, <3>5, <3>6, <3>7, <4>6, <5>1 DEF DiscNotifyCccd, NextChar
      <4>7. CASE DiscWriteChar(m, p)
        BY <3>3, <3>4, <3>5, <3>6, <3>7, <4>7 DEF DiscWriteChar, NextChar
      <4>8. CASE DiscCustomChar(m, p)
        BY <3>3, <3>4, <3>6, <3>7, <4>8 DEF DiscCustomChar
      <4> QED
        BY <2>3, <4>1, <4>2, <4>3, <4>4, <4>5, <4>6, <4>7, <4>8
        DEF GattMsgConnected, centralGATTDiscoveryEvent
    <3> QED
      BY <1>11, <3>2, <3>8 DEF centralProcessGATTMsg, ValuesOK
  <2> QED
    BY <2>1, <2>2, <2>3
<1>12. ASSUME NEW k \in {"spp", "custom"}, NEW h, NEW e \in Events,
              NEW n \in 0 .. MaxLen, AtWriteCommand(k, h, e, n)
       PROVE  ValuesOK'
  BY <1>12 DEF AtWriteCommand, ValuesOK, stackVars
<1>13. CASE AtCustomRead
  BY <1>13 DEF AtCustomRead, ValuesOK, appVars, stackVars, Events
<1>14. CASE \E c \in Configs : AtSetService(c)
  BY <1>14 DEF AtSetService, ValuesOK, tmosVars, stackVars
<1>15. CASE StackRow
  BY <1>15 DEF StackRow, ValuesOK, appVars, stackVars
<1>16. CASE StackAnswer
  BY <1>1, <1>16 DEF StackAnswer, ValuesOK, appVars
<1>17. CASE StackTimeout
  BY <1>1, <1>17 DEF StackTimeout, ValuesOK, appVars
<1>18. Request("read", "central", "custom", hdl["custom"]) \in Requests
  BY RequestTypes DEF ValuesOK, HandleNames
<1>19. Request("write", "central", "ccc", hdl["ccc"]) \in Requests
  BY RequestTypes DEF ValuesOK, HandleNames
<1> QED
  BY <1>3, <1>4, <1>5, <1>6, <1>7, <1>8, <1>9, <1>10, <1>11, <1>12, <1>13,
     <1>14, <1>15, <1>16, <1>17, <1>18, <1>19
  DEF Next, Firmware, Host, Environment, SppWriteEvt, CustomWriteEvt,
      CustomReadEvt, WriteCccdEvt, AtSppWrite, AtCustomWrite,
      HandleNames, Events, Procs

\* The stack queues GATT messages, and among those that end a request is its
\* answer.
LEMMA AnswerTypes ==
  ASSUME ValuesOK, pend.op # "none"
  PROVE  /\ <<Message(pend.op, "rsp", pend.hdl, "success")>> \in Seq(Messages)
         /\ <<Message(pend.op, "rsp", "none", "timeout")>> \in Seq(Messages)
         /\ \A ms \in Endings : /\ ms \in Seq(Messages)
                                /\ \E i \in 1 .. Len(ms) : ms[i].op = pend.op
<1> DEFINE Rows == HandleNames \cup {"none"}
<1> DEFINE Ops == {"svc", "type", "mtu", "mtuUpdated", "read", "write"}
<1>1. ASSUME NEW op \in Ops, NEW k \in {"rsp", "err"}, NEW f \in Rows,
             NEW st \in {"success", "complete", "timeout"}
      PROVE  Message(op, k, f, st) \in Messages
  BY DEF Message, Messages
<1>2. pend.op \in Ops /\ pend.hdl \in Rows /\ "none" \in Rows
  BY DEF ValuesOK, Requests
<1>3. /\ \A m \in Messages : <<m>> \in Seq(Messages)
      /\ \A m, n \in Messages : <<m, n>> \in Seq(Messages)
  OBVIOUS
<1>4. /\ <<Message(pend.op, "rsp", pend.hdl, "success")>> \in Seq(Messages)
      /\ <<Message(pend.op, "rsp", "none", "timeout")>> \in Seq(Messages)
  <2>1. Message(pend.op, "rsp", pend.hdl, "success") \in Messages
    BY <1>1, <1>2
  <2>2. Message(pend.op, "rsp", "none", "timeout") \in Messages
    BY <1>1, <1>2
  <2> QED
    BY <1>3, <2>1, <2>2
<1>5. ASSUME NEW ms \in Endings
      PROVE  /\ ms \in Seq(Messages)
             /\ \E i \in 1 .. Len(ms) : ms[i].op = pend.op
  <2>1. \A f \in Rows : /\ Message(pend.op, "err", f, "success") \in Messages
                           /\ Message(pend.op, "rsp", f, "complete") \in Messages
                           /\ Message(pend.op, "rsp", f, "success") \in Messages
                           /\ Message("mtuUpdated", "rsp", f, "success") \in Messages
                           /\ Message("mtu", "rsp", f, "success") \in Messages
    BY <1>1, <1>2
  <2>2. \A f \in Rows : /\ Message(pend.op, "err", f, "success").op = pend.op
                           /\ Message(pend.op, "rsp", f, "complete").op = pend.op
                           /\ Message(pend.op, "rsp", f, "success").op = pend.op
                           /\ Message("mtu", "rsp", f, "success").op = "mtu"
    BY DEF Message
  <2>3. \/ \E m \in Messages : ms = <<m>> /\ m.op = pend.op
        \/ \E m, n \in Messages : ms = <<m, n>> /\ n.op = pend.op
    BY <1>2, <2>1, <2>2 DEF Endings
  <2>4. CASE \E m \in Messages : ms = <<m>> /\ m.op = pend.op
    <3>1. Len(ms) = 1 /\ ms[1].op = pend.op
      BY <2>4
    <3> QED
      BY <1>3, <2>4, <3>1
  <2>5. CASE \E m, n \in Messages : ms = <<m, n>> /\ n.op = pend.op
    <3>1. Len(ms) = 2 /\ ms[2].op = pend.op
      BY <2>5
    <3> QED
      BY <1>3, <2>5, <3>1
  <2> QED
    BY <2>3, <2>4, <2>5
<1> QED
  BY <1>4, <1>5

\* Whatever is queued for the central task is a GATT message.
LEMMA MessagesStep == ValuesOK /\ MessagesOK /\ [Next]_vars => MessagesOK'
<1> SUFFICES ASSUME ValuesOK, MessagesOK, [Next]_vars
             PROVE  MessagesOK'
  OBVIOUS
<1>1. ASSUME NEW ms \in Seq(Messages), Post(ms)
      PROVE  MessagesOK'
  BY <1>1 DEF Post, MessagesOK
<1>2. CASE StackRow
  <2>1. pend.op # "none"
    BY <1>2 DEF StackRow
  <2> QED
    BY <1>1, <1>2, <2>1, AnswerTypes DEF StackRow
<1>3. CASE StackAnswer
  <2>1. PICK ms \in Endings : Post(ms) \/ UNCHANGED inbox
    BY <1>3 DEF StackAnswer
  <2>2. ms \in Seq(Messages)
    BY <1>3, <2>1, AnswerTypes DEF StackAnswer
  <2> QED
    BY <1>1, <2>1, <2>2 DEF MessagesOK
<1>4. CASE StackTimeout
  BY <1>1, <1>4, AnswerTypes DEF StackTimeout, MessagesOK
<1>5. CASE centralProcessGATTMsg
  BY <1>5 DEF centralProcessGATTMsg, MessagesOK
<1>6. CASE UNCHANGED inbox
  BY <1>6 DEF MessagesOK
<1> QED
  BY <1>2, <1>3, <1>4, <1>5, <1>6
  DEF Next, Firmware, Host, Environment, vars, appVars, tmosVars, stackVars,
      LinkEstablished, LinkDrop, LinkTerminated, MtuChange, SvcDiscoveryEvt,
      SppWriteEvt, CustomWriteEvt, WriteEvt, CustomReadEvt, WriteCccdEvt,
      StartProcedure, AtSppWrite, AtCustomWrite, AtWriteCommand, AtCustomRead,
      AtSetService

LEMMA FlagsStep == FlagsOK /\ [Next]_vars => FlagsOK'
<1> SUFFICES ASSUME FlagsOK, [Next]_vars
             PROVE  FlagsOK'
  OBVIOUS
<1>1. attDead' \in BOOLEAN
  <2>1. attDead' = TRUE \/ attDead' = FALSE \/ attDead' = attDead
    BY DEF Next, Firmware, Host, Environment, vars, appVars, tmosVars, stackVars,
      LinkEstablished, LinkDrop, LinkTerminated, MtuChange, SvcDiscoveryEvt,
      SppWriteEvt, CustomWriteEvt, WriteEvt, CustomReadEvt, WriteCccdEvt,
      StartProcedure, centralProcessGATTMsg, AtSppWrite, AtCustomWrite,
      AtWriteCommand, AtCustomRead, AtSetService, StackRow, StackAnswer,
      StackTimeout
  <2> QED
    BY <2>1, Zenon DEF FlagsOK
<1>2. enabled' \in BOOLEAN
  BY DEF FlagsOK, Next, Firmware, Host, Environment, vars, appVars, tmosVars,
      stackVars, LinkEstablished, LinkDrop, LinkTerminated, MtuChange,
      SvcDiscoveryEvt, SppWriteEvt, CustomWriteEvt, WriteEvt, CustomReadEvt,
      WriteCccdEvt, StartProcedure, centralProcessGATTMsg, AtSppWrite,
      AtCustomWrite, AtWriteCommand, AtCustomRead, AtSetService, StackRow,
      StackAnswer, StackTimeout
<1>3. ready' \in BOOLEAN
  BY DEF FlagsOK, Next, Firmware, Host, Environment, vars, appVars, tmosVars,
      stackVars, LinkEstablished, LinkDrop, LinkTerminated, MtuChange,
      SvcDiscoveryEvt, SppWriteEvt, CustomWriteEvt, WriteEvt, CustomReadEvt,
      WriteCccdEvt, StartProcedure, centralProcessGATTMsg, GattMsgConnected,
      GattMsgUnmatched, ReadAnswer, WriteAnswer, AtSppWrite, AtCustomWrite,
      AtWriteCommand, AtCustomRead, AtSetService, StackRow, StackAnswer,
      StackTimeout
<1> QED
  BY <1>1, <1>2, <1>3 DEF FlagsOK

\* Every variable of a slot stays in its range, whatever the interleaving of
\* callbacks, timers, messages and AT commands.
THEOREM TypeCorrect == Spec => []TypeOK
<1>1. TypeOK /\ [Next]_vars => TypeOK'
  BY ValuesStep, MessagesStep, FlagsStep DEF TypeOK
<1> QED
  BY TypeInit, <1>1, PTL DEF Spec

(***************************************************************************)
(* The buffered write.  WriteInv is the inductive invariant: that the      *)
(* armed event is the one of the buffered write can be lost only when a    *)
(* slot is taken again, so the proof needs that an idle slot holds no      *)
(* write, and that a slot is idle exactly when the stack has no link for   *)
(* it; and the fragment arithmetic needs that something is left to send.   *)
(***************************************************************************)

LinkedState == state = "idle" <=> link = "none"

\* An idle slot holds no buffered write, which the next link would drop.  (A
\* host that names 000000000000 breaks this: ZeroMac.)
IdleHoldsNothing == state = "idle" => pMsg = "none"

WriteInv == LinkedState /\ IdleHoldsNothing /\ WriteEventMatches /\ WriteHasRest

LEMMA LinkedInvariant == Spec => []LinkedState
<1>1. Init => LinkedState
  BY DEF Init, LinkedState
<1>2. LinkedState /\ [Next]_vars => LinkedState'
  BY DEF LinkedState, Next, Firmware, Host, Environment, vars, appVars, tmosVars,
      stackVars, LinkEstablished, LinkDrop, LinkTerminated, MtuChange,
      SvcDiscoveryEvt, SppWriteEvt, CustomWriteEvt, WriteEvt, CustomReadEvt,
      WriteCccdEvt, StartProcedure, centralProcessGATTMsg, AtSppWrite,
      AtCustomWrite, AtWriteCommand, AtCustomRead, AtSetService, StackRow,
      StackAnswer, StackTimeout
<1> QED
  BY <1>1, <1>2, PTL DEF Spec

LEMMA WriteInvInit == Init => WriteInv
  BY DEF Init, WriteInv, LinkedState, IdleHoldsNothing, WriteEventMatches,
         WriteHasRest, WriteEvents

\* The two write handlers: every way out keeps event and buffer together.
LEMMA WriteEvtStep ==
  ASSUME ValuesOK, WriteInv,
         NEW e \in WriteEvents, NEW h \in HandleNames, WriteEvt(e, h)
  PROVE  WriteInv'
<1> USE DEF WriteInv
<1>1. LinkedState' /\ state' = state
  BY DEF WriteEvt, LinkedState
<1>2. pMsg' \in {pMsg, "none"}
  BY DEF WriteEvt, WriteStep, FragmentSent
<1>3. IdleHoldsNothing'
  BY <1>1, <1>2 DEF IdleHoldsNothing
<1>4. state = "connected" /\ pMsg # "none" => e = EventOf(pMsg)
  BY DEF WriteEventMatches, WriteEvt, Dispatch, WriteEvents
<1>5. WriteEventMatches'
  <2>1. SUFFICES ASSUME state = "connected"
                 PROVE  armed' \cap WriteEvents =
                          IF pMsg' = "none" THEN {} ELSE {EventOf(pMsg')}
    BY <1>1 DEF WriteEventMatches
  <2>2. pMsg # "none" /\ e = EventOf(pMsg) /\ armed \cap WriteEvents = {e}
    BY <1>4, <2>1 DEF WriteEventMatches, WriteEvt, Dispatch
  <2>3. \/ pMsg' = pMsg /\ armed' = armed
        \/ pMsg' = "none" /\ armed' = armed \ {e}
    BY <2>2 DEF WriteEvt, WriteStep, FragmentSent, Again, Over
  <2> QED
    BY <2>2, <2>3
<1>6. WriteHasRest'
  BY GattAssumption
  DEF WriteHasRest, WriteEvt, WriteStep, FragmentSent, FragmentLen, ValuesOK,
      DefaultMtu, LargeMtu
<1> QED
  BY <1>1, <1>3, <1>5, <1>6

LEMMA WriteInvStep ==
  ASSUME ZeroMac = FALSE
  PROVE  ValuesOK /\ WriteInv /\ [Next]_vars => WriteInv'
<1> SUFFICES ASSUME ValuesOK, WriteInv, [Next]_vars
             PROVE  WriteInv'
  OBVIOUS
<1> USE DEF WriteInv
<1>1. CASE UNCHANGED <<state, link, pMsg, pLen, wLen, armed>>
  BY <1>1 DEF LinkedState, IdleHoldsNothing, WriteEventMatches, WriteHasRest
<1>2. CASE \E c \in Configs : LinkEstablished(c)
  <2>1. armed \cap WriteEvents = {}
    BY <1>2 DEF LinkEstablished, Drained, LinkedState, IdleHoldsNothing, WriteEvents
  <2> QED
    BY <1>2, <2>1 DEF LinkEstablished, LinkedState, IdleHoldsNothing,
                      WriteEventMatches, WriteHasRest, WriteEvents
<1>3. CASE LinkDrop
  BY <1>3 DEF LinkDrop, appVars, tmosVars, LinkedState, IdleHoldsNothing,
              WriteEventMatches, WriteHasRest
<1>4. CASE LinkTerminated
  BY <1>4 DEF LinkTerminated, LinkedState, IdleHoldsNothing, WriteEventMatches,
              WriteHasRest
<1>5. CASE SppWriteEvt \/ CustomWriteEvt
  BY <1>5, WriteEvtStep DEF SppWriteEvt, CustomWriteEvt, WriteEvents, HandleNames
\* The other handlers and commands leave the buffered write and its event alone.
<1>6. ASSUME UNCHANGED <<state, link, pMsg, pLen, wLen>>,
             armed' \cap WriteEvents = armed \cap WriteEvents
      PROVE  WriteInv'
  BY <1>6 DEF LinkedState, IdleHoldsNothing, WriteEventMatches, WriteHasRest
<1>7. CASE SvcDiscoveryEvt
  BY <1>6, <1>7 DEF SvcDiscoveryEvt, Over, WriteEvents
<1>8. CASE CustomReadEvt \/ WriteCccdEvt
  BY <1>6, <1>8 DEF CustomReadEvt, WriteCccdEvt, StartProcedure, Again, Over,
                    WriteEvents
<1>9. CASE centralProcessGATTMsg
  <2>1. armed' \in {armed, armed \cup {"WRITE_CCCD"}}
    BY <1>9 DEF centralProcessGATTMsg, GattMsgUnmatched, GattMsgConnected,
       ReadAnswer, WriteAnswer, centralGATTDiscoveryEvent, DiscSvc,
       DiscNotifyChar, DiscNotifyCccd, DiscWriteChar, DiscCustomChar, NextChar,
       StayInDiscovery
  <2> QED
    BY <1>6, <1>9, <2>1 DEF centralProcessGATTMsg, WriteEvents
<1>10. CASE AtCustomRead
  BY <1>6, <1>10 DEF AtCustomRead, appVars, stackVars, WriteEvents
<1>11. ASSUME NEW k \in {"spp", "custom"}, NEW h, NEW n \in 0 .. MaxLen,
              AtWriteCommand(k, h, EventOf(k), n)
       PROVE  WriteInv'
  <2>1. state = "connected" /\ UNCHANGED <<state, link>>
    BY <1>11 DEF AtWriteCommand, Named, stackVars
  <2>2. armed \cap WriteEvents = {} /\ EventOf(k) \in WriteEvents
    BY <1>11, <2>1 DEF AtWriteCommand, WriteEventMatches, EventOf, WriteEvents
  <2> QED
    BY <1>11, <2>1, <2>2 DEF AtWriteCommand, LinkedState, IdleHoldsNothing,
                             WriteEventMatches, WriteHasRest
<1>12. CASE \E n \in 0 .. MaxLen : AtSppWrite(n) \/ AtCustomWrite(n)
  BY <1>11, <1>12 DEF AtSppWrite, AtCustomWrite, EventOf
<1>13. CASE MtuChange \/ (\E c \in Configs : AtSetService(c)) \/ StackRow
            \/ StackAnswer \/ StackTimeout \/ UNCHANGED vars
  BY <1>1, <1>13 DEF MtuChange, AtSetService, StackRow, StackAnswer, StackTimeout,
                     vars, appVars, tmosVars, stackVars
<1> QED
  BY <1>2, <1>3, <1>4, <1>5, <1>7, <1>8, <1>9, <1>10, <1>12, <1>13
  DEF Next, Firmware, Host, Environment

LEMMA WriteInvariant == ASSUME ZeroMac = FALSE PROVE Spec => []WriteInv
  BY TypeCorrect, WriteInvInit, WriteInvStep, PTL DEF Spec, TypeOK

\* On a connected slot the armed write event is exactly that of the buffered
\* write, over all reuses of the slot: no write is left without its event, and
\* no event outlives its write.
THEOREM EventMatchesWrite ==
  ASSUME ZeroMac = FALSE PROVE Spec => []WriteEventMatches
  BY WriteInvariant, PTL DEF WriteInv

\* A buffered write that is not empty always has something left to send.
THEOREM SomethingLeft ==
  ASSUME ZeroMac = FALSE PROVE Spec => []WriteHasRest
  BY WriteInvariant, PTL DEF WriteInv

(***************************************************************************)
(* The slot implements AtWrite.                                            *)
(***************************************************************************)

\* One disjunct of AtWrite!Next, or a stutter, for each step of the slot.
LEMMA WriteStepSimulates ==
  ASSUME ZeroMac = FALSE
  PROVE  ValuesOK /\ WriteInv /\ [Next]_vars => [Abstract!Next]_(Abstract!vars)
<1> SUFFICES ASSUME ValuesOK, WriteInv, [Next]_vars
             PROVE  Abstract!Next \/ UNCHANGED Abstract!vars
  OBVIOUS
<1> USE DEF WriteInv
<1>1. CASE UNCHANGED <<state, pMsg, pLen, wLen>>
  BY <1>1 DEF Abstract!vars
<1>2. CASE \E c \in Configs : LinkEstablished(c)
  <2>1. /\ state = "idle" /\ state' = "connected"
        /\ pMsg = "none" /\ pMsg' = "none" /\ UNCHANGED <<pLen, wLen>>
    BY <1>2 DEF LinkEstablished, LinkedState, IdleHoldsNothing
  <2> QED
    BY <2>1 DEF Abstract!Next, Abstract!Connect
<1>3. CASE LinkTerminated
  <2>1. /\ state = "connected" /\ state' = "idle"
        /\ pMsg' = "none" /\ UNCHANGED <<pLen, wLen>>
    BY <1>3 DEF LinkTerminated, LinkedState, ValuesOK
  <2> QED
    BY <2>1 DEF Abstract!Next, Abstract!Disconnect
<1>4. ASSUME NEW e \in WriteEvents, NEW h \in HandleNames, WriteEvt(e, h)
      PROVE  Abstract!Next \/ UNCHANGED Abstract!vars
  <2> USE <1>4 DEF WriteEvt
  <2>1. CASE UNCHANGED <<pMsg, pLen>>
    BY <1>1, <2>1
  <2>2. CASE pMsg # "none" /\ wLen = 0 /\ pMsg' = "none" /\ UNCHANGED pLen
    BY <2>2 DEF Abstract!Next, Abstract!Finish
  <2>3. CASE /\ pMsg # "none" /\ wLen # 0
             /\ pLen' = pLen + FragmentLen
             /\ IF pLen' >= wLen THEN pMsg' = "none" ELSE UNCHANGED pMsg
    <3>1. state = "connected"
      BY <2>3 DEF IdleHoldsNothing, ValuesOK
    <3>2. /\ FragmentLen \in 1 .. MaxLen /\ FragmentLen <= wLen - pLen
          /\ pLen \in Nat /\ wLen \in Nat
      BY <2>3, GattAssumption DEF WriteHasRest, FragmentLen, ValuesOK, DefaultMtu,
                                  LargeMtu
    <3>3. Abstract!Send(FragmentLen)
      BY <2>3, <3>1, <3>2 DEF Abstract!Send
    <3> QED
      BY <3>2, <3>3 DEF Abstract!Next
  <2> QED
    BY <2>1, <2>2, <2>3 DEF WriteStep, FragmentSent
<1>5. ASSUME NEW k \in {"spp", "custom"}, NEW h, NEW e, NEW n \in 0 .. MaxLen,
             AtWriteCommand(k, h, e, n)
      PROVE  Abstract!Next \/ UNCHANGED Abstract!vars
  <2>1. state = "connected" /\ state' = state /\ pMsg = "none" /\ wLen' = n
    BY <1>5 DEF AtWriteCommand, Named
  <2>2. CASE pMsg' = k /\ pLen' = 0
    <3>1. Abstract!Accept(k, n)
      BY <2>1, <2>2, GattAssumption DEF Abstract!Accept
    <3> QED
      BY <3>1 DEF Abstract!Next
  <2>3. CASE UNCHANGED <<pMsg, pLen>>
    <3>1. Abstract!Reject(n)
      BY <2>1, <2>3 DEF Abstract!Reject
    <3> QED
      BY <3>1 DEF Abstract!Next
  <2> QED
    BY <1>5, <2>2, <2>3 DEF AtWriteCommand
<1> QED
  BY <1>1, <1>2, <1>3, <1>4, <1>5
  DEF Next, Firmware, Host, Environment, vars, appVars, tmosVars, stackVars,
      LinkDrop, MtuChange, SvcDiscoveryEvt, SppWriteEvt, CustomWriteEvt,
      CustomReadEvt, WriteCccdEvt, StartProcedure, centralProcessGATTMsg,
      AtSppWrite, AtCustomWrite, AtCustomRead, AtSetService, StackRow,
      StackAnswer, StackTimeout, WriteEvents, HandleNames

\* AT+SPPWRITE and AT+CUSTOMWRITE keep the promise of AtWrite: one write at a
\* time, handed over in full, in order and once, or gone with the connection.
THEOREM ImplementsAtWrite == ASSUME ZeroMac = FALSE PROVE Spec => WriteRefines
<1>1. Init => Abstract!Init
  BY DEF Init, Abstract!Init
<1> QED
  BY TypeCorrect, WriteInvariant, WriteStepSimulates, <1>1, PTL
  DEF Spec, TypeOK, WriteRefines, Abstract!Spec

(***************************************************************************)
(* What discovery and the procedures leave behind.                         *)
(***************************************************************************)

LEMMA HandlesFreshStep == ValuesOK /\ HandlesFresh /\ [Next]_vars => HandlesFresh'
<1> SUFFICES ASSUME ValuesOK, HandlesFresh, [Next]_vars
             PROVE  HandlesFresh'
  OBVIOUS
<1>1. CASE UNCHANGED <<state, conf, hdl, gen>>
           /\ ("SVC_DISCOVERY" \in armed => "SVC_DISCOVERY" \in armed')
  BY <1>1 DEF HandlesFresh
<1>2. CASE \E c \in Configs : LinkEstablished(c)
  BY <1>2 DEF LinkEstablished, HandlesFresh
<1>3. CASE LinkTerminated
  BY <1>3 DEF LinkTerminated, HandlesFresh
<1>4. CASE SvcDiscoveryEvt
  <2>1. ~conf.vendor => conf.svc
    BY GattAssumption DEF ValuesOK
  <2> QED
    BY <1>4, <2>1, HandleTypes DEF SvcDiscoveryEvt, NoHandles, HandlesFresh
<1>5. CASE \E c \in Configs : AtSetService(c)
  BY <1>5 DEF AtSetService, HandlesFresh
<1>6. CASE centralProcessGATTMsg
  <2>1. /\ UNCHANGED <<state, conf, gen>>
        /\ armed' \in {armed, armed \cup {"WRITE_CCCD"}}
    BY <1>6 DEF centralProcessGATTMsg, GattMsgUnmatched, GattMsgConnected,
       ReadAnswer, WriteAnswer, centralGATTDiscoveryEvent, DiscSvc,
       DiscNotifyChar, DiscNotifyCccd, DiscWriteChar, DiscCustomChar, NextChar,
       StayInDiscovery
  <2>2. \A m, op, x, k : /\ DOMAIN Found(m, op, x, k) = HandleNames
                          /\ \A h \in HandleNames :
                               Found(m, op, x, k)[h].link \in {hdl[h].link, gen}
    <3>1. \A a, k : Handle(gen, a, k).link = gen
      BY DEF Handle
    <3> QED
      BY <3>1 DEF Found, ValuesOK
  <2>3. \A h \in HandleNames : \/ hdl'[h].link \in {hdl[h].link, gen}
                               \/ hdl'[h].link \in {hdl["notify"].link, gen}
    <3>1. ASSUME NEW m, NEW op, NEW x, NEW k, hdl' = Found(m, op, x, k)
          PROVE  \A h \in HandleNames : hdl'[h].link \in {hdl[h].link, gen}
      BY <2>2, <3>1
    <3>2. ASSUME NEW m, NEW p, DiscNotifyCccd(m, p)
          PROVE  \A h \in HandleNames : \/ hdl'[h].link \in {hdl[h].link, gen}
                                        \/ hdl'[h].link \in {hdl["notify"].link, gen}
      <4> DEFINE f == Found(m, "type", "ccc", 0)
      <4>1. hdl' = f \/ hdl' = [f EXCEPT !["write"] = f["notify"]]
        BY <3>2 DEF DiscNotifyCccd
      <4>2. DOMAIN f = HandleNames /\ "notify" \in HandleNames
        BY <2>2 DEF HandleNames
      <4>3. \A h \in HandleNames : f[h].link \in {hdl[h].link, gen}
        BY <2>2
      <4> HIDE DEF f
      <4> QED
        BY <4>1, <4>2, <4>3
    <3>3. \/ hdl' = hdl
          \/ \E m, op, x, k : hdl' = Found(m, op, x, k)
          \/ \E m, p : DiscNotifyCccd(m, p)
      BY <1>6 DEF centralProcessGATTMsg, GattMsgUnmatched, GattMsgConnected,
         ReadAnswer, WriteAnswer, centralGATTDiscoveryEvent, DiscSvc,
         DiscNotifyChar, DiscWriteChar, DiscCustomChar
    <3> QED
      BY <3>1, <3>2, <3>3
  <2> QED
    BY <2>1, <2>3 DEF HandlesFresh, HandleNames
<1> QED
  BY <1>1, <1>2, <1>3, <1>4, <1>5, <1>6
  DEF Next, Firmware, Host, Environment, vars, appVars, tmosVars, stackVars,
      LinkDrop, MtuChange, SppWriteEvt, CustomWriteEvt, WriteEvt, WriteStep,
      CustomReadEvt, WriteCccdEvt, StartProcedure, FragmentSent, Again, Over,
      AtSppWrite, AtCustomWrite, AtWriteCommand, AtCustomRead, StackRow, StackAnswer,
      StackTimeout

\* Once discovery has started on a link with a built-in service, no handle of
\* an earlier link of the slot is left.
THEOREM NoStaleHandle == Spec => []HandlesFresh
<1>1. Init => HandlesFresh
  BY DEF Init, HandlesFresh
<1> QED
  BY TypeCorrect, HandlesFreshStep, <1>1, PTL DEF Spec, TypeOK

\* The answer to procedure p is outstanding, or queued.
Asked(p)  == pend.op # "none" /\ pend.to = "central" /\ IsAnswerTo(p, pend)
Queued(p) == \E i \in 1 .. Len(inbox) : IsAnswerTo(p, inbox[i])

\* What is queued stays in its place, and the new messages follow it.
LEMMA PostPlaces ==
  ASSUME MessagesOK, NEW ms \in Seq(Messages), Post(ms)
  PROVE  /\ Len(inbox') = Len(inbox) + Len(ms)
         /\ Len(inbox) \in Nat /\ Len(ms) \in Nat
         /\ \A i \in 1 .. Len(inbox) : inbox'[i] = inbox[i]
         /\ \A i \in 1 .. Len(ms) : inbox'[Len(inbox) + i] = ms[i]
<1>1. inbox \in Seq(Messages) /\ inbox' = inbox \o ms
  BY DEF MessagesOK, Post
<1> QED
  BY <1>1

\* Queueing more loses no answer, and queueing one provides it.
LEMMA PostKeeps ==
  ASSUME MessagesOK, NEW ms \in Seq(Messages), Post(ms), NEW p
  PROVE  /\ Queued(p) => Queued(p)'
         /\ \A i \in 1 .. Len(ms) : IsAnswerTo(p, ms[i]) => Queued(p)'
<1>1. /\ Len(inbox') = Len(inbox) + Len(ms)
      /\ Len(inbox) \in Nat /\ Len(ms) \in Nat
      /\ \A i \in 1 .. Len(inbox) : inbox'[i] = inbox[i]
      /\ \A i \in 1 .. Len(ms) : inbox'[Len(inbox) + i] = ms[i]
  BY PostPlaces
<1>2. Queued(p) => Queued(p)'
  BY <1>1 DEF Queued, IsAnswerTo
<1>3. ASSUME NEW i \in 1 .. Len(ms), IsAnswerTo(p, ms[i])
      PROVE  Queued(p)'
  <2>1. Len(inbox) + i \in 1 .. Len(inbox')
    BY <1>1
  <2> QED
    BY <1>1, <1>3, <2>1 DEF Queued, IsAnswerTo
<1> QED
  BY <1>2, <1>3

\* Taking the head away loses only an answer that is the head.
LEMMA TailKeeps ==
  ASSUME MessagesOK, inbox # <<>>, inbox' = Tail(inbox), NEW p, Queued(p)
  PROVE  Queued(p)' \/ IsAnswerTo(p, Head(inbox))
<1>1. PICK i \in 1 .. Len(inbox) : IsAnswerTo(p, inbox[i])
  BY DEF Queued
<1>2. CASE i = 1
  BY <1>1, <1>2 DEF MessagesOK
<1>3. CASE i # 1
  <2>1. i - 1 \in 1 .. Len(Tail(inbox)) /\ Tail(inbox)[i - 1] = inbox[i]
    BY <1>3 DEF MessagesOK
  <2> QED
    BY <1>1, <2>1 DEF Queued, IsAnswerTo
<1> QED
  BY <1>2, <1>3

LEMMA BusyStep ==
  TypeOK /\ LinkedState /\ BusyHasAnswer /\ [Next]_vars => BusyHasAnswer'
<1> SUFFICES ASSUME TypeOK, LinkedState, BusyHasAnswer, [Next]_vars,
                    proc' \in {"read", "cccd"}, link' = "up"
             PROVE  Asked(proc)' \/ Queued(proc)'
  BY DEF BusyHasAnswer, Asked, Queued
<1> USE DEF TypeOK
<1>1. proc' = proc /\ link = "up" => Asked(proc) \/ Queued(proc)
  BY DEF BusyHasAnswer, Asked, Queued
<1>2. CASE UNCHANGED <<proc, link, pend, inbox>>
  BY <1>1, <1>2 DEF Asked, Queued, IsAnswerTo
\* A call of the stack is granted only when no request is outstanding.
<1>3. ASSUME NEW r, Attempt(r), UNCHANGED <<proc, link, inbox>>
      PROVE  Asked(proc)' \/ Queued(proc)'
  BY <1>1, <1>3 DEF Attempt, Accepted, Refused, Free, Asked, Queued, IsAnswerTo
<1>4. CASE \E c \in Configs : LinkEstablished(c)
  BY <1>4 DEF LinkEstablished
<1>5. CASE LinkDrop \/ LinkTerminated
  BY <1>5 DEF LinkDrop, LinkTerminated
<1>6. CASE MtuChange
  BY <1>6 DEF MtuChange
<1>7. CASE SvcDiscoveryEvt
  BY <1>2, <1>3, <1>7 DEF SvcDiscoveryEvt
<1>8. CASE SppWriteEvt \/ CustomWriteEvt
  BY <1>8 DEF SppWriteEvt, CustomWriteEvt, WriteEvt, WriteStep, Refused,
              BusyHasAnswer, Asked, Queued, IsAnswerTo
<1>9. CASE CustomReadEvt \/ WriteCccdEvt
  <2>1. CASE UNCHANGED <<proc, pend>>
    BY <1>2, <1>9, <2>1 DEF CustomReadEvt, WriteCccdEvt, StartProcedure
  <2>2. CASE \/ /\ proc' = "read"
                /\ pend' = Request("read", "central", "custom", hdl["custom"])
             \/ /\ proc' = "cccd"
                /\ pend' = Request("write", "central", "ccc", hdl["ccc"])
    BY <2>2 DEF Asked, IsAnswerTo, Request
  <2> QED
    BY <1>9, <2>1, <2>2 DEF CustomReadEvt, WriteCccdEvt, StartProcedure, Accepted
<1>10. CASE centralProcessGATTMsg
  <2>1. PICK m : m = Head(inbox) /\ (GattMsgConnected(m) \/ GattMsgUnmatched)
    BY <1>10 DEF centralProcessGATTMsg
  <2>2. inbox # <<>> /\ inbox' = Tail(inbox) /\ link = "up"
    BY <1>10 DEF centralProcessGATTMsg
  \* A message that leaves the procedure in progress is not its answer, and the
  \* request made of it, if any, found no other outstanding.
  <2>3. proc' = proc /\ ~IsAnswerTo(proc, m)
    <3>1. CASE ReadAnswer /\ m.op = "read"
      BY <3>1 DEF ReadAnswer, IsAnswerTo
    <3>2. CASE WriteAnswer(m)
      BY <3>2 DEF WriteAnswer
    <3>3. CASE GattMsgUnmatched
      BY <2>2, <3>3 DEF GattMsgUnmatched, LinkedState
    <3>4. CASE /\ m.op \notin {"read", "write"}
               /\ proc' \in {"free", IF m.op = "mtu" THEN "free" ELSE proc}
      BY <3>4 DEF IsAnswerTo
    <3> QED
      BY <2>1, <3>1, <3>2, <3>3, <3>4 DEF GattMsgConnected,
         centralGATTDiscoveryEvent, DiscSvc, DiscNotifyChar, DiscNotifyCccd,
         DiscWriteChar, DiscCustomChar, NextChar, StayInDiscovery, GoTo
  <2>4. UNCHANGED pend \/ pend.op = "none"
    BY <2>1 DEF GattMsgUnmatched, GattMsgConnected, ReadAnswer, WriteAnswer,
       centralGATTDiscoveryEvent, DiscSvc, DiscNotifyChar, DiscNotifyCccd,
       DiscWriteChar, DiscCustomChar, NextChar, StayInDiscovery, GoTo, Attempt,
       Accepted, Refused, Free
  <2>5. Queued(proc) => Queued(proc)'
    <3>1. ASSUME NEW p, Queued(p), ~IsAnswerTo(p, Head(inbox))
          PROVE  Queued(p)'
      BY <2>2, <3>1, TailKeeps
    <3> QED
      BY <2>1, <2>3, <3>1 DEF Queued
  <2> QED
    BY <1>1, <2>2, <2>3, <2>4, <2>5 DEF Asked, IsAnswerTo
\* What ends the request of the procedure queues its answer.
<1>11. ASSUME NEW ms \in Seq(Messages), Post(ms), UNCHANGED <<proc, link>>,
              \/ UNCHANGED pend
              \/ \E i \in 1 .. Len(ms) : ms[i].op = pend.op
       PROVE  Asked(proc)' \/ Queued(proc)'
  <2>1. /\ Queued(proc) => Queued(proc)'
        /\ \A i \in 1 .. Len(ms) : IsAnswerTo(proc, ms[i]) => Queued(proc)'
    <3>1. ASSUME NEW p
          PROVE  /\ Queued(p) => Queued(p)'
                 /\ \A i \in 1 .. Len(ms) : IsAnswerTo(p, ms[i]) => Queued(p)'
      BY <1>11, PostKeeps
    <3> QED
      BY <1>11, <3>1 DEF Queued
  <2> QED
    BY <1>1, <1>11, <2>1 DEF Asked, IsAnswerTo
<1>12. CASE StackRow
  BY <1>11, <1>12, AnswerTypes DEF StackRow, appVars, stackVars
<1>13. ASSUME pend.to # "central", UNCHANGED <<proc, link, inbox>>
       PROVE  Asked(proc)' \/ Queued(proc)'
  BY <1>1, <1>13 DEF Asked, Queued, IsAnswerTo
<1>14. CASE StackAnswer
  <2>1. PICK ms \in Endings : IF pend.to = "central" THEN Post(ms) ELSE UNCHANGED inbox
    BY <1>14 DEF StackAnswer
  <2>2. ms \in Seq(Messages) /\ \E i \in 1 .. Len(ms) : ms[i].op = pend.op
    BY <1>14, <2>1, AnswerTypes DEF StackAnswer
  <2> QED
    BY <1>11, <1>13, <1>14, <2>1, <2>2 DEF StackAnswer, appVars
<1>15. CASE StackTimeout
  <2> DEFINE ms == <<Message(pend.op, "rsp", "none", "timeout")>>
  <2>1. ms \in Seq(Messages) /\ Len(ms) = 1 /\ ms[1].op = pend.op
    BY <1>15, AnswerTypes DEF StackTimeout, Message
  <2>2. IF pend.to = "central" THEN Post(ms) ELSE UNCHANGED inbox
    BY <1>15 DEF StackTimeout
  <2> HIDE DEF ms
  <2>3. \E i \in 1 .. Len(ms) : ms[i].op = pend.op
    BY <2>1
  <2> QED
    BY <1>11, <1>13, <1>15, <2>1, <2>2, <2>3 DEF StackTimeout, appVars
<1> QED
  BY <1>2, <1>4, <1>5, <1>6, <1>7, <1>8, <1>9, <1>10, <1>12, <1>14, <1>15
  DEF Next, Firmware, Host, Environment, vars, appVars, tmosVars, stackVars,
      AtSppWrite, AtCustomWrite, AtWriteCommand, AtCustomRead, AtSetService

\* A slot busy with a read or a CCCD write always has its answer coming, over
\* every order of answers, timeouts, MTU callbacks and discovery messages.
THEOREM AnswerComes == Spec => []BusyHasAnswer
<1>1. Init => BusyHasAnswer
  BY DEF Init, BusyHasAnswer
<1> QED
  BY TypeCorrect, LinkedInvariant, BusyStep, <1>1, PTL DEF Spec


(***************************************************************************)
(* What READY stands for.                                                  *)
(***************************************************************************)

\* The only write answered to the central task is the CCCD's, and a response to
\* a write that waits in the queue was given by the peer of the present link.
ReadyInv ==
  /\ ReadyMeansEnabled
  /\ pend.op = "write" /\ pend.to = "central" => pend.hdl = "ccc"
  /\ state = "connected" =>
       \A i \in 1 .. Len(inbox) :
         inbox[i].op = "write" /\ inbox[i].kind = "rsp" => enabled \/ attDead

\* An answer with a write response in it ends a write, with that response.
LEMMA WriteEndings ==
  ASSUME NEW ms \in Endings, NEW i \in 1 .. Len(ms),
         ms[i].op = "write", ms[i].kind = "rsp"
  PROVE  pend.op = "write" /\ ms[1].kind = "rsp"
<1>1. \A op, k, f, st : Message(op, k, f, st).op = op /\ Message(op, k, f, st).kind = k
  BY DEF Message
<1>2. CASE \E op, k, f, st : ms = <<Message(op, k, f, st)>> /\ op = pend.op
  <2>1. PICK op, k, f, st : ms = <<Message(op, k, f, st)>> /\ op = pend.op
    BY <1>2
  <2>2. i = 1 /\ ms[1] = Message(op, k, f, st)
    BY <2>1
  <2>3. ms[1].op = op
    BY <1>1, <2>2
  <2> QED
    BY <2>1, <2>2, <2>3
<1>3. CASE ms = <<Message("mtuUpdated", "rsp", "none", "success"),
                  Message("mtu", "rsp", "none", "success")>>
  <2>1. /\ i \in {1, 2}
        /\ ms[1] = Message("mtuUpdated", "rsp", "none", "success")
        /\ ms[2] = Message("mtu", "rsp", "none", "success")
    BY <1>3
  <2>2. ms[1].op = "mtuUpdated" /\ ms[2].op = "mtu"
    BY <2>1 DEF Message
  <2> QED
    BY <2>1, <2>2
<1> QED
  BY <1>2, <1>3 DEF Endings

\* Queued after ms is queued: what was, and ms.
LEMMA PostAdds ==
  ASSUME MessagesOK, NEW ms \in Seq(Messages), Post(ms), NEW i \in 1 .. Len(inbox')
  PROVE  \/ i \in 1 .. Len(inbox) /\ inbox'[i] = inbox[i]
         \/ \E j \in 1 .. Len(ms) : inbox'[i] = ms[j]
<1>1. inbox \in Seq(Messages) /\ inbox' = inbox \o ms
  BY DEF MessagesOK, Post
<1>2. Len(inbox') = Len(inbox) + Len(ms) /\ Len(inbox) \in Nat /\ Len(ms) \in Nat
  BY <1>1
<1>3. CASE i <= Len(inbox)
  BY <1>1, <1>2, <1>3
<1>4. CASE i > Len(inbox)
  <2>1. i - Len(inbox) \in 1 .. Len(ms) /\ inbox'[i] = ms[i - Len(inbox)]
    BY <1>1, <1>2, <1>4
  <2> QED
    BY <2>1
<1> QED
  BY <1>2, <1>3, <1>4

LEMMA ReadyStep == ValuesOK /\ MessagesOK /\ ReadyInv /\ [Next]_vars => ReadyInv'
<1> SUFFICES ASSUME ValuesOK, MessagesOK, ReadyInv, [Next]_vars
             PROVE  ReadyInv'
  OBVIOUS
<1> USE DEF ReadyInv, ReadyMeansEnabled
<1>1. CASE UNCHANGED <<state, inbox, pend, enabled, attDead, ready>>
  BY <1>1
\* A call of the stack that is not a data-carrying write to the central task.
<1>2. ASSUME NEW r, Attempt(r), r.op = "write" /\ r.to = "central" => r.hdl = "ccc",
             UNCHANGED <<state, inbox, enabled, attDead, ready>>
      PROVE  ReadyInv'
  BY <1>2 DEF Attempt, Accepted, Refused
<1>3. CASE \E c \in Configs : LinkEstablished(c)
  BY <1>3 DEF LinkEstablished, Drained, NoReq, Request
<1>4. CASE LinkDrop
  BY <1>4 DEF LinkDrop, appVars, tmosVars, NoReq, Request
<1>5. CASE LinkTerminated
  BY <1>5 DEF LinkTerminated
<1>6. CASE MtuChange
  BY <1>2, <1>6 DEF MtuChange, tmosVars, Request
<1>7. CASE SvcDiscoveryEvt
  BY <1>1, <1>2, <1>7 DEF SvcDiscoveryEvt, Request
<1>8. CASE SppWriteEvt \/ CustomWriteEvt
  BY <1>8 DEF SppWriteEvt, CustomWriteEvt, WriteEvt, WriteStep, Accepted, Refused,
              Request
<1>9. CASE CustomReadEvt \/ WriteCccdEvt
  BY <1>9 DEF CustomReadEvt, WriteCccdEvt, StartProcedure, Accepted, Refused, Request
<1>10. CASE centralProcessGATTMsg
  <2>1. PICK m : m = Head(inbox) /\ (GattMsgConnected(m) \/ GattMsgUnmatched)
    BY <1>10 DEF centralProcessGATTMsg
  <2>2. /\ inbox # <<>> /\ inbox' = Tail(inbox)
        /\ UNCHANGED <<state, enabled, attDead>>
    BY <1>10 DEF centralProcessGATTMsg
  <2>3. /\ \A i \in 1 .. Len(inbox') : i + 1 \in 1 .. Len(inbox) /\ inbox'[i] = inbox[i + 1]
        /\ 1 \in 1 .. Len(inbox) /\ m = inbox[1]
    BY <2>1, <2>2 DEF MessagesOK
  <2>4. UNCHANGED pend \/ pend'.op = "type"
    BY <2>1 DEF GattMsgUnmatched, GattMsgConnected, ReadAnswer, WriteAnswer,
       centralGATTDiscoveryEvent, DiscSvc, DiscNotifyChar, DiscNotifyCccd,
       DiscWriteChar, DiscCustomChar, NextChar, StayInDiscovery, GoTo, Attempt,
       Accepted, Refused, Request
  <2>5. UNCHANGED ready \/ (state = "connected" /\ m.op = "write" /\ WriteAnswer(m))
    BY <2>1 DEF GattMsgUnmatched, GattMsgConnected, ReadAnswer
  <2>6. ready' => enabled \/ attDead
    <3>1. CASE UNCHANGED ready
      BY <3>1
    <3>2. CASE state = "connected" /\ m.op = "write" /\ WriteAnswer(m)
      <4>1. m.kind = "rsp" => enabled \/ attDead
        BY <2>3, <3>2
      <4>2. ready' => ready \/ m.kind = "rsp"
        BY <3>2 DEF WriteAnswer
      <4> QED
        BY <4>1, <4>2
    <3> QED
      BY <2>5, <3>1, <3>2
  <2> QED
    BY <2>2, <2>3, <2>4, <2>6
<1>11. CASE StackRow
  <2> DEFINE row == <<Message(pend.op, "rsp", pend.hdl, "success")>>
  <2>1. row \in Seq(Messages) /\ Post(row)
    BY <1>11, AnswerTypes DEF StackRow
  <2>2. \A j \in 1 .. Len(row) : row[j].op # "write"
    BY <1>11 DEF StackRow, Message
  <2>3. UNCHANGED <<state, pend, enabled, attDead, ready>>
    BY <1>11 DEF StackRow, appVars, stackVars
  <2> HIDE DEF row
  <2> QED
    BY <2>1, <2>2, <2>3, PostAdds
<1>12. CASE StackAnswer
  <2>1. PICK ms \in Endings :
          /\ IF pend.to = "central" THEN Post(ms) ELSE UNCHANGED inbox
          /\ enabled' = (enabled \/ (/\ pend.op = "write" /\ pend.hdl = "ccc"
                                     /\ ms[1].kind = "rsp"))
    BY <1>12 DEF StackAnswer
  <2>2. pend'.op = "none" /\ UNCHANGED <<state, attDead, ready>>
    BY <1>12 DEF StackAnswer, appVars, NoReq, Request
  <2>3. enabled => enabled'
    BY <2>1
  <2>4. CASE pend.to = "central"
    <3>1. ms \in Seq(Messages) /\ Post(ms)
      BY <1>12, <2>1, <2>4, AnswerTypes DEF StackAnswer
    <3>2. ASSUME NEW j \in 1 .. Len(ms), ms[j].op = "write", ms[j].kind = "rsp"
          PROVE  enabled'
      BY <2>1, <2>4, <3>2, WriteEndings
    <3> QED
      BY <2>2, <2>3, <3>1, <3>2, PostAdds
  <2>5. CASE pend.to # "central"
    BY <2>1, <2>2, <2>3, <2>5
  <2> QED
    BY <2>4, <2>5
<1>13. CASE StackTimeout
  BY <1>13 DEF StackTimeout, NoReq, Request
<1> QED
  BY <1>1, <1>3, <1>4, <1>5, <1>6, <1>7, <1>8, <1>9, <1>10, <1>11, <1>12, <1>13
  DEF Next, Firmware, Host, Environment, vars, appVars, tmosVars, stackVars,
      AtSppWrite, AtCustomWrite, AtWriteCommand, AtCustomRead, AtSetService

\* READY is reported only when the peer of this link has acknowledged the CCCD
\* write, unless an ATT transaction timed out on the link.
THEOREM ReadyIsEnabled == Spec => []ReadyMeansEnabled
<1>1. Init => ReadyInv
  BY DEF Init, ReadyInv, ReadyMeansEnabled, NoReq, Request
<1>2. ReadyInv => ReadyMeansEnabled
  BY DEF ReadyInv
<1> QED
  BY TypeCorrect, ReadyStep, <1>1, <1>2, PTL DEF Spec, TypeOK

(***************************************************************************)
(* Discovery.  DiscoveryInv is the inductive invariant: a discovery that   *)
(* no MTU callback and no ATT timeout has cut short has not begun or has   *)
(* met no service, or waits for the answer to the request of its phase, or *)
(* has that answer queued as the last message; before it there are rows    *)
(* only.  It needs that the links of a slot are numbered upwards, so that  *)
(* a handle left by an earlier one is not taken for this link's.           *)
(***************************************************************************)

IsRow(d, m) == m.op = Asks(d) /\ m.kind = "rsp" /\ m.status = "success"
IsEnd(d, m) == m.op = Asks(d) /\ (m.kind = "err" \/ m.status = "complete")

NoService == pend.op = "none" /\ inbox = <<>> /\ hdl["svc"].link # gen
Asking ==
  /\ discState # "IDLE"
  /\ pend.op = Asks(discState) /\ pend.to = "central"
  /\ \A i \in 1 .. Len(inbox) : IsRow(discState, inbox[i])
Answered ==
  /\ discState # "IDLE"
  /\ pend.op = "none" /\ inbox # <<>>
  /\ \A i \in 1 .. Len(inbox) :
       IF i = Len(inbox) THEN IsEnd(discState, inbox[i])
       ELSE IsRow(discState, inbox[i])

Phase == /\ NoService \/ Asking \/ Answered
         /\ "SVC_DISCOVERY" \in armed => NoService

LinksCount == (link # "none" => gen > 0) /\ hdl["svc"].link <= gen

Discovering == link = "up" /\ proc = "disc" /\ ~attDead

DiscoveryInv == LinksCount /\ (Discovering => Phase)

\* Links are numbered upwards, and a handle bears the number of a link there was.
LEMMA LinksCountStep == ValuesOK /\ LinksCount /\ [Next]_vars => LinksCount'
<1> SUFFICES ASSUME ValuesOK, LinksCount, [Next]_vars
             PROVE  LinksCount'
  OBVIOUS
<1>1. gen \in Nat /\ hdl["svc"].link \in Nat
  BY GattAssumption DEF ValuesOK, Handles, Gens, HandleNames
<1>2. CASE UNCHANGED hdl /\ UNCHANGED gen /\ link' \in {link, "none"}
  BY <1>2 DEF LinksCount
<1>3. CASE LinkDrop
  BY <1>3 DEF LinkDrop, LinksCount, appVars
<1>4. CASE \E c \in Configs : LinkEstablished(c)
  BY <1>1, <1>4 DEF LinkEstablished, LinksCount
<1>5. CASE SvcDiscoveryEvt
  BY <1>1, <1>5, HandleTypes DEF SvcDiscoveryEvt, LinksCount, NoHandles, HandleNames
<1>6. CASE centralProcessGATTMsg
  <2>1. PICK m : GattMsgConnected(m) \/ GattMsgUnmatched
    BY <1>6 DEF centralProcessGATTMsg
  <2>2. \A op, h, k : Found(m, op, h, k)["svc"].link \in {hdl["svc"].link, gen}
    <3>1. \A a, k : Handle(gen, a, k).link = gen
      BY DEF Handle
    <3> QED
      BY <3>1 DEF Found, ValuesOK, HandleNames
  <2>3. hdl'["svc"].link \in {hdl["svc"].link, gen}
    <3>1. DiscNotifyCccd(m, IF m.op = "mtu" THEN "free" ELSE proc)
          => hdl'["svc"].link \in {hdl["svc"].link, gen}
      <4>1. DOMAIN Found(m, "type", "ccc", 0) = HandleNames
        BY DEF Found, ValuesOK
      <4> QED
        BY <2>2, <4>1 DEF DiscNotifyCccd, HandleNames
    <3> QED
      BY <2>1, <2>2, <3>1 DEF GattMsgUnmatched, GattMsgConnected, ReadAnswer,
         WriteAnswer, centralGATTDiscoveryEvent, DiscSvc, DiscNotifyChar,
         DiscWriteChar, DiscCustomChar
  <2> QED
    BY <1>1, <1>6, <2>3 DEF centralProcessGATTMsg, LinksCount
<1> QED
  BY <1>2, <1>3, <1>4, <1>5, <1>6
  DEF Next, Firmware, Host, Environment, vars, appVars, tmosVars, stackVars,
      LinkTerminated, MtuChange, SppWriteEvt, CustomWriteEvt, WriteEvt,
      CustomReadEvt, WriteCccdEvt, StartProcedure, AtSppWrite, AtCustomWrite,
      AtWriteCommand, AtCustomRead, AtSetService, StackRow, StackAnswer,
      StackTimeout

\* Only a new link puts a slot into discovery.
LEMMA DiscoveringStep ==
  ASSUME [Next]_vars, Discovering', ~ \E c \in Configs : LinkEstablished(c)
  PROVE  Discovering
<1>1. link = "up"
  BY DEF Discovering, Next, Firmware, Host, Environment, vars, appVars, tmosVars,
      stackVars, LinkDrop, LinkTerminated, MtuChange, SvcDiscoveryEvt,
      SppWriteEvt, CustomWriteEvt, WriteEvt, CustomReadEvt, WriteCccdEvt,
      StartProcedure, centralProcessGATTMsg, AtSppWrite, AtCustomWrite,
      AtWriteCommand, AtCustomRead, AtSetService, StackRow, StackAnswer,
      StackTimeout
<1>2. proc = "disc"
  <2>1. CASE centralProcessGATTMsg
    BY <2>1 DEF Discovering, centralProcessGATTMsg, GattMsgUnmatched,
       GattMsgConnected, ReadAnswer, WriteAnswer, centralGATTDiscoveryEvent,
       DiscSvc, DiscNotifyChar, DiscNotifyCccd, DiscWriteChar, DiscCustomChar,
       NextChar, StayInDiscovery, GoTo
  <2> QED
    BY <2>1 DEF Discovering, Next, Firmware, Host, Environment, vars, appVars,
      tmosVars, stackVars, LinkDrop, LinkTerminated, MtuChange, SvcDiscoveryEvt,
      SppWriteEvt, CustomWriteEvt, WriteEvt, CustomReadEvt, WriteCccdEvt,
      StartProcedure, AtSppWrite, AtCustomWrite, AtWriteCommand, AtCustomRead,
      AtSetService, StackRow, StackAnswer, StackTimeout
<1>3. attDead' = attDead \/ attDead' = TRUE
  BY DEF Next, Firmware, Host, Environment, vars, appVars, tmosVars, stackVars,
      LinkDrop, LinkTerminated, MtuChange, SvcDiscoveryEvt,
      SppWriteEvt, CustomWriteEvt, WriteEvt, CustomReadEvt, WriteCccdEvt,
      StartProcedure, centralProcessGATTMsg, AtSppWrite, AtCustomWrite,
      AtWriteCommand, AtCustomRead, AtSetService, StackRow, StackAnswer,
      StackTimeout
<1>4. ~attDead'
  BY Zenon DEF Discovering
<1>5. ~attDead
  BY <1>3, <1>4, Zenon
<1> QED
  BY <1>1, <1>2, <1>5, Zenon DEF Discovering

\* A message for the central task while discovery goes on: a row leaves the
\* phase as it is, what ends it makes the request of the next.
LEMMA PhaseMessage ==
  ASSUME ValuesOK, MessagesOK, LinkedState, LinksCount, Refusals = FALSE,
         Discovering, Phase, centralProcessGATTMsg, proc' = "disc"
  PROVE  Phase'
<1> DEFINE m == Head(inbox)
<1>1. inbox # <<>> /\ inbox' = Tail(inbox) /\ UNCHANGED <<state, gen>>
  BY DEF centralProcessGATTMsg
<1>2. /\ m = inbox[1] /\ Len(inbox) \in Nat /\ Len(inbox) >= 1
      /\ Len(inbox') = Len(inbox) - 1
      /\ \A i \in 1 .. Len(inbox') : inbox'[i] = inbox[i + 1]
  BY <1>1 DEF MessagesOK
<1>3. Asking \/ Answered
  BY <1>1 DEF Phase, NoService
<1>4. "SVC_DISCOVERY" \notin armed /\ discState # "IDLE"
  BY <1>1, <1>3 DEF Phase, NoService, Asking, Answered
<1>5. m.op \in {"svc", "type"} /\ m.op = Asks(discState)
  BY <1>2, <1>3 DEF Asking, Answered, IsRow, IsEnd, Asks
<1>6. centralGATTDiscoveryEvent(m, proc)
  <2>1. state = "connected"
    BY DEF LinkedState, Discovering, ValuesOK
  <2>2. GattMsgConnected(m)
    BY <2>1 DEF centralProcessGATTMsg, GattMsgUnmatched
  <2> QED
    BY <1>4, <1>5, <2>2 DEF GattMsgConnected
<1>7. gen > 0 /\ gen \in Nat
  BY GattAssumption DEF LinksCount, Discovering, ValuesOK, Gens
<1> HIDE DEF m
<1>8. "SVC_DISCOVERY" \notin armed'
  BY <1>4, <1>6 DEF centralGATTDiscoveryEvent, DiscSvc, DiscNotifyChar,
     DiscNotifyCccd, DiscWriteChar, DiscCustomChar, NextChar, StayInDiscovery
<1>9. CASE IsRow(discState, m)
  <2>1. \A op : ~Completes(m, op)
    BY <1>9 DEF IsRow, Completes
  <2>2. UNCHANGED <<discState, pend>>
    BY <1>6, <2>1 DEF centralGATTDiscoveryEvent, DiscSvc, DiscNotifyChar,
       DiscNotifyCccd, DiscWriteChar, DiscCustomChar, NextChar, StayInDiscovery,
       GoTo
  <2>3. CASE Asking
    BY <1>2, <1>8, <2>2, <2>3 DEF Asking, Phase, IsRow
  <2>4. CASE Answered
    <3>1. Len(inbox) > 1
      BY <1>2, <1>9, <2>4 DEF Answered, IsRow, IsEnd
    <3>2. inbox' # <<>>
      BY <1>2, <3>1
    <3> QED
      BY <1>2, <1>8, <2>2, <2>4, <3>1, <3>2 DEF Answered, Phase, IsRow, IsEnd
  <2> QED
    BY <1>3, <2>3, <2>4
<1>10. CASE ~IsRow(discState, m)
  <2>1. Answered /\ Len(inbox) = 1 /\ IsEnd(discState, m)
    BY <1>2, <1>3, <1>10 DEF Asking, Answered
  <2>2. Len(inbox') = 0 /\ inbox' = <<>>
    BY <1>1, <1>2, <2>1 DEF MessagesOK
  <2>3. pend.op = "none" /\ Completes(m, Asks(discState))
    BY <2>1 DEF Answered, IsEnd, Completes
  <2>4. Free
    BY <2>3, Zenon DEF Free, Discovering
  \* The call for the next phase is granted: no request is outstanding.
  <2>5. ASSUME NEW d, GoTo(d, proc), d \in DiscStates \ {"SVC"}
        PROVE  Asking'
    <3>1. d # "IDLE" /\ discState' = d
      BY <2>5 DEF GoTo, Discovering
    <3>2. pend' = Request("type", "central", Sought(d), NotFound)
      BY <2>4, <2>5, <3>1 DEF GoTo, Attempt, Accepted, Refused
    <3>3. Asks(d) = "type"
      BY <2>5 DEF Asks
    <3> QED
      BY <2>2, <3>1, <3>2, <3>3 DEF Asking, Asks, Request
  <2>6. \/ \E d \in DiscStates \ {"SVC"} : GoTo(d, proc)
        \/ StayInDiscovery(proc) /\ hdl'["svc"] = NotFound
    <3>1. \A c : /\ AfterSvc(c) \in DiscStates \ {"SVC"}
                 /\ AfterCccd(c) \in DiscStates \ {"SVC"}
                 /\ AfterWrite(c) \in DiscStates \ {"SVC"}
      BY DEF AfterSvc, AfterCccd, AfterWrite, DiscStates
    <3>2. {"IDLE", "NOTIFY_CCCD"} \subseteq DiscStates \ {"SVC"}
      BY DEF DiscStates
    <3> QED
      BY <1>6, <2>3, <3>1, <3>2 DEF centralGATTDiscoveryEvent, DiscSvc,
         DiscNotifyChar, DiscNotifyCccd, DiscWriteChar, DiscCustomChar, NextChar,
         Asks
  <2>7. CASE \E d \in DiscStates \ {"SVC"} : GoTo(d, proc)
    BY <1>8, <2>5, <2>7 DEF Phase
  <2>8. CASE StayInDiscovery(proc) /\ hdl'["svc"] = NotFound
    BY <1>1, <1>7, <1>8, <2>2, <2>3, <2>8, HandleTypes
    DEF StayInDiscovery, Phase, NoService
  <2> QED
    BY <2>6, <2>7, <2>8
<1> QED
  BY <1>9, <1>10

\* What the stack answers to the request of a phase: rows, then one message that
\* ends it.
LEMMA DiscoveryEndings ==
  ASSUME NEW ms \in Endings, pend.op \in {"svc", "type"}
  PROVE  /\ ms \in Seq({ms[1]}) /\ Len(ms) = 1
         /\ ms[1].op = pend.op
         /\ ms[1].kind = "err" \/ ms[1].status = "complete"
<1>1. \A op, k, f, st : /\ Message(op, k, f, st).op = op
                        /\ Message(op, k, f, st).kind = k
                        /\ Message(op, k, f, st).status = st
  BY DEF Message
<1>2. \E k, f, st : /\ ms = <<Message(pend.op, k, f, st)>>
                    /\ k = "err" \/ st = "complete"
  BY DEF Endings
<1>3. PICK k, f, st : /\ ms = <<Message(pend.op, k, f, st)>>
                      /\ k = "err" \/ st = "complete"
  BY <1>2
<1>4. Len(ms) = 1 /\ ms[1] = Message(pend.op, k, f, st) /\ ms = <<ms[1]>>
  BY <1>3
<1> QED
  BY <1>1, <1>3, <1>4

LEMMA PhaseStep ==
  ASSUME Refusals = FALSE, TypeOK, LinkedState, DiscoveryInv, [Next]_vars,
         Discovering'
  PROVE  Phase'
<1> USE DEF TypeOK
<1>0. CASE \E c \in Configs : LinkEstablished(c)
  <2>1. gen \in Nat /\ hdl["svc"].link \in Nat
    BY GattAssumption DEF ValuesOK, Handles, Gens, HandleNames
  <2> QED
    BY <1>0, <2>1 DEF LinkEstablished, Drained, NoReq, Request, DiscoveryInv,
                      LinksCount, Phase, NoService
<1> SUFFICES ASSUME ~ \E c \in Configs : LinkEstablished(c)
             PROVE  Phase'
  BY <1>0
<1>1. Discovering /\ Phase /\ LinksCount /\ proc' = "disc" /\ link' = "up" /\ ~attDead'
  <2>1. Discovering
    BY DiscoveringStep
  <2> QED
    BY <2>1, Zenon DEF DiscoveryInv, Discovering
<1>2. proc = "disc" /\ link = "up"
  BY <1>1, Zenon DEF Discovering
<1>3. CASE /\ UNCHANGED <<discState, hdl, gen, pend, inbox>>
           /\ "SVC_DISCOVERY" \in armed' => "SVC_DISCOVERY" \in armed
  BY <1>1, <1>3 DEF Phase, NoService, Asking, Answered, IsRow, IsEnd
<1>4. CASE SvcDiscoveryEvt
  <2>1. NoService /\ inbox' = inbox /\ gen' = gen /\ "SVC_DISCOVERY" \notin armed'
    BY <1>1, <1>4 DEF SvcDiscoveryEvt, Dispatch, Over, Phase
  <2>2. Free
    BY <1>1, <2>1, Zenon DEF Free, Discovering, NoService
  <2>3. CASE conf.svc
    <3>1. discState' = "SVC" /\ Attempt(Request("svc", "central", "svc", NotFound))
      BY <1>4, <2>3 DEF SvcDiscoveryEvt
    <3>2. pend' = Request("svc", "central", "svc", NotFound)
      BY <2>2, <3>1 DEF Attempt, Accepted, Refused
    <3> QED
      BY <2>1, <3>1, <3>2 DEF Phase, Asking, NoService, Asks, Request
  <2>4. CASE ~conf.svc
    BY <1>4, <2>1, <2>4 DEF SvcDiscoveryEvt, Phase, NoService
  <2> QED
    BY <2>3, <2>4
<1>5. CASE SppWriteEvt \/ CustomWriteEvt
  <2>1. UNCHANGED <<discState, hdl, gen, pend, inbox, armed>>
    BY <1>2, <1>5 DEF SppWriteEvt, CustomWriteEvt, WriteEvt, WriteStep, Again
  <2> QED
    BY <1>3, <2>1
<1>6. CASE CustomReadEvt \/ WriteCccdEvt
  <2>1. UNCHANGED <<discState, hdl, gen, pend, inbox, armed>>
    BY <1>2, <1>6 DEF CustomReadEvt, WriteCccdEvt, StartProcedure, Again
  <2> QED
    BY <1>3, <2>1
<1>7. CASE centralProcessGATTMsg
  BY <1>1, <1>7, PhaseMessage
<1>8. CASE AtCustomRead
  BY <1>3, <1>8 DEF AtCustomRead, appVars, stackVars
<1>9. ASSUME NEW k, NEW h, NEW e \in WriteEvents, NEW n, AtWriteCommand(k, h, e, n)
      PROVE  Phase'
  <2>1. "SVC_DISCOVERY" \in armed' => "SVC_DISCOVERY" \in armed
    BY <1>9 DEF AtWriteCommand, WriteEvents
  <2> QED
    BY <1>3, <1>9, <2>1 DEF AtWriteCommand, stackVars
<1>10. CASE StackRow
  <2> DEFINE row == Message(pend.op, "rsp", pend.hdl, "success")
  <2>1. <<row>> \in Seq(Messages) /\ Post(<<row>>)
    BY <1>10, AnswerTypes DEF StackRow
  <2>2. row.op = pend.op /\ row.kind = "rsp" /\ row.status = "success"
    BY DEF Message
  <2>3. UNCHANGED <<discState, hdl, gen, pend, armed>>
    BY <1>10 DEF StackRow, appVars, stackVars
  <2> HIDE DEF row
  <2>4. Asking /\ "SVC_DISCOVERY" \notin armed
    BY <1>1, <1>10 DEF StackRow, Phase, NoService, Answered
  <2>5. ASSUME NEW i \in 1 .. Len(inbox')
        PROVE  (i \in 1 .. Len(inbox) /\ inbox'[i] = inbox[i]) \/ inbox'[i] = row
    <3>1. PICK s : s = <<row>>
      OBVIOUS
    <3>2. \/ i \in 1 .. Len(inbox) /\ inbox'[i] = inbox[i]
          \/ \E j \in 1 .. Len(s) : inbox'[i] = s[j]
      BY <2>1, <3>1, PostAdds
    <3> QED
      BY <3>1, <3>2
  <2> QED
    BY <2>2, <2>3, <2>4, <2>5 DEF Asking, Phase, IsRow
<1>11. CASE StackAnswer
  <2>1. Asking /\ "SVC_DISCOVERY" \notin armed
    BY <1>1, <1>11 DEF StackAnswer, Phase, NoService, Answered
  <2>2. pend.op \in {"svc", "type"} /\ pend.to = "central"
    BY <2>1 DEF Asking, Asks
  <2>3. PICK ms \in Endings : Post(ms)
    BY <1>11, <2>2 DEF StackAnswer
  <2>4. Len(ms) = 1 /\ IsEnd(discState, ms[1]) /\ ms \in Seq(Messages)
    BY <1>11, <2>1, <2>2, DiscoveryEndings, AnswerTypes DEF StackAnswer, Asking, IsEnd
  <2>5. pend'.op = "none" /\ UNCHANGED <<discState, armed>>
    BY <1>11 DEF StackAnswer, NoReq, Request, appVars
  <2>6. /\ Len(inbox) \in Nat /\ Len(inbox') = Len(inbox) + 1
        /\ inbox'[Len(inbox')] = ms[1]
        /\ \A i \in 1 .. Len(inbox) : inbox'[i] = inbox[i]
    BY <2>3, <2>4, PostPlaces
  <2>7. inbox' # <<>>
    BY <2>6
  <2> QED
    BY <2>1, <2>4, <2>5, <2>6, <2>7 DEF Asking, Answered, Phase, IsRow, IsEnd
<1>12. CASE StackTimeout \/ LinkDrop \/ LinkTerminated \/ MtuChange
  <2>1. ~StackTimeout
    BY <1>1, Zenon DEF StackTimeout
  <2>2. ~LinkDrop /\ ~LinkTerminated /\ ~MtuChange
    BY <1>1 DEF LinkDrop, LinkTerminated, MtuChange
  <2> QED
    BY <1>12, <2>1, <2>2
<1>13. CASE (\E c \in Configs : AtSetService(c)) \/ UNCHANGED vars
  BY <1>3, <1>13 DEF AtSetService, vars, appVars, tmosVars, stackVars
<1> QED
  BY <1>4, <1>5, <1>6, <1>7, <1>8, <1>9, <1>10, <1>11, <1>12, <1>13
  DEF Next, Firmware, Host, Environment, AtSppWrite, AtCustomWrite, WriteEvents

\* A discovery that has found its service goes on to its end, over every order of
\* rows, answers, time-outs, MTU callbacks, AT commands and links of the slot, as
\* long as no GATT call is refused for want of a buffer.
THEOREM DiscoveryIsCarriedOn ==
  ASSUME Refusals = FALSE
  PROVE  Spec => []DiscoveryGoesOn
<1>1. Init => DiscoveryInv
  BY HandleTypes DEF Init, DiscoveryInv, LinksCount, Discovering, HandleNames
<1>2. TypeOK /\ LinkedState /\ DiscoveryInv /\ [Next]_vars => DiscoveryInv'
  BY PhaseStep, LinksCountStep DEF DiscoveryInv, TypeOK
<1>3. TypeOK /\ DiscoveryInv => DiscoveryGoesOn
  <2> SUFFICES ASSUME TypeOK, Discovering, Phase, hdl["svc"].link = gen
               PROVE  \/ pend.op = Asks(discState) /\ pend.to = "central"
                      \/ \E i \in 1 .. Len(inbox) : Ends(discState, inbox[i])
    BY Zenon DEF DiscoveryInv, DiscoveryGoesOn, Discovering
  <2>1. Asking \/ Answered
    BY DEF Phase, NoService
  <2>2. CASE Answered
    <3>1. Len(inbox) \in 1 .. Len(inbox)
      BY <2>2 DEF Answered, TypeOK, MessagesOK
    <3> QED
      BY <2>2, <3>1 DEF Answered, IsEnd, Ends, Completes
  <2> QED
    BY <2>1, <2>2 DEF Asking
<1> QED
  BY TypeCorrect, LinkedInvariant, <1>1, <1>2, <1>3, PTL DEF Spec

(***************************************************************************)
(* Where the data goes.  RouteInv is the inductive invariant: on a link    *)
(* without MTU callbacks a slot is busy with discovery and has asked for   *)
(* nothing until the discovery starts; from then on, what is outstanding   *)
(* and what is queued belongs to the present phase, so that no row is      *)
(* stored in another's place.  Discovery may also start on an idle slot,   *)
(* and leave its phase to the next link: then there is no handle at all.   *)
(***************************************************************************)

Expecting == state = "connected" /\ mtuCalls = 0
Started   == "SVC_DISCOVERY" \notin armed /\ (discState # "IDLE" \/ proc # "disc")
Unstarted == pend.op = "none" /\ inbox = <<>> /\ proc = "disc"

BelongsTo(d, m) == m.op = Asks(d) /\ m.row \in {"none", Sought(d)}
Belonging ==
  \A i \in 1 .. Len(inbox) :
    /\ BelongsTo(discState, inbox[i])
    /\ IsRow(discState, inbox[i]) \/ (i = Len(inbox) /\ pend.op = "none")
InPhase ==
  /\ proc = "disc"
  /\ \/ pend.op = "none"
     \/ pend.op = Asks(discState) /\ pend.to = "central" /\ pend.hdl = Sought(discState)
  /\ Belonging
  /\ discState = "WRITE_CHAR" => conf.vendor \/ conf.write # "same"

TargetsRight ==
  /\ hdl["notify"] \in {NotFound, Handle(gen, "notify", 1)}
  /\ hdl["write"] \in Targets("spp")
  /\ hdl["custom"] \in Targets("custom")

RouteInv ==
  /\ Expecting /\ ~Started => Unstarted
  /\ Expecting /\ Started => TargetsRight
  /\ Expecting /\ Started /\ discState # "IDLE" => InPhase
  /\ discState # "IDLE" /\ (state = "idle" \/ (Expecting /\ "SVC_DISCOVERY" \in armed))
       => hdl = NoHandles /\ discState = "SVC"

\* A row stored in the phase it belongs to is stored right.
LEMMA PhaseStores ==
  ASSUME ValuesOK, InPhase, TargetsRight, NEW m, BelongsTo(discState, m),
         centralGATTDiscoveryEvent(m, "disc"), UNCHANGED <<gen, conf>>
  PROVE  TargetsRight'
<1> USE DEF TargetsRight, Targets, SppChars
<1>1. /\ DOMAIN hdl = HandleNames
      /\ "notify" \in HandleNames /\ "write" \in HandleNames /\ "custom" \in HandleNames
  BY DEF ValuesOK, HandleNames
<1>2. \A op, h, k : Found(m, op, h, k) \in
         {hdl, [hdl EXCEPT ![h] = Handle(gen, Sought(discState), k)]}
  BY DEF Found, HasRow, BelongsTo
<1>3. CASE DiscSvc(m, "disc")
  <2>1. hdl' \in {hdl, [hdl EXCEPT !["svc"] = Handle(gen, Sought(discState), 0)]}
    BY <1>2, <1>3 DEF DiscSvc
  <2>2. /\ hdl'["notify"] = hdl["notify"] /\ hdl'["write"] = hdl["write"]
        /\ hdl'["custom"] = hdl["custom"]
    BY <1>1, <2>1
  <2> QED
    BY <2>2
<1>4. CASE DiscNotifyChar(m, "disc")
  <2>1. hdl' \in {hdl, [hdl EXCEPT !["notify"] = Handle(gen, "notify", 1)]}
    BY <1>2, <1>4 DEF DiscNotifyChar, Sought
  <2>2. /\ hdl'["notify"] \in {hdl["notify"], Handle(gen, "notify", 1)}
        /\ hdl'["write"] = hdl["write"] /\ hdl'["custom"] = hdl["custom"]
    BY <1>1, <2>1
  <2> QED
    BY <2>2
<1>5. CASE DiscNotifyCccd(m, "disc")
  <2> DEFINE f == Found(m, "type", "ccc", 0)
  <2>1. hdl' = f \/ (conf.write = "same" /\ hdl' = [f EXCEPT !["write"] = f["notify"]])
    BY <1>5 DEF DiscNotifyCccd
  <2>2. f \in {hdl, [hdl EXCEPT !["ccc"] = Handle(gen, Sought(discState), 0)]}
    BY <1>2
  <2>3. /\ DOMAIN f = HandleNames
        /\ f["notify"] = hdl["notify"] /\ f["write"] = hdl["write"]
        /\ f["custom"] = hdl["custom"]
    BY <1>1, <2>2
  <2> HIDE DEF f
  <2>4. /\ hdl'["notify"] = hdl["notify"] /\ hdl'["custom"] = hdl["custom"]
        /\ \/ hdl'["write"] = hdl["write"]
           \/ conf.write = "same" /\ hdl'["write"] = hdl["notify"]
    BY <1>1, <2>1, <2>3
  <2> QED
    BY <2>4
<1>6. CASE DiscWriteChar(m, "disc")
  <2>1. hdl' \in {hdl, [hdl EXCEPT !["write"] = Handle(gen, "write", 1)]}
    BY <1>2, <1>6 DEF DiscWriteChar, Sought
  <2>2. /\ hdl'["write"] \in {hdl["write"], Handle(gen, "write", 1)}
        /\ hdl'["notify"] = hdl["notify"] /\ hdl'["custom"] = hdl["custom"]
    BY <1>1, <2>1
  <2>3. hdl'["write"] \in Targets("spp")
    <3>1. CASE hdl'["write"] = hdl["write"]
      BY <3>1
    <3>2. CASE hdl'["write"] = Handle(gen, "write", 1)
      <4>1. "write" \in SppChars
        BY <1>6 DEF DiscWriteChar, InPhase
      <4> QED
        BY <3>2, <4>1
    <3> QED
      BY <2>2, <3>1, <3>2
  <2> QED
    BY <2>2, <2>3
<1>7. CASE DiscCustomChar(m, "disc")
  <2>1. hdl' \in {hdl, [hdl EXCEPT !["custom"] = Handle(gen, "custom", 0)]}
    BY <1>2, <1>7 DEF DiscCustomChar, Sought
  <2>2. /\ hdl'["custom"] \in {hdl["custom"], Handle(gen, "custom", 0)}
        /\ hdl'["write"] = hdl["write"] /\ hdl'["notify"] = hdl["notify"]
    BY <1>1, <2>1
  <2> QED
    BY <2>2
<1> QED
  BY <1>3, <1>4, <1>5, <1>6, <1>7 DEF centralGATTDiscoveryEvent

\* The next message is taken out of the queue.
Received == inbox # <<>> /\ inbox' = Tail(inbox)

\* A message of the present phase leaves the phase as it is, or is the last one
\* and the request that follows it is the next phase's.
LEMMA PhaseKept ==
  ASSUME MessagesOK, Received,
         discState # "IDLE", InPhase, centralGATTDiscoveryEvent(Head(inbox), "disc"),
         UNCHANGED conf
  PROVE  discState' # "IDLE" => InPhase'
<1> DEFINE m == Head(inbox)
<1>1. /\ m = inbox[1] /\ Len(inbox) \in Nat /\ Len(inbox) >= 1
      /\ Len(inbox') \in Nat /\ Len(inbox') = Len(inbox) - 1
      /\ \A i \in 1 .. Len(inbox') : /\ i + 1 \in 1 .. Len(inbox)
                                     /\ inbox'[i] = inbox[i + 1]
  BY DEF MessagesOK, Received
<1>2. BelongsTo(discState, m) /\ (IsRow(discState, m) \/ (Len(inbox) = 1 /\ pend.op = "none"))
  <2>1. 1 \in 1 .. Len(inbox) /\ (1 = Len(inbox) => Len(inbox) = 1)
    BY <1>1
  <2> QED
    BY <1>1, <2>1 DEF InPhase, Belonging
<1>3. centralGATTDiscoveryEvent(m, "disc")
  OBVIOUS
<1> HIDE DEF m
<1>4. CASE UNCHANGED <<discState, pend, proc>>
  <2>1. ASSUME NEW i \in 1 .. Len(inbox')
        PROVE  /\ BelongsTo(discState, inbox'[i])
               /\ IsRow(discState, inbox'[i]) \/ (i = Len(inbox') /\ pend.op = "none")
    <3>1. PICK j \in 1 .. Len(inbox) : j = i + 1 /\ inbox'[i] = inbox[j]
      BY <1>1
    <3>2. j = Len(inbox) => i = Len(inbox')
      BY <1>1, <3>1
    <3>3. /\ BelongsTo(discState, inbox[j])
          /\ IsRow(discState, inbox[j]) \/ (j = Len(inbox) /\ pend.op = "none")
      BY DEF InPhase, Belonging
    <3> QED
      BY <3>1, <3>2, <3>3
  <2>2. Belonging'
    BY <1>4, <2>1 DEF Belonging, BelongsTo, IsRow
  <2> QED
    BY <1>4, <2>2 DEF InPhase
<1>5. ASSUME NEW d \in DiscStates \ {"SVC"}, GoTo(d, "disc"),
             d = "WRITE_CHAR" => conf.write = "uuid", discState' # "IDLE", ~IsRow(discState, m)
      PROVE  InPhase'
  <2>1. Len(inbox') = 0
    BY <1>1, <1>2, <1>5
  <2>2. /\ discState' = d /\ proc' = "disc"
        /\ Attempt(Request("type", "central", Sought(d), NotFound))
    BY <1>5 DEF GoTo
  <2>3. pend.op = "none"
    BY <1>2, <1>5
  <2>4. Asks(d) = "type"
    BY <1>5 DEF Asks
  <2>5. \/ pend'.op = "none"
        \/ pend'.op = Asks(d) /\ pend'.to = "central" /\ pend'.hdl = Sought(d)
    BY <2>2, <2>3, <2>4 DEF Attempt, Accepted, Refused, Request
  <2>6. Belonging'
    <3>1. 1 .. Len(inbox') = {}
      BY <2>1
    <3> QED
      BY <3>1 DEF Belonging
  <2>7. Asks(discState)' = Asks(d) /\ Sought(discState)' = Sought(d)
    BY <2>2
  <2>8. discState' = "WRITE_CHAR" => conf'.write # "same"
    BY <1>5, <2>2
  <2> QED
    BY <2>2, <2>5, <2>6, <2>7, <2>8 DEF InPhase
<1>6. IsRow(discState, m) => ~Completes(m, "svc") /\ ~Completes(m, "type")
  BY DEF IsRow, Completes
<1>7. ASSUME discState' # "IDLE"
      PROVE  \/ UNCHANGED <<discState, pend, proc>>
             \/ /\ ~IsRow(discState, m)
                /\ \E d \in DiscStates \ {"SVC"} :
                     GoTo(d, "disc") /\ (d = "WRITE_CHAR" => conf.write = "uuid")
  <2> DEFINE Nexts == {d \in DiscStates \ {"SVC"} : d = "WRITE_CHAR" => conf.write = "uuid"}
  <2>1. /\ AfterSvc(conf) \in Nexts /\ AfterCccd(conf) \in Nexts
        /\ AfterWrite(conf) \in Nexts
    BY DEF AfterSvc, AfterCccd, AfterWrite, DiscStates
  <2>2. "NOTIFY_CCCD" \in Nexts
    BY DEF DiscStates
  <2>3. ~ DiscCustomChar(m, "disc")
    BY <1>7 DEF DiscCustomChar, GoTo
  <2> QED
    BY <1>3, <1>6, <2>1, <2>2, <2>3 DEF centralGATTDiscoveryEvent, DiscSvc,
       DiscNotifyChar, DiscNotifyCccd, DiscWriteChar, NextChar, StayInDiscovery,
       InPhase
<1> QED
  BY <1>4, <1>5, <1>7

\* What the stack queues for a request of the phase belongs to the phase, and a
\* message that is not a row is the last.
LEMMA PhaseQueues ==
  ASSUME MessagesOK, InPhase, pend.op # "none", NEW m \in Messages,
         Post(<<m>>), BelongsTo(discState, m), UNCHANGED <<discState, proc, conf>>,
         \/ IsRow(discState, m) /\ UNCHANGED pend
         \/ pend'.op = "none"
  PROVE  InPhase'
<1>1. PICK s : s = <<m>>
  OBVIOUS
<1>2. s \in Seq(Messages) /\ Post(s) /\ Len(s) = 1 /\ s[1] = m
  BY <1>1
<1>3. /\ Len(inbox') = Len(inbox) + Len(s)
      /\ Len(inbox) \in Nat
      /\ \A i \in 1 .. Len(inbox) : inbox'[i] = inbox[i]
      /\ \A i \in 1 .. Len(s) : inbox'[Len(inbox) + i] = s[i]
  BY <1>2, PostPlaces
<1>4. Len(inbox') = Len(inbox) + 1 /\ inbox'[Len(inbox')] = m
  BY <1>2, <1>3
<1>5. ASSUME NEW i \in 1 .. Len(inbox')
      PROVE  /\ BelongsTo(discState, inbox'[i])
             /\ IsRow(discState, inbox'[i]) \/ (i = Len(inbox') /\ pend'.op = "none")
  <2>1. CASE i = Len(inbox')
    BY <1>4, <2>1
  <2>2. CASE i # Len(inbox')
    <3>1. i \in 1 .. Len(inbox) /\ inbox'[i] = inbox[i]
      BY <1>3, <1>4, <2>2
    <3> QED
      BY <3>1 DEF InPhase, Belonging
  <2> QED
    BY <2>1, <2>2
<1>6. Belonging'
  BY <1>5 DEF Belonging, BelongsTo, IsRow
<1> QED
  BY <1>6 DEF InPhase

\* The messages that end the request of a phase belong to it.
LEMMA EndingBelongs ==
  ASSUME ValuesOK, discState # "IDLE", pend.op = Asks(discState),
         pend.hdl = Sought(discState), NEW ms \in Endings
  PROVE  \E m \in Messages : ms = <<m>> /\ BelongsTo(discState, m)
<1>1. pend.op \in {"svc", "type"}
  BY DEF Asks
<1>2. \A op, k, a, st : /\ Message(op, k, a, st).op = op
                        /\ Message(op, k, a, st).row = a
  BY DEF Message
<1>3. \E k \in {"rsp", "err"}, a \in {"none", pend.hdl}, st \in {"success", "complete"} :
         ms = <<Message(pend.op, k, a, st)>>
  BY <1>1 DEF Endings
<1>4. PICK k \in {"rsp", "err"}, a \in {"none", pend.hdl}, st \in {"success", "complete"} :
         ms = <<Message(pend.op, k, a, st)>>
  BY <1>3
<1>5. Message(pend.op, k, a, st) \in Messages
  BY <1>1, <1>4 DEF Message, Messages, ValuesOK, Requests
<1> QED
  BY <1>2, <1>4, <1>5 DEF BelongsTo

LEMMA RouteStep ==
  ValuesOK /\ MessagesOK /\ LinkedState /\ RouteInv /\ [Next]_vars => RouteInv'
<1> SUFFICES ASSUME ValuesOK, MessagesOK, LinkedState, RouteInv, [Next]_vars
             PROVE  RouteInv'
  OBVIOUS
\* A step that leaves the slot and its requests alone.
<1>1. CASE /\ UNCHANGED <<state, mtuCalls, discState, proc, hdl, gen, conf, pend, inbox>>
           /\ "SVC_DISCOVERY" \in armed' <=> "SVC_DISCOVERY" \in armed
  BY <1>1 DEF RouteInv, Expecting, Started, Unstarted, TargetsRight, Targets, SppChars,
              InPhase, Belonging, BelongsTo, IsRow
<1>2. CASE \E c \in Configs : LinkEstablished(c)
  <2>1. /\ state = "idle" /\ "SVC_DISCOVERY" \in armed' /\ proc' = "disc"
        /\ pend'.op = "none" /\ inbox' = <<>> /\ UNCHANGED <<discState, hdl>>
    BY <1>2 DEF LinkEstablished, Drained, LinkedState, NoReq, Request
  <2> QED
    BY <2>1 DEF RouteInv, Expecting, Started, Unstarted, NoHandles
<1>3. CASE LinkDrop
  <2>1. /\ UNCHANGED <<state, mtuCalls, discState, proc, hdl, gen, conf, inbox, armed>>
        /\ pend'.op = "none"
    BY <1>3 DEF LinkDrop, appVars, tmosVars, NoReq, Request
  <2> QED
    BY <2>1 DEF RouteInv, Expecting, Started, Unstarted, TargetsRight, Targets, SppChars,
                InPhase, Belonging, BelongsTo, IsRow, NoHandles
<1>4. CASE LinkTerminated
  BY <1>4 DEF LinkTerminated, RouteInv, Expecting
<1>5. CASE MtuChange
  <2>1. state' = "connected" /\ mtuCalls' # 0
    BY <1>5, GattAssumption DEF MtuChange, LinkedState, ValuesOK
  <2> QED
    BY <2>1 DEF RouteInv, Expecting
<1>6. CASE SvcDiscoveryEvt
  <2>1. /\ UNCHANGED <<state, mtuCalls, proc, gen, conf, inbox>>
        /\ "SVC_DISCOVERY" \in armed /\ "SVC_DISCOVERY" \notin armed'
    BY <1>6 DEF SvcDiscoveryEvt, Dispatch, Over
  <2>2. ASSUME Expecting' PROVE Unstarted
    BY <2>1, <2>2 DEF RouteInv, Expecting, Started
  <2>3. CASE conf.svc
    <3>1. /\ hdl' = NoHandles /\ discState' = "SVC"
          /\ Attempt(Request("svc", "central", "svc", NotFound))
      BY <1>6, <2>3 DEF SvcDiscoveryEvt
    <3>2. TargetsRight'
      BY <3>1 DEF TargetsRight, Targets, NoHandles, HandleNames
    <3>3. ASSUME Expecting' PROVE InPhase'
      BY <2>1, <2>2, <3>1, <3>3 DEF Attempt, Accepted, Refused, Request, Unstarted,
         InPhase, Belonging, Asks, Sought
    <3>4. hdl' = NoHandles'
      BY <3>1 DEF NoHandles
    <3> QED
      BY <2>1, <3>1, <3>2, <3>3, <3>4 DEF RouteInv, Started
  <2>4. CASE ~conf.svc
    <3>1. UNCHANGED <<hdl, discState, pend>>
      BY <1>6, <2>4 DEF SvcDiscoveryEvt
    <3>2. ASSUME Expecting', discState' # "IDLE" PROVE TargetsRight' /\ InPhase'
      <4>1. hdl = NoHandles /\ Unstarted
        BY <2>1, <2>2, <3>1, <3>2 DEF RouteInv, Expecting
      <4>2. TargetsRight'
        BY <3>1, <4>1 DEF TargetsRight, Targets, NoHandles, HandleNames
      <4>3. discState' = "SVC"
        BY <2>1, <2>2, <3>1, <3>2 DEF RouteInv, Expecting
      <4> QED
        BY <2>1, <3>1, <4>1, <4>2, <4>3 DEF InPhase, Belonging, Unstarted
    <3>3. ASSUME Expecting' PROVE Unstarted'
      BY <2>1, <2>2, <3>1, <3>3 DEF Unstarted
    <3>4. ASSUME Expecting', Started' PROVE discState' # "IDLE"
      BY <3>3, <3>4 DEF Started, Unstarted
    <3>5. discState' # "IDLE" /\ state' = "idle" =>
            hdl' = NoHandles' /\ discState' = "SVC"
      BY <2>1, <3>1 DEF RouteInv, NoHandles
    <3> QED
      BY <2>1, <3>2, <3>3, <3>4, <3>5 DEF RouteInv
  <2> QED
    BY <2>3, <2>4
\* Discovery over, a slot that is free may ask for something else.
<1>7. ASSUME UNCHANGED <<state, mtuCalls, discState, hdl, gen, conf, inbox>>,
             "SVC_DISCOVERY" \in armed' <=> "SVC_DISCOVERY" \in armed,
             proc = "free", proc' # "disc"
      PROVE  RouteInv'
  <2>1. Expecting => Started /\ discState = "IDLE"
    BY <1>7 DEF RouteInv, Unstarted, InPhase
  <2> QED
    BY <1>7, <2>1 DEF RouteInv, Expecting, Started, TargetsRight, Targets, SppChars,
                      NoHandles
<1>8. ASSUME NEW e \in WriteEvents, NEW h, WriteEvt(e, h)
      PROVE  RouteInv'
  <2>1. /\ UNCHANGED <<state, mtuCalls, discState, proc, hdl, gen, conf, inbox>>
        /\ "SVC_DISCOVERY" \in armed' <=> "SVC_DISCOVERY" \in armed
        /\ proc # "free" => UNCHANGED pend
    BY <1>8 DEF WriteEvt, WriteStep, FragmentSent, Again, Over, WriteEvents
  <2> QED
    BY <1>1, <1>7, <2>1
<1>9. CASE CustomReadEvt \/ WriteCccdEvt
  <2>1. /\ UNCHANGED <<state, mtuCalls, discState, hdl, gen, conf, inbox>>
        /\ "SVC_DISCOVERY" \in armed' <=> "SVC_DISCOVERY" \in armed
        /\ UNCHANGED <<proc, pend>> \/ (proc = "free" /\ proc' # "disc")
    BY <1>9 DEF CustomReadEvt, WriteCccdEvt, StartProcedure, Again, Over
  <2> QED
    BY <1>1, <1>7, <2>1
<1>10. CASE centralProcessGATTMsg
  <2>1. /\ inbox # <<>> /\ inbox' = Tail(inbox)
        /\ UNCHANGED <<state, mtuCalls, gen, conf>>
    BY <1>10 DEF centralProcessGATTMsg
  <2>2. "SVC_DISCOVERY" \in armed' <=> "SVC_DISCOVERY" \in armed
    BY <1>10 DEF centralProcessGATTMsg, GattMsgUnmatched, GattMsgConnected,
       ReadAnswer, WriteAnswer, centralGATTDiscoveryEvent, DiscSvc, DiscNotifyChar,
       DiscNotifyCccd, DiscWriteChar, DiscCustomChar, NextChar, StayInDiscovery
  <2>3. CASE ~Expecting
    <3>1. state = "idle" => UNCHANGED <<discState, hdl>>
      BY <1>10 DEF centralProcessGATTMsg, GattMsgUnmatched, GattMsgConnected
    <3> QED
      BY <2>1, <2>3, <3>1 DEF RouteInv, Expecting, NoHandles
  <2>4. CASE Expecting
    <3>1. Started /\ "SVC_DISCOVERY" \notin armed'
      BY <2>1, <2>2, <2>4 DEF RouteInv, Unstarted, Started
    <3>2. GattMsgConnected(Head(inbox))
      BY <1>10, <2>4 DEF centralProcessGATTMsg, GattMsgUnmatched, Expecting
    <3>3. CASE discState = "IDLE"
      <4>1. proc # "disc"
        BY <3>1, <3>3 DEF Started
      <4>2. UNCHANGED <<discState, hdl>> /\ proc' # "disc"
        BY <3>2, <3>3, <4>1 DEF GattMsgConnected, ReadAnswer, WriteAnswer
      <4> QED
        BY <2>1, <2>4, <3>1, <3>3, <4>2 DEF RouteInv, Expecting, Started, TargetsRight,
                                            Targets, SppChars
    <3>4. CASE discState # "IDLE"
      <4>1. InPhase /\ TargetsRight
        BY <2>4, <3>1, <3>4 DEF RouteInv
      <4>2. /\ BelongsTo(discState, Head(inbox))
            /\ Head(inbox).op \in {"svc", "type"} /\ proc = "disc"
        BY <2>1, <4>1 DEF MessagesOK, InPhase, Belonging, BelongsTo, Asks
      <4>3. centralGATTDiscoveryEvent(Head(inbox), "disc")
        BY <3>2, <3>4, <4>2 DEF GattMsgConnected
      <4>4. TargetsRight'
        BY <2>1, <4>1, <4>2, <4>3, PhaseStores
      <4>5. discState' # "IDLE" => InPhase'
        BY <2>1, <3>4, <4>1, <4>3, PhaseKept DEF Received
      <4>6. discState' = "IDLE" => proc' = "free"
        BY <3>4, <4>3 DEF centralGATTDiscoveryEvent, DiscSvc, DiscNotifyChar,
           DiscNotifyCccd, DiscWriteChar, DiscCustomChar, NextChar, GoTo,
           StayInDiscovery
      <4> QED
        BY <2>1, <2>4, <3>1, <4>4, <4>5, <4>6 DEF RouteInv, Expecting, Started
    <3> QED
      BY <3>3, <3>4
  <2> QED
    BY <2>3, <2>4
<1>11. CASE AtCustomRead
  BY <1>1, <1>11 DEF AtCustomRead, appVars, stackVars
<1>12. ASSUME NEW k, NEW h, NEW e \in WriteEvents, NEW n, AtWriteCommand(k, h, e, n)
       PROVE  RouteInv'
  <2>1. "SVC_DISCOVERY" \in armed' <=> "SVC_DISCOVERY" \in armed
    BY <1>12 DEF AtWriteCommand, WriteEvents
  <2> QED
    BY <1>1, <1>12, <2>1 DEF AtWriteCommand, stackVars
<1>13. CASE \E c \in Configs : AtSetService(c)
  BY <1>13 DEF AtSetService, tmosVars, stackVars, RouteInv, Expecting, Started,
               Unstarted, TargetsRight, Targets, SppChars, InPhase, Belonging,
               BelongsTo, IsRow, NoHandles
\* The stack answers the request of a phase, or one made after discovery.
<1>14. ASSUME UNCHANGED <<state, mtuCalls, discState, proc, hdl, gen, conf, armed>>,
              pend.op # "none", InPhase /\ discState # "IDLE" => InPhase'
       PROVE  RouteInv'
  BY <1>14 DEF RouteInv, Expecting, Started, Unstarted, TargetsRight, Targets, SppChars,
               NoHandles
<1>15. CASE StackRow
  <2>1. /\ UNCHANGED <<state, mtuCalls, discState, proc, hdl, gen, conf, armed, pend>>
        /\ pend.op # "none"
    BY <1>15 DEF StackRow, appVars, stackVars
  <2>2. ASSUME InPhase, discState # "IDLE" PROVE InPhase'
    <3>1. pend.op = Asks(discState) /\ pend.hdl = Sought(discState)
      BY <2>1, <2>2 DEF InPhase
    <3>2. PICK m : m = Message(pend.op, "rsp", pend.hdl, "success")
      OBVIOUS
    <3>3. m \in Messages /\ IsRow(discState, m) /\ BelongsTo(discState, m)
      BY <3>1, <3>2 DEF Message, Messages, ValuesOK, Requests, Asks, IsRow, BelongsTo
    <3>4. Post(<<m>>)
      BY <1>15, <3>2 DEF StackRow
    <3> QED
      BY <2>1, <2>2, <3>3, <3>4, PhaseQueues
  <2> QED
    BY <1>14, <2>1, <2>2
<1>16. CASE StackAnswer
  <2>1. /\ UNCHANGED <<state, mtuCalls, discState, proc, hdl, gen, conf, armed>>
        /\ pend.op # "none" /\ pend'.op = "none"
    BY <1>16 DEF StackAnswer, appVars, NoReq, Request
  <2>2. ASSUME InPhase, discState # "IDLE" PROVE InPhase'
    <3>1. /\ pend.op = Asks(discState) /\ pend.hdl = Sought(discState)
          /\ pend.to = "central"
      BY <2>1, <2>2 DEF InPhase
    <3>2. PICK ms \in Endings : Post(ms)
      BY <1>16, <3>1 DEF StackAnswer
    <3>3. PICK m \in Messages : ms = <<m>> /\ BelongsTo(discState, m)
      BY <2>2, <3>1, <3>2, EndingBelongs
    <3> QED
      BY <2>1, <2>2, <3>2, <3>3, PhaseQueues
  <2> QED
    BY <1>14, <2>1, <2>2
<1>17. CASE StackTimeout
  <2>1. /\ UNCHANGED <<state, mtuCalls, discState, proc, hdl, gen, conf, armed>>
        /\ pend.op # "none" /\ pend'.op = "none"
    BY <1>17 DEF StackTimeout, appVars, NoReq, Request
  <2>2. ASSUME InPhase, discState # "IDLE" PROVE InPhase'
    <3>1. pend.op = Asks(discState) /\ pend.to = "central"
      BY <2>1, <2>2 DEF InPhase
    <3>2. PICK m : m = Message(pend.op, "rsp", "none", "timeout")
      OBVIOUS
    <3>3. m \in Messages /\ BelongsTo(discState, m)
      BY <3>1, <3>2 DEF Message, Messages, Asks, BelongsTo
    <3>4. Post(<<m>>)
      BY <1>17, <3>1, <3>2 DEF StackTimeout
    <3> QED
      BY <2>1, <2>2, <3>3, <3>4, PhaseQueues
  <2> QED
    BY <1>14, <2>1, <2>2
<1>18. CASE UNCHANGED vars
  BY <1>1, <1>18 DEF vars, appVars, tmosVars, stackVars
<1> QED
  BY <1>2, <1>3, <1>4, <1>5, <1>6, <1>8, <1>9, <1>10, <1>11, <1>12, <1>13, <1>15,
     <1>16, <1>17, <1>18
  DEF Next, Firmware, Host, Environment, SppWriteEvt, CustomWriteEvt, AtSppWrite,
      AtCustomWrite, WriteEvents

\* The shared buffer never sends the data of one command to the handle of the
\* other, and on a link without MTU callbacks it goes to what this link's peer
\* has named for that characteristic, over every order of rows, answers,
\* time-outs, refused calls, AT commands and links of the slot.
THEOREM OwnHandle == ASSUME ZeroMac = FALSE PROVE Spec => WritesOwnHandle
<1>1. TypeOK /\ WriteInv /\ RouteInv /\ [Next]_vars => [FragmentToOwnHandle]_vars
  <2> SUFFICES ASSUME ValuesOK, WriteInv, RouteInv, Next, pLen' > pLen, pend' # pend
               PROVE  /\ pend'.hdl = HandleOf(pMsg)
                      /\ mtuCalls = 0 => pend'.at \in Targets(pMsg)
    BY DEF FragmentToOwnHandle, SendsFragment, TypeOK
  <2>1. SppWriteEvt \/ CustomWriteEvt
    <3>1. ~(pLen' = pLen) /\ pLen \in Nat /\ pLen \in 0 .. MaxLen
      BY GattAssumption DEF ValuesOK
    <3>2. ~(pLen' = 0)
      BY <3>1
    <3>3. CASE UNCHANGED pend
      BY <3>3
    <3> QED
      BY <3>1, <3>2
      DEF Next, Firmware, Host, Environment, appVars, tmosVars, stackVars,
          LinkEstablished, LinkDrop, LinkTerminated, MtuChange, SvcDiscoveryEvt,
          CustomReadEvt, WriteCccdEvt, StartProcedure, centralProcessGATTMsg,
          AtSppWrite, AtCustomWrite, AtWriteCommand, AtCustomRead, AtSetService,
          StackRow, StackAnswer, StackTimeout
  <2>2. ASSUME NEW e \in WriteEvents, NEW h \in HandleNames, WriteEvt(e, h)
        PROVE  /\ pend'.hdl = h /\ pend'.at = hdl[h]
               /\ e = EventOf(pMsg)
               /\ mtuCalls = 0 => TargetsRight
    <3>1. /\ pMsg # "none" /\ proc = "free"
          /\ Accepted(Request("write", "conn", h, hdl[h]))
      BY <2>2, GattAssumption DEF WriteEvt, WriteStep, ValuesOK
    <3>2. state = "connected"
      BY <3>1 DEF WriteInv, IdleHoldsNothing, ValuesOK
    <3>3. e = EventOf(pMsg)
      BY <2>2, <3>1, <3>2 DEF WriteInv, WriteEventMatches, WriteEvt, Dispatch
    <3>4. mtuCalls = 0 => TargetsRight
      BY <3>1, <3>2 DEF RouteInv, Expecting, Unstarted
    <3> QED
      BY <3>1, <3>3, <3>4 DEF Accepted, Request
  <2> QED
    BY <2>1, <2>2 DEF SppWriteEvt, CustomWriteEvt, WriteEvents, EventOf, HandleOf,
                      HandleNames, TargetsRight, Targets, ValuesOK
<1>2. Init => RouteInv
  BY DEF Init, RouteInv, Expecting
<1>3. TypeOK /\ LinkedState /\ RouteInv /\ [Next]_vars => RouteInv'
  BY RouteStep DEF TypeOK
<1> QED
  BY TypeCorrect, LinkedInvariant, WriteInvariant, <1>1, <1>2, <1>3, PTL
  DEF Spec, WritesOwnHandle

=============================================================================

----------------------------- MODULE GattClient -----------------------------
(***************************************************************************)
(* One entry of centralConnList: the GATT client that the firmware runs on *)
(* a connection slot (multiCentral.c), the AT commands that feed it        *)
(* (at_cmd.c) and the closed BLE stack it calls.                           *)
(*                                                                         *)
(* A slot outlives its links.  It is reused by link after link, and what   *)
(* the handlers leave behind on one link (handles, timers, messages in a   *)
(* queue) is met by the next.  Links are numbered 1 .. MaxGen, and an      *)
(* attribute handle is represented by where it came from: the link it was  *)
(* discovered on, what that link's peer was asked for when it named an     *)
(* attribute, and what the code added to the number it was given.          *)
(*                                                                         *)
(* Everything on the firmware's side runs in one cooperative loop, so one  *)
(* handler is one action.  What interleaves is the order in which the loop *)
(* reaches expired timers, queued GATT messages, GAP callbacks and AT      *)
(* commands, and what the stack and the peer do in between.                *)
(***************************************************************************)
EXTENDS Integers, Sequences, FiniteSets

CONSTANTS
  MaxGen,    \* links the slot is followed through
  MaxLen,    \* longest AT write, in units of the default ATT payload (20 bytes)
  MaxBox,    \* GATT messages queued for the central task
  MaxMtu,    \* data length changes (MTU callbacks) per link
  Configs,   \* the gatt_service_info_t a link may be given
  Refusals,  \* TRUE: a GATT call may fail for want of a buffer
  Timeouts,  \* TRUE: the peer may leave a request unanswered for 30 s
  ZeroMac    \* TRUE: the host may name the address 000000000000

\* gatt_service_info_t, reduced to which UUIDs are usable; vendor marks the one
\* service the host can rewrite (vendor_def_service).
ConfigSpace == [vendor : BOOLEAN, svc : BOOLEAN, notify : BOOLEAN,
                write : {"uuid", "same", "none"}, custom : BOOLEAN]

ASSUME GattAssumption ==
  /\ MaxGen \in Nat /\ MaxLen \in Nat /\ MaxBox \in Nat /\ MaxMtu \in Nat
  /\ Configs \subseteq ConfigSpace /\ Configs # {}
  /\ \A c \in Configs : ~c.vendor => c.svc    \* default_gatt_service_info
  /\ Refusals \in BOOLEAN /\ Timeouts \in BOOLEAN /\ ZeroMac \in BOOLEAN

VARIABLES
  state,      \* the slot: BLE_STATE_IDLE (connHandle INIT) or BLE_STATE_CONNECTED
  discState,  \* what service discovery waits for
  proc,       \* procedureInProgress
  hdl,        \* svcStartHdl, notifyHdl, cccHdl, writeHdl, customHdl
  mtu,        \* ATT payload (mtu - 3) in units of 20 bytes
  pMsg,       \* the buffered AT write: "none" is NULL, else the command it came from
  pLen,       \* pMsg_len, units handed to the stack
  wLen,       \* pMsg_wlen, units to write
  conf,       \* *gsi_select
  armed,      \* events of the slot's task: a timer runs, or the event is set
  inbox,      \* GATT messages queued for centralTaskId
  gen,        \* number of the slot's current (or last) link
  link,       \* the stack's link: "none", "up", or "lost" with the callback due
  pend,       \* the ATT request the stack has outstanding on the link
  attDead,    \* an ATT transaction of this link timed out
  mtuCalls,   \* MTU callbacks made on this link
  enabled,    \* the peer of this link has acknowledged a write to cccHdl
  ready       \* "+NOTIFY:..,READY" has been reported for this link

appVars   == <<state, discState, proc, hdl, mtu, pMsg, pLen, wLen, conf>>
tmosVars  == <<armed, inbox>>
stackVars == <<gen, link, pend, attDead, mtuCalls, enabled>>
vars      == <<appVars, tmosVars, stackVars, ready>>

-----------------------------------------------------------------------------
(* Types.                                                                  *)

DiscStates == {"IDLE", "SVC", "NOTIFY_CHAR", "NOTIFY_CCCD", "WRITE_CHAR",
               "CUSTOM_CHAR"}
Procs      == {"free", "disc", "read", "cccd", "mtu"}
HandleNames == {"svc", "notify", "ccc", "write", "custom"}
Gens       == 0 .. MaxGen
DefaultMtu == 1
LargeMtu   == 2

\* The slot's events.  START_PARAM_UPDATE_EVT is left out: its handler makes one
\* call of the stack and changes no state of the program.
Events == {"SVC_DISCOVERY", "SPP_WRITE", "CUSTOM_WRITE", "CUSTOM_READ",
           "WRITE_CCCD"}

\* An attribute handle: the peer of that link, asked for that attribute, named
\* a handle, and the code stored it plus off.  What is named for a
\* characteristic is its declaration, and its value is the attribute behind it;
\* what is named for a descriptor is the descriptor.  NotFound is the code's 0.
Handles == [link : Gens, of : HandleNames, off : {0, 1}]
Handle(g, a, k) == [link |-> g, of |-> a, off |-> k]
NotFound == Handle(0, "svc", 0)

\* An ATT request: what is asked, the task its answer goes to, the field of the
\* slot it is about (to be filled in, or where the handle was taken from) and
\* the handle it names.
Requests == [op  : {"none", "svc", "type", "mtu", "read", "write"},
             to  : {"central", "conn"},
             hdl : HandleNames,
             at  : Handles]
Request(op, to, h, a) == [op |-> op, to |-> to, hdl |-> h, at |-> a]
NoReq == Request("none", "central", "svc", NotFound)

\* A GATT message: the answered request (or the MTU_UPDATED event), response
\* or error, the attribute that its row names, if any, and hdr.status.
Messages == [op     : {"svc", "type", "mtu", "mtuUpdated", "read", "write"},
             kind   : {"rsp", "err"},
             row    : HandleNames \cup {"none"},
             status : {"success", "complete", "timeout"}]
Message(op, k, a, s) == [op |-> op, kind |-> k, row |-> a, status |-> s]

ValuesOK ==
  /\ state \in {"idle", "connected"}
  /\ discState \in DiscStates
  /\ proc \in Procs
  /\ hdl \in [HandleNames -> Handles]
  /\ mtu \in {DefaultMtu, LargeMtu}
  /\ pMsg \in {"none", "spp", "custom"}
  /\ pLen \in 0 .. MaxLen
  /\ wLen \in 0 .. MaxLen
  /\ conf \in Configs
  /\ armed \subseteq Events
  /\ gen \in Gens
  /\ link \in {"none", "up", "lost"}
  /\ mtuCalls \in 0 .. MaxMtu
  /\ pend \in Requests
MessagesOK == inbox \in Seq(Messages)
FlagsOK    == attDead \in BOOLEAN /\ enabled \in BOOLEAN /\ ready \in BOOLEAN

TypeOK == ValuesOK /\ MessagesOK /\ FlagsOK

Init ==
  /\ state = "idle"
  /\ discState = "IDLE"
  /\ proc = "free"
  /\ hdl = [h \in HandleNames |-> NotFound]
  /\ mtu = DefaultMtu
  /\ pMsg = "none" /\ pLen = 0 /\ wLen = 0
  /\ conf \in Configs
  /\ armed = {} /\ inbox = <<>>
  /\ gen = 0 /\ link = "none" /\ pend = NoReq
  /\ attDead = FALSE /\ mtuCalls = 0
  /\ enabled = FALSE /\ ready = FALSE

-----------------------------------------------------------------------------
(* The stack's side of a GATT call.  The stack holds one ATT request per   *)
(* link (blePending otherwise), refuses when the link is gone              *)
(* (bleNotConnected) or a transaction has timed out on it (bleTimeout),    *)
(* and may refuse for want of a buffer.                                    *)

Free == link = "up" /\ pend.op = "none" /\ ~attDead

Accepted(r) == Free /\ pend' = r

Refused == (~Free \/ Refusals) /\ UNCHANGED pend

\* A call whose result the code ignores.
Attempt(r) == Accepted(r) \/ Refused

-----------------------------------------------------------------------------
(* GAP events for the slot (centralEventCB).                               *)

\* A link takes hundreds of milliseconds to come up, in which the loop has
\* received its messages and run the write events left set by the last link.
Drained ==
  /\ inbox = <<>>
  /\ pMsg = "none" => armed \cap {"SPP_WRITE", "CUSTOM_WRITE"} = {}

\* GAP_LINK_ESTABLISHED_EVENT, the branch that takes this slot.
LinkEstablished(c) ==
  /\ link = "none" /\ gen < MaxGen
  /\ Drained
  /\ state' = "connected"
  /\ conf' = c
  /\ proc' = "disc"
  /\ armed' = armed \cup {"SVC_DISCOVERY"}
  /\ mtu' = DefaultMtu
  /\ pMsg' = "none"
  /\ gen' = gen + 1 /\ link' = "up" /\ attDead' = FALSE /\ mtuCalls' = 0
  /\ pend' = NoReq /\ enabled' = FALSE /\ ready' = FALSE
  /\ UNCHANGED <<discState, hdl, pLen, wLen, inbox>>

\* The radio link ends (peer gone, supervision timeout, AT+DISCONNECT).  The
\* outstanding request dies with it; the callback has yet to be made.
LinkDrop ==
  /\ link = "up"
  /\ link' = "lost" /\ pend' = NoReq
  /\ UNCHANGED <<appVars, tmosVars, gen, attDead, mtuCalls, enabled, ready>>

\* GAP_LINK_TERMINATED_EVENT for this slot.  tmos_stop_task stops a timer; an
\* event whose timer has expired stays set (taking that back is another call,
\* tmos_clear_event), so any of the stopped events may be kept.
StoppedOnTerminate == {"WRITE_CCCD", "SPP_WRITE", "CUSTOM_WRITE", "CUSTOM_READ"}

LinkTerminated ==
  /\ link = "lost"
  /\ link' = "none"
  /\ state' = "idle" /\ discState' = "IDLE" /\ proc' = "free"
  /\ pMsg' = "none"
  /\ \E kept \in SUBSET (armed \cap StoppedOnTerminate) :
       armed' = (armed \ StoppedOnTerminate) \cup kept
  /\ UNCHANGED <<hdl, mtu, pLen, wLen, conf, inbox, gen, pend, attDead,
                 mtuCalls, enabled, ready>>

\* centralHciMTUChangeCB: the result of GATT_ExchangeMTU is ignored and the
\* procedure field overwritten whatever it held.
MtuChange ==
  /\ link = "up" /\ mtuCalls < MaxMtu
  /\ mtuCalls' = mtuCalls + 1
  /\ Attempt(Request("mtu", "central", "svc", NotFound))
  /\ proc' = "mtu"
  /\ UNCHANGED <<state, discState, hdl, mtu, pMsg, pLen, wLen, conf, tmosVars,
                 gen, link, attDead, enabled, ready>>

-----------------------------------------------------------------------------
(* The slot's events (connect_ProcessEvent).  Delays are not modelled, so  *)
(* an armed event may be dispatched at any time and in any order.          *)

Dispatch(e) == e \in armed

\* What is armed after the handler of e: tmos_start_task(task_id, e, 30 ms), or
\* nothing more for e.
ForgottenAgain(e) == armed' = armed \ {e}  \* mutant: no restart
Again(e) == UNCHANGED armed
Over(e)  == armed' = armed \ {e}

KeepsCustomHandle ==  \* mutant: customHdl missing from the chain of resets
  [h \in HandleNames |-> IF h = "custom" THEN hdl[h] ELSE NotFound]
NoHandles == [h \in HandleNames |-> NotFound]

\* START_SVC_DISCOVERY_EVT: centralConnIistStartDiscovery, which runs whether
\* or not the slot is connected.
SvcDiscoveryEvt ==
  /\ Dispatch("SVC_DISCOVERY")
  /\ \/ /\ conf.svc
        /\ hdl' = NoHandles
        /\ discState' = "SVC"
        /\ Attempt(Request("svc", "central", "svc", NotFound))
     \/ /\ ~conf.svc
        /\ UNCHANGED <<hdl, discState, pend>>
  /\ Over("SVC_DISCOVERY")
  /\ UNCHANGED <<state, proc, mtu, pMsg, pLen, wLen, conf, inbox, gen,
                 link, attDead, mtuCalls, enabled, ready>>

\* The length of the next fragment.
UncappedLen == mtu  \* mutant: the rest is not compared with the payload
FragmentLen == IF wLen - pLen > mtu THEN mtu ELSE wLen - pLen

\* A fragment has gone out: the write is over, or the rest waits 30 ms.
DoneAtOnce(e) == pMsg' = "none" /\ Over(e)  \* mutant: one fragment is all
FragmentSent(e) ==
  IF pLen' >= wLen
  THEN pMsg' = "none" /\ Over(e)
  ELSE Again(e) /\ UNCHANGED pMsg

\* The body that SPP_WRITE_EVT and CUSTOM_WRITE_EVT share: e is the event, h
\* the handle it writes.  The two events also share pMsg, pMsg_len, pMsg_wlen.
WriteStep(e, h) ==
  \/ /\ proc # "free" /\ Again(e)
     /\ UNCHANGED <<pMsg, pLen, pend>>
  \/ /\ proc = "free" /\ pMsg = "none" /\ Over(e)
     /\ UNCHANGED <<pMsg, pLen, pend>>
  \/ /\ proc = "free" /\ pMsg # "none" /\ wLen = 0
     /\ pMsg' = "none" /\ Over(e)
     /\ UNCHANGED <<pLen, pend>>
  \/ /\ proc = "free" /\ pMsg # "none" /\ wLen # 0
     /\ Refused /\ Again(e)
     /\ UNCHANGED <<pMsg, pLen>>
  \/ /\ proc = "free" /\ pMsg # "none" /\ wLen # 0
     /\ Accepted(Request("write", "conn", h, hdl[h]))
     /\ pLen' = pLen + FragmentLen
     /\ FragmentSent(e)

WriteEvt(e, h) ==
  /\ Dispatch(e)
  /\ WriteStep(e, h)
  /\ UNCHANGED <<state, discState, proc, hdl, mtu, wLen, conf, inbox, gen, link,
                 attDead, mtuCalls, enabled, ready>>

SppWriteEvt == WriteEvt("SPP_WRITE", "write")

CustomWriteEvt == WriteEvt("CUSTOM_WRITE", "custom")

\* A handler that issues one request and remembers it in proc, or tries again.
StartProcedure(e, p, r) ==
  /\ Dispatch(e)
  /\ \/ /\ proc = "free" /\ Accepted(r)
        /\ proc' = p /\ Over(e)
     \/ /\ proc = "free" => Refused
        /\ Again(e) /\ UNCHANGED <<proc, pend>>
  /\ UNCHANGED <<state, discState, hdl, mtu, pMsg, pLen, wLen, conf, inbox, gen,
                 link, attDead, mtuCalls, enabled, ready>>

CustomReadEvt ==
  StartProcedure("CUSTOM_READ", "read",
                 Request("read", "central", "custom", hdl["custom"]))

WriteCccdEvt ==
  StartProcedure("WRITE_CCCD", "cccd",
                 Request("write", "central", "ccc", hdl["ccc"]))

-----------------------------------------------------------------------------
(* GATT messages (centralProcessGATTMsg, centralGATTDiscoveryEvent).       *)

\* Where discovery goes after the service, the CCCD and the write channel.
AfterWrite(c) == IF c.custom THEN "CUSTOM_CHAR" ELSE "IDLE"
AfterCccd(c)  == IF c.write = "uuid" THEN "WRITE_CHAR" ELSE AfterWrite(c)
AfterSvc(c)   == IF c.notify THEN "NOTIFY_CHAR" ELSE AfterCccd(c)

\* The handle that a phase of discovery looks for.
Sought(d) == CASE d = "SVC"         -> "svc"
               [] d = "NOTIFY_CHAR" -> "notify"
               [] d = "NOTIFY_CCCD" -> "ccc"
               [] d = "WRITE_CHAR"  -> "write"
               [] OTHER             -> "custom"

BusyAfterAll(d, p) ==  \* mutant: the end of discovery does not free the slot
  /\ discState' = d /\ proc' = p
  /\ IF d = "IDLE" THEN UNCHANGED pend
     ELSE Attempt(Request("type", "central", Sought(d), NotFound))

\* Continue with d, asking the peer for it; p is proc as the message left it.
GoTo(d, p) ==
  /\ discState' = d
  /\ IF d = "IDLE"
     THEN proc' = "free" /\ UNCHANGED pend
     ELSE proc' = p /\ Attempt(Request("type", "central", Sought(d), NotFound))

CompletesEarly(m, op) ==  \* mutant: hdr.status is not looked at
  m.kind = "err" \/ m.op = op

CompletesOnRow(m, op) ==  \* mutant: an error does not end it
  m.op = op /\ m.status = "complete"

\* The message ends the sub-procedure that asked for op: any error does.
Completes(m, op) ==
  m.kind = "err" \/ (m.op = op /\ m.status = "complete")

HasRow(m, op) == m.op = op /\ m.kind = "rsp" /\ m.row # "none"

\* The handle table after a message in the phase of handle h: the attribute that
\* a row names, whichever it is, is stored as h, plus off.
Found(m, op, h, off) ==
  IF HasRow(m, op) THEN [hdl EXCEPT ![h] = Handle(gen, m.row, off)] ELSE hdl

StayInDiscovery(p) == proc' = p /\ UNCHANGED <<discState, pend, armed>>

DiscSvc(m, p) ==
  /\ discState = "SVC"
  /\ hdl' = Found(m, "svc", "svc", 0)
  /\ IF Completes(m, "svc") /\ hdl'["svc"] # NotFound
     THEN GoTo(AfterSvc(conf), p) /\ UNCHANGED armed
     ELSE StayInDiscovery(p)

DiscNotifyChar(m, p) ==
  /\ discState = "NOTIFY_CHAR"
  /\ hdl' = Found(m, "type", "notify", 1)
  /\ IF Completes(m, "type")
     THEN GoTo("NOTIFY_CCCD", p) /\ UNCHANGED armed
     ELSE StayInDiscovery(p)

\* On to d; when nothing is left to discover the CCCD write is scheduled.
NextChar(d, p) ==
  /\ GoTo(d, p)
  /\ armed' = IF d = "IDLE" THEN armed \cup {"WRITE_CCCD"} ELSE armed

DiscNotifyCccd(m, p) ==
  LET h == Found(m, "type", "ccc", 0) IN
  /\ discState = "NOTIFY_CCCD"
  /\ IF Completes(m, "type")
     THEN /\ hdl' = IF conf.write = "same"
                    THEN [h EXCEPT !["write"] = h["notify"]] ELSE h
          /\ NextChar(AfterCccd(conf), p)
     ELSE hdl' = h /\ StayInDiscovery(p)

DiscWriteChar(m, p) ==
  /\ discState = "WRITE_CHAR"
  /\ hdl' = Found(m, "type", "write", 1)
  /\ IF Completes(m, "type")
     THEN NextChar(AfterWrite(conf), p)
     ELSE StayInDiscovery(p)

\* The first message of any kind ends this phase; only a row schedules the
\* CCCD write.  The handle stored is the declaration's own: the 1 that leads to
\* the value is added for notify and write, and not here.
DiscCustomChar(m, p) ==
  /\ discState = "CUSTOM_CHAR"
  /\ hdl' = Found(m, "type", "custom", 0)
  /\ armed' = IF HasRow(m, "type") THEN armed \cup {"WRITE_CCCD"} ELSE armed
  /\ GoTo("IDLE", p)

centralGATTDiscoveryEvent(m, p) ==
  \/ DiscSvc(m, p) \/ DiscNotifyChar(m, p) \/ DiscNotifyCccd(m, p)
  \/ DiscWriteChar(m, p) \/ DiscCustomChar(m, p)

ReadAnswer ==
  /\ proc' = IF proc = "read" THEN "free" ELSE proc
  /\ UNCHANGED <<discState, hdl, pend, armed, ready>>

BusyAfterError(m) ==  \* mutant: the error path does not free the slot
  /\ proc' = IF m.kind = "err" THEN proc ELSE "free"
  /\ armed' = IF m.kind = "err" /\ proc = "cccd"
               THEN armed \cup {"WRITE_CCCD"} ELSE armed
  /\ ready' = (ready \/ (m.kind = "rsp" /\ proc = "cccd"))
  /\ UNCHANGED <<discState, hdl, pend>>

ErrorIsSuccess(m) ==  \* mutant: the odd test of line 866 is never true
  /\ proc' = "free" /\ ready' = (ready \/ proc = "cccd")
  /\ UNCHANGED <<discState, hdl, pend, armed>>

\* Of the writes only the CCCD's is answered to the central task.  A response
\* is taken for success whatever its hdr.status.
WriteAnswer(m) ==
  /\ proc' = "free"
  /\ armed' = IF m.kind = "err" /\ proc = "cccd"
               THEN armed \cup {"WRITE_CCCD"} ELSE armed
  /\ ready' = (ready \/ (m.kind = "rsp" /\ proc = "cccd"))
  /\ UNCHANGED <<discState, hdl, pend>>

\* A message of the slot's connection is processed.
GattMsgConnected(m) ==
  LET p == IF m.op = "mtu" THEN "free" ELSE proc IN
  /\ state = "connected"
  /\ mtu' = IF m.op = "mtuUpdated" THEN LargeMtu ELSE mtu
  /\ \/ m.op = "read" /\ ReadAnswer
     \/ m.op = "write" /\ WriteAnswer(m)
     \/ /\ m.op \notin {"read", "write"} /\ discState # "IDLE"
        /\ centralGATTDiscoveryEvent(m, p)
        /\ UNCHANGED ready
     \/ /\ m.op \notin {"read", "write"} /\ discState = "IDLE"
        /\ proc' = p
        /\ UNCHANGED <<discState, hdl, pend, armed, ready>>

\* The slot has let go of the handle: no entry matches, the message is dropped.
GattMsgUnmatched ==
  /\ state = "idle"
  /\ UNCHANGED <<discState, proc, hdl, mtu, pend, armed, ready>>

centralProcessGATTMsg ==
  /\ inbox # <<>>
  /\ inbox' = Tail(inbox)
  /\ GattMsgConnected(Head(inbox)) \/ GattMsgUnmatched
  /\ UNCHANGED <<state, pMsg, pLen, wLen, conf, gen, link, attDead,
                 mtuCalls, enabled>>

-----------------------------------------------------------------------------
(* AT commands naming the slot.  A command that is refused (no handle,     *)
(* busy, not connected) changes nothing and is not an action.              *)

\* The MAC comparison looks at peerAddr only, which is zero on an idle slot.
Named == state = "connected" \/ ZeroMac

StaleLength(kind, h, e, n) ==  \* mutant: pMsg_len is not reset
  /\ Named /\ pMsg = "none" /\ hdl[h] # NotFound
  /\ wLen' = n /\ pMsg' = kind /\ armed' = armed \cup {e}
  /\ UNCHANGED <<state, discState, proc, hdl, mtu, pLen, conf, inbox, stackVars,
                 ready>>

\* AT+SPPWRITE and AT+CUSTOMWRITE: kind is the command, h the handle it needs,
\* e its event.  pMsg_wlen is set before the allocation that may fail.
AtWriteCommand(kind, h, e, n) ==
  /\ Named /\ pMsg = "none" /\ hdl[h] # NotFound
  /\ wLen' = n
  /\ \/ /\ pMsg' = kind /\ pLen' = 0 /\ armed' = armed \cup {e}
     \/ UNCHANGED <<pMsg, pLen, armed>>
  /\ UNCHANGED <<state, discState, proc, hdl, mtu, conf, inbox, stackVars, ready>>

AtSppWrite(n)    == AtWriteCommand("spp", "write", "SPP_WRITE", n)
AtCustomWrite(n) == AtWriteCommand("custom", "custom", "CUSTOM_WRITE", n)

AtCustomRead ==
  /\ Named /\ hdl["custom"] # NotFound
  /\ "CUSTOM_READ" \notin armed /\ proc # "read"
  /\ armed' = armed \cup {"CUSTOM_READ"}
  /\ UNCHANGED <<appVars, inbox, stackVars, ready>>

\* AT+SETSERVICE rewrites the vendor service in place, under the gsi_select of
\* a link that uses it.
AtSetService(c) ==
  /\ conf.vendor /\ c.vendor
  /\ c.svc /\ c.write # "none"
  /\ conf' = c
  /\ UNCHANGED <<state, discState, proc, hdl, mtu, pMsg, pLen, wLen, tmosVars,
                 stackVars, ready>>

-----------------------------------------------------------------------------
(* The peer and the stack answer.                                          *)

\* Queue ms for the central task.
Post(ms) == Len(inbox) + Len(ms) <= MaxBox /\ inbox' = inbox \o ms

\* A row of a discovery; the procedure goes on.
StackRow ==
  /\ pend.op \in {"svc", "type"}
  /\ Post(<<Message(pend.op, "rsp", pend.hdl, "success")>>)
  /\ UNCHANGED <<appVars, armed, stackVars, ready>>

\* The declaration of a characteristic of the present peer.
IsDeclaration(a) == /\ a.link = gen /\ a.off = 0
                    /\ a.of \in {"notify", "write", "custom"}

\* A peer answers a request on handle 0, and a write to a declaration, with an
\* error.
Denied(r) == /\ r.op \in {"read", "write"}
             /\ r.at = NotFound \/ (r.op = "write" /\ IsDeclaration(r.at))

\* The messages that may end the outstanding request.
Endings ==
  LET err == <<Message(pend.op, "err", "none", "success")>>
      ok  == CASE pend.op \in {"svc", "type"} ->
                    {<<Message(pend.op, "rsp", a, "complete")>> : a \in {"none", pend.hdl}}
               [] pend.op = "mtu" ->
                    {<<Message("mtuUpdated", "rsp", "none", "success"),
                       Message("mtu", "rsp", "none", "success")>>}
               [] OTHER -> {<<Message(pend.op, "rsp", "none", "success")>>}
  IN IF Denied(pend) THEN {err} ELSE ok \cup {err}

\* The answer goes to the task named in the request: the central task, which
\* receives it, or the slot's task.  No code receives the messages of that one
\* (tmos_msg_receive is called for centralTaskId only), so a response to a data
\* write stays in its queue for good and the program never sees it.
StackAnswer ==
  /\ pend.op # "none"
  /\ \E ms \in Endings :
       /\ IF pend.to = "central" THEN Post(ms) ELSE UNCHANGED inbox
       /\ enabled' = (enabled \/ (/\ pend.op = "write" /\ pend.hdl = "ccc"
                                  /\ ms[1].kind = "rsp"))
  /\ pend' = NoReq
  /\ UNCHANGED <<appVars, armed, gen, link, attDead, mtuCalls, ready>>

\* 30 s without an answer: the request's response is made up by the stack,
\* with status bleTimeout, and the link takes no request any more.
StackTimeout ==
  /\ Timeouts /\ pend.op # "none"
  /\ attDead' = TRUE /\ pend' = NoReq
  /\ IF pend.to = "central"
     THEN Post(<<Message(pend.op, "rsp", "none", "timeout")>>)
     ELSE UNCHANGED inbox
  /\ UNCHANGED <<appVars, armed, gen, link, mtuCalls, enabled, ready>>

-----------------------------------------------------------------------------
Firmware ==
  \/ LinkTerminated
  \/ SvcDiscoveryEvt
  \/ SppWriteEvt \/ CustomWriteEvt
  \/ CustomReadEvt \/ WriteCccdEvt
  \/ centralProcessGATTMsg

Host ==
  \/ \E n \in 0 .. MaxLen : AtSppWrite(n) \/ AtCustomWrite(n)
  \/ AtCustomRead
  \/ \E c \in Configs : AtSetService(c)

Environment ==
  \/ \E c \in Configs : LinkEstablished(c)
  \/ LinkDrop
  \/ MtuChange
  \/ StackRow \/ StackAnswer \/ StackTimeout

Next == Firmware \/ Host \/ Environment

Spec == Init /\ [][Next]_vars

\* The loop of main.c never blocks, so what it can do it does.  A peer has
\* finitely many rows and answers, or the link goes; a link whose ATT bearer
\* timed out is torn down.  A write event that finds the ATT bearer free again
\* and again between the other 30 ms retries once meets it free.  Nothing is
\* assumed of the host, of new links, or of what the answers are.
Fairness ==
  /\ WF_vars(LinkTerminated)
  /\ WF_vars(SvcDiscoveryEvt)
  /\ WF_vars(SppWriteEvt) /\ SF_vars(SppWriteEvt /\ <<pMsg, pLen>>' # <<pMsg, pLen>>)
  /\ WF_vars(CustomWriteEvt) /\ SF_vars(CustomWriteEvt /\ <<pMsg, pLen>>' # <<pMsg, pLen>>)
  /\ WF_vars(CustomReadEvt) /\ WF_vars(WriteCccdEvt)
  /\ WF_vars(centralProcessGATTMsg)
  /\ SF_vars(StackAnswer)
  /\ WF_vars(attDead /\ LinkDrop)

FairSpec == Spec /\ Fairness
-----------------------------------------------------------------------------
(* Safety.                                                                 *)

WriteEvents == {"SPP_WRITE", "CUSTOM_WRITE"}
EventOf(kind) == IF kind = "spp" THEN "SPP_WRITE" ELSE "CUSTOM_WRITE"

\* No lost wake-up and no stray one: on a connected slot the write event that
\* is armed is exactly that of the buffered write.  Every way out of the two
\* write handlers (busy, no buffer, refused, fragment sent, done) decides
\* between the 30 ms restart and none, and a reused slot starts clean.
WriteEventMatches ==
  state = "connected" =>
    armed \cap WriteEvents = IF pMsg = "none" THEN {} ELSE {EventOf(pMsg)}

\* The unsigned subtraction pMsg_wlen - pMsg_len never wraps and a buffered
\* write that is not empty has something left to send.
WriteHasRest == pMsg # "none" => IF wLen = 0 THEN pLen = 0 ELSE pLen < wLen

IsAnswerTo(p, m) == m.op = (IF p = "read" THEN "read" ELSE "write")

\* A slot busy with a read or a CCCD write has its answer coming: the request
\* is outstanding or the response queued.  Otherwise nothing would ever set
\* procedureInProgress back to free.
BusyHasAnswer ==
  proc \in {"read", "cccd"} /\ link = "up" =>
    \/ pend.op # "none" /\ pend.to = "central" /\ IsAnswerTo(proc, pend)
    \/ \E i \in 1 .. Len(inbox) : IsAnswerTo(proc, inbox[i])

\* What a phase of discovery asks the peer for, and a message that ends it; the
\* last phase is ended by any.
Asks(d)  == IF d = "SVC" THEN "svc" ELSE "type"
Ends(d, m) == d = "CUSTOM_CHAR" \/ Completes(m, Asks(d))

\* A discovery that has found the service goes on to its end, which alone sets
\* procedureInProgress to free: the request of its phase is outstanding, or what
\* ends the phase is queued (multiCentral.c:1299-1507, where each phase has to
\* send the request of the next one).  MTU callbacks and calls refused for want
\* of a buffer can break the chain; an ATT time-out ends the link.
DiscoveryGoesOn ==
  link = "up" /\ proc = "disc" /\ hdl["svc"].link = gen /\ ~attDead =>
    \/ pend.op = Asks(discState) /\ pend.to = "central"
    \/ \E i \in 1 .. Len(inbox) : Ends(discState, inbox[i])

\* Once a link whose service is a built-in one has started its discovery, no
\* handle of an earlier link of the slot is left.
HandlesFresh ==
  state = "connected" /\ ~conf.vendor /\ "SVC_DISCOVERY" \notin armed =>
    \A h \in HandleNames : hdl[h].link \in {0, gen}

\* "+NOTIFY:..,READY" is reported only when the peer has acknowledged the write
\* of the CCCD on this very link: not for the answer to another request, and not
\* for one left over from the slot's last link.  (The code does not tell the
\* response that the stack makes up after an ATT timeout from one of the peer's.)
ReadyMeansEnabled == ready => enabled \/ attDead

-----------------------------------------------------------------------------
(* Action properties.                                                      *)

HandleOf(kind) == IF kind = "spp" THEN "write" ELSE "custom"

\* What a write may be sent to: handle 0, when discovery has not found its
\* characteristic, or what this link's peer has named for it.  For AT+SPPWRITE
\* that is the value of the write characteristic, or of the notify one where
\* the service says that they are the same (a service that AT+SETSERVICE
\* rewrites may have said so at the time).
SppChars == IF conf.vendor THEN {"write", "notify"}
            ELSE IF conf.write = "same" THEN {"notify"} ELSE {"write"}
Targets(kind) ==
  {NotFound} \cup IF kind = "spp" THEN {Handle(gen, c, 1) : c \in SppChars}
                   ELSE {Handle(gen, "custom", k) : k \in {0, 1}}

\* A fragment of the buffered write goes out.
SendsFragment == pLen' > pLen /\ pend' # pend

\* The data of AT+SPPWRITE is never written with the handle of AT+CUSTOMWRITE
\* nor the other way round, although the two share buffer, lengths and code;
\* and as long as no MTU callback has been made on the link, the handle is the
\* one that this link's own peer has named for that very characteristic: not
\* one of an earlier link of the slot or of the service before AT+SETSERVICE,
\* and not one that answers the request of another phase.  (For
\* AT+CUSTOMWRITE it may be the declaration: multiCentral.c:1482 does not add
\* the 1 that leads to the value, lines 1359 and 1443 do.)
FragmentToOwnHandle ==
  SendsFragment =>
    /\ pend'.hdl = HandleOf(pMsg)
    /\ mtuCalls = 0 => pend'.at \in Targets(pMsg)
WritesOwnHandle == [][FragmentToOwnHandle]_vars

\* A slot does for the host what AtWrite promises.
Abstract == INSTANCE AtWrite WITH
  Kinds <- {"spp", "custom"},
  up    <- (state = "connected"),
  job   <- pMsg,
  size  <- wLen,
  sent  <- pLen
WriteRefines == Abstract!Spec

-----------------------------------------------------------------------------
(* Liveness.                                                               *)

\* A write accepted for a characteristic of this link's peer is handed over to the
\* end, or goes with the connection.  (One for a handle that an earlier link has
\* left may wait as long as the link lasts.)
WriteCompletes ==
  (pMsg # "none" /\ hdl[HandleOf(pMsg)].link = gen) ~> (pMsg = "none")

=============================================================================

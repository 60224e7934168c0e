----------------------------- MODULE CentralLink -----------------------------
(***************************************************************************)
(* The connection table of the multi-link central: scanning, establishing  *)
(* and losing links (centralEventCB of multiCentral.c), the AT commands    *)
(* that drive it (at_cmd.c), and the GAP role layer of the closed stack.   *)
(*                                                                         *)
(* The stack does its work and queues the event; the program learns of it  *)
(* when the callback is made.  What the table says therefore lags behind   *)
(* the stack by the events in gapq, and AT commands run in the gap.        *)
(* GattClient.tla models what happens inside one slot of this table.       *)
(***************************************************************************)
EXTENDS Integers, Sequences, FiniteSets

CONSTANTS
  Peers,     \* device addresses
  NoPeer,    \* 000000000000, the address of an unused entry
  MaxConn,   \* CENTRAL_MAX_CONNECTION, of the table and of the stack's links
  MaxRes,    \* DEFAULT_MAX_SCAN_RES
  MaxQueue,  \* GAP events queued for the callback
  MaxDrops,  \* links lost over a run
  Unlists,   \* TRUE: the host may disable or replace the entry of a wanted peer
  StayOn,    \* peers that go on advertising while connected
  EndsAll    \* TRUE: GAPRole_TerminateLink(0xFFFF) ends every link, as the
             \* stack's header has it; FALSE: only the one being created

ASSUME CentralAssumption ==
  /\ MaxConn \in Nat \ {0} /\ MaxRes \in Nat \ {0} /\ MaxQueue \in Nat \ {0}
  /\ MaxDrops \in Nat
  /\ Unlists \in BOOLEAN /\ EndsAll \in BOOLEAN
  /\ NoPeer \notin Peers /\ StayOn \subseteq Peers

Slots   == 1 .. MaxConn
Handles == 1 .. MaxConn
NoHandle == 0               \* GAP_CONNHANDLE_INIT

VARIABLES
  connList,     \* centralConnList: connHandle (state follows it) and peerAddr
  peerDef,      \* PeerAddrDef: address and enabled
  scanEnabled,  \* multiCentral_info.scan_enabled
  devList,      \* centralDevList[0 .. centralScanRes - 1]
  timer,        \* ESTABLISH_LINK_TIMEOUT_EVT is pending
  mode,         \* the stack: "off", "idle", "scan", or "init" (creating a link)
  target,       \* the peer of the link being created
  links,        \* the stack's links, by handle
  closing,      \* links the program has asked the stack to terminate
  gapq,         \* events the stack has queued for centralEventCB
  drops,        \* links lost so far
  overrun       \* centralConnList has been written past its end

tableVars == <<connList, peerDef, scanEnabled, devList, timer>>
stackVars == <<mode, target, links, closing, gapq, drops>>
vars      == <<tableVars, stackVars, overrun>>

FreeSlot == [conn |-> NoHandle, addr |-> NoPeer]

Events == [kind : {"started", "info", "done", "up", "failed", "down"},
           conn : Handles \cup {NoHandle}, addr : Peers \cup {NoPeer}]
Event(k, h, p) == [kind |-> k, conn |-> h, addr |-> p]

TypeOK ==
  /\ connList \in [Slots -> [conn : Handles \cup {NoHandle},
                             addr : Peers \cup {NoPeer}]]
  /\ peerDef \in [Slots -> [addr : Peers \cup {NoPeer}, enabled : BOOLEAN]]
  /\ scanEnabled \in BOOLEAN
  /\ devList \in Seq(Peers) /\ Len(devList) <= MaxRes
  /\ timer \in BOOLEAN
  /\ mode \in {"off", "idle", "scan", "init"}
  /\ target \in Peers \cup {NoPeer}
  /\ links \in [Handles -> Peers \cup {NoPeer}]
  /\ closing \subseteq Handles
  /\ gapq \in Seq(Events)
  /\ drops \in 0 .. MaxDrops
  /\ overrun \in BOOLEAN

Init ==
  /\ connList = [s \in Slots |-> FreeSlot]
  /\ peerDef \in [Slots -> [addr : Peers \cup {NoPeer}, enabled : BOOLEAN]]
  /\ \A s \in Slots : peerDef[s].enabled <=> peerDef[s].addr # NoPeer
  /\ \A s, t \in Slots : s # t /\ peerDef[s].enabled =>
                           peerDef[s].addr # peerDef[t].addr
  /\ scanEnabled = FALSE /\ devList = <<>> /\ timer = FALSE
  /\ mode = "off" /\ target = NoPeer
  /\ links = [h \in Handles |-> NoPeer]
  /\ closing = {} /\ gapq = <<>> /\ drops = 0
  /\ overrun = FALSE

-----------------------------------------------------------------------------
(* Calls of the stack.                                                     *)

\* GAPRole_CentralStartDiscovery is granted only to an idle stack.
Scans == mode' = IF mode = "idle" THEN "scan" ELSE mode

\* if(scan_enabled == TRUE) GAPRole_CentralStartDiscovery(..), result ignored.
Rescan == IF scanEnabled THEN Scans ELSE UNCHANGED mode

\* GAPRole_CentralEstablishLink, result ignored: bleNotReady when a scan is in
\* progress, bleNoResources when there are too many links.
EstablishLink(p) ==
  IF mode = "idle" /\ \E h \in Handles : links[h] = NoPeer
  THEN mode' = "init" /\ target' = p
  ELSE UNCHANGED <<mode, target>>

\* GAPRole_TerminateLink of a link that may be gone already.
TerminateLink(h) ==
  closing' = IF links[h] # NoPeer THEN closing \cup {h} ELSE closing

\* centralAddrCmp: an enabled entry has this address.
Wanted(p) == \E s \in Slots : peerDef[s].enabled /\ peerDef[s].addr = p

IsFree(s) == connList[s].conn = NoHandle
AlwaysFirst(s) == s = 1  \* mutant: the search for a free entry is skipped
FirstFree(s) == IsFree(s) /\ \A t \in Slots : t < s => ~IsFree(t)
FirstInUse(s, h) ==  \* mutant: the first entry in use, whatever its handle
  ~IsFree(s) /\ \A t \in Slots : t < s => IsFree(t)
FirstWith(s, h) ==
  connList[s].conn = h /\ \A t \in Slots : t < s => connList[t].conn # h

-----------------------------------------------------------------------------
(* centralEventCB.                                                         *)

\* The callback for the event e at the head of the queue.
Callback(k) ==
  /\ gapq # <<>> /\ Head(gapq).kind = k
  /\ gapq' = Tail(gapq)
  /\ UNCHANGED <<peerDef, scanEnabled, links, drops>>

DeviceInitDone ==
  /\ Callback("started")
  /\ Rescan
  /\ UNCHANGED <<connList, devList, timer, target, closing, overrun>>

\* centralAddDeviceInfo
DeviceInfoUncapped ==  \* mutant: DEFAULT_MAX_SCAN_RES is not looked at
  LET p == Head(gapq).addr IN
  /\ Callback("info")
  /\ devList' = IF \A i \in 1 .. Len(devList) : devList[i] # p
                THEN Append(devList, p) ELSE devList
  /\ UNCHANGED <<connList, timer, mode, target, closing, overrun>>
DeviceInfo ==
  LET p == Head(gapq).addr IN
  /\ Callback("info")
  /\ devList' = IF Len(devList) < MaxRes /\ \A i \in 1 .. Len(devList) : devList[i] # p
                THEN Append(devList, p) ELSE devList
  /\ UNCHANGED <<connList, timer, mode, target, closing, overrun>>

DeviceDiscovery ==
  /\ Callback("done")
  /\ \/ /\ \A i \in 1 .. Len(devList) : ~Wanted(devList[i])
        /\ devList' = <<>>
        /\ Rescan
        /\ UNCHANGED <<timer, target>>
     \/ \E i \in 1 .. Len(devList) :
          /\ Wanted(devList[i])
          /\ \A j \in 1 .. i - 1 : ~Wanted(devList[j])
          /\ EstablishLink(devList[i])
          /\ timer' = TRUE
          /\ UNCHANGED devList
  /\ UNCHANGED <<connList, closing, overrun>>

\* tmos_stop_task does not take back an event whose timer has expired.
StopTimer == timer' \in {FALSE, timer}

\* GAP_LINK_ESTABLISHED_EVENT, status SUCCESS.
LinkEstablished ==
  LET h == Head(gapq).conn
      p == Head(gapq).addr
  IN
  /\ Callback("up")
  /\ StopTimer
  /\ \/ /\ ~Wanted(p) \/ \A s \in Slots : ~IsFree(s)
        /\ TerminateLink(h)
        /\ UNCHANGED <<connList, devList, mode>>
     \/ \E s \in Slots :
          /\ Wanted(p) /\ FirstFree(s)
          /\ connList' = [connList EXCEPT ![s] = [conn |-> h, addr |-> p]]
          /\ IF \E t \in Slots : connList'[t].conn = NoHandle
             THEN devList' = <<>> /\ Rescan
             ELSE UNCHANGED <<devList, mode>>
          /\ UNCHANGED closing
  /\ UNCHANGED <<target, overrun>>

\* GAP_LINK_ESTABLISHED_EVENT, any other status.
LinkFailedNoRescan ==  \* mutant: scanning is not started again
  /\ Callback("failed")
  /\ StopTimer
  /\ devList' = <<>>
  /\ UNCHANGED <<connList, mode, target, closing, overrun>>
LinkFailed ==
  /\ Callback("failed")
  /\ StopTimer
  /\ devList' = <<>>
  /\ Rescan
  /\ UNCHANGED <<connList, target, closing, overrun>>

\* The entry of a link that has ended.
KeepsHandle(e) == [e EXCEPT !.addr = NoPeer]  \* mutant: connHandle is left
Cleared(e) == FreeSlot

LinkTerminatedNoRescan ==  \* mutant: scanning is not started again
  LET h == Head(gapq).conn IN
  /\ Callback("down")
  /\ devList' = <<>>
  /\ \E s \in Slots : /\ FirstWith(s, h)
                     /\ connList' = [connList EXCEPT ![s] = Cleared(@)]
  /\ UNCHANGED <<timer, mode, target, closing, overrun>>

\* GAP_LINK_TERMINATED_EVENT.  When no entry has the handle the code goes on
\* with connItem == CENTRAL_MAX_CONNECTION and writes behind the table; what
\* the program does from there on is not defined.
LinkTerminated ==
  LET h == Head(gapq).conn IN
  /\ Callback("down")
  /\ devList' = <<>>
  /\ Rescan
  /\ \/ \E s \in Slots : FirstWith(s, h)
          /\ connList' = [connList EXCEPT ![s] = Cleared(@)]
          /\ UNCHANGED overrun
     \/ /\ \A s \in Slots : connList[s].conn # h
        /\ overrun' = TRUE
        /\ UNCHANGED connList
  /\ UNCHANGED <<timer, target, closing>>

\* ESTABLISH_LINK_TIMEOUT_EVT: GAPRole_TerminateLink(INVALID_CONNHANDLE).  The
\* stack gives up creating a link (LinkCreateFails, which needs no reason).
EstablishTimeout ==
  /\ timer /\ timer' = FALSE
  /\ closing' = IF EndsAll THEN {h \in Handles : links[h] # NoPeer} ELSE closing
  /\ UNCHANGED <<connList, peerDef, scanEnabled, devList, mode, target, links,
                 gapq, drops, overrun>>

-----------------------------------------------------------------------------
(* AT commands.                                                            *)

AtStartScan ==
  /\ mode = "idle"
  /\ mode' = "scan" /\ scanEnabled' = TRUE
  /\ UNCHANGED <<connList, peerDef, devList, timer, target, links, closing,
                 gapq, drops, overrun>>

\* Whatever GAPRole_CentralCancelDiscovery says.  A cancelled scan ends as one
\* that has run its time (ScanEnds).
AtStopScan ==
  /\ scanEnabled' = FALSE
  /\ UNCHANGED <<connList, peerDef, devList, timer, stackVars, overrun>>

\* AT+SETCONNECT, and AT+ENABLECONNECT / AT+DISABLECONNECT, which keep the
\* address.
AtSetConnect(s, p, on) ==
  /\ peerDef' = [peerDef EXCEPT ![s] = [addr |-> p, enabled |-> on]]
  /\ Unlists \/ ~peerDef[s].enabled
  /\ UNCHANGED <<connList, scanEnabled, devList, timer, stackVars, overrun>>

\* AT+DISCONNECT of a connected address: the first entry that has it.  (No more
\* of them once MaxDrops is reached, for the link could not go down.)
AtDisconnect(p) ==
  /\ drops < MaxDrops
  /\ \E s \in Slots :
       /\ connList[s].addr = p /\ \A t \in Slots : t < s => connList[t].addr # p
       /\ TerminateLink(connList[s].conn)
  /\ UNCHANGED <<tableVars, mode, target, links, gapq, drops, overrun>>

-----------------------------------------------------------------------------
(* The stack.                                                              *)

Queue(e) == Len(gapq) < MaxQueue /\ gapq' = Append(gapq, e)

Linked(p) == \E h \in Handles : links[h] = p

DeviceStarts ==
  /\ mode = "off" /\ mode' = "idle"
  /\ Queue(Event("started", NoHandle, NoPeer))
  /\ UNCHANGED <<tableVars, target, links, closing, drops, overrun>>

Hears(p) ==
  /\ mode = "scan" /\ (Linked(p) => p \in StayOn)
  /\ Queue(Event("info", NoHandle, p))
  /\ UNCHANGED <<tableVars, mode, target, links, closing, drops, overrun>>

ScanEnds ==
  /\ mode = "scan" /\ mode' = "idle"
  /\ Queue(Event("done", NoHandle, NoPeer))
  /\ UNCHANGED <<tableVars, target, links, closing, drops, overrun>>

\* A second link to a peer is never made.
LinkUp(p) ==
  /\ mode = "init" /\ target = p /\ ~Linked(p)
  /\ mode' = "idle" /\ target' = NoPeer
  /\ \E h \in Handles :
       /\ links[h] = NoPeer
       /\ links' = [links EXCEPT ![h] = p]
       /\ Queue(Event("up", h, p))
  /\ UNCHANGED <<tableVars, closing, drops, overrun>>

LinkCreateFails ==
  /\ mode = "init" /\ mode' = "idle" /\ target' = NoPeer
  /\ Queue(Event("failed", NoHandle, NoPeer))
  /\ UNCHANGED <<tableVars, links, closing, drops, overrun>>

LinkDown(h) ==
  /\ links[h] # NoPeer
  /\ drops < MaxDrops /\ drops' = drops + 1
  /\ links' = [links EXCEPT ![h] = NoPeer]
  /\ closing' = closing \ {h}
  /\ Queue(Event("down", h, links[h]))
  /\ UNCHANGED <<tableVars, mode, target, overrun>>

-----------------------------------------------------------------------------
CentralEventCB ==
  \/ DeviceInitDone \/ DeviceInfo \/ DeviceDiscovery
  \/ LinkEstablished \/ LinkFailed \/ LinkTerminated

Host ==
  \/ AtStartScan \/ AtStopScan
  \/ \E s \in Slots, p \in Peers, on \in BOOLEAN : AtSetConnect(s, p, on)
  \/ \E p \in Peers : AtDisconnect(p)

Stack ==
  \/ DeviceStarts \/ ScanEnds \/ LinkCreateFails
  \/ \E p \in Peers : Hears(p) \/ LinkUp(p)
  \/ \E h \in Handles : LinkDown(h)

Next == ~overrun /\ (CentralEventCB \/ EstablishTimeout \/ Host \/ Stack)

Spec == Init /\ [][Next]_vars

\* Callbacks are made and the timer fires because the loop runs; a scan and a
\* link creation end because the stack bounds them; a peer that advertises is
\* heard, and a link to it comes up, if that is tried again and again.  Strong
\* fairness of the stack makes up for the bound on the queue, too.
Fairness ==
  /\ WF_vars(CentralEventCB) /\ WF_vars(EstablishTimeout)
  /\ WF_vars(DeviceStarts) /\ SF_vars(ScanEnds) /\ SF_vars(LinkCreateFails)
  /\ \A p \in Peers : SF_vars(Hears(p)) /\ SF_vars(LinkUp(p))

FairSpec == Spec /\ Fairness
-----------------------------------------------------------------------------
(* Safety.                                                                 *)

\* The line marked "Should not go there" is not reached: a link that ends has
\* an entry in the table.
TerminatedFindsEntry == ~overrun

\* The table lags behind the stack only by the link events in the queue: with
\* none there, an entry in use stands for a live link of its peer, and a live
\* link without an entry is one the program has had terminated.
TableMatchesLinks ==
  (\A i \in 1 .. Len(gapq) : gapq[i].kind \notin {"up", "down"}) =>
    LET used == {connList[s] : s \in {t \in Slots : ~IsFree(t)}}
        live == {h \in Handles : links[h] # NoPeer}
    IN /\ used \subseteq {[conn |-> h, addr |-> links[h]] : h \in live}
       /\ \A h \in live \ closing : \E e \in used : e.conn = h

\* The handlers look a handle up, and the AT commands an address, and take the
\* first entry that fits: there is never a second one.
EntriesDistinct ==
  \A s, t \in Slots : s # t /\ ~IsFree(s) /\ ~IsFree(t) =>
    connList[s].conn # connList[t].conn /\ connList[s].addr # connList[t].addr

\* "Connection max" is for peers the host has disabled: when a link comes up
\* there is a free entry for it.
EntryForLink ==
  gapq # <<>> /\ Head(gapq).kind = "up" => \E s \in Slots : IsFree(s)

\* While scanning is enabled and an entry is free, the stack is scanning or
\* connecting, or an event is queued (or due, of a link being terminated) whose
\* callback starts it again: none of the places that restart the scan is missing.
ScanAlive ==
  scanEnabled /\ (\E s \in Slots : IsFree(s)) =>
    mode \in {"scan", "init"} \/ gapq # <<>> \/ closing # {}

-----------------------------------------------------------------------------
(* Liveness.                                                               *)

Connected(p) == \E s \in Slots : connList[s].addr = p

\* With scanning on, a wanted peer in range is connected again and again: after
\* the first attempts that fail, and after every link of its that ends, whether
\* entries were free in the meantime or not.  This is so if the host does not go
\* on sending AT+STARTSCAN: each may get in between the end of a scan and its
\* callback, whose GAPRole_CentralEstablishLink is then refused.
WantedConnects ==
  \A p \in Peers :
    <>[](scanEnabled /\ Wanted(p)) /\ <>[][~AtStartScan]_vars => []<>Connected(p)

=============================================================================

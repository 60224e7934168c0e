# Verification of the CH583 AT multi-central firmware

The firmware makes a CH583 chip a Bluetooth LE central that keeps up to six
connections and is driven by AT commands over a UART. This directory holds TLA+
models of the program's own code, TLC configurations that check them on small
instances, and proofs, checked by TLAPS, of what holds for every size.

    tlc -config GattSlot.cfg MCGattClient     # one run of the table below
    tlapm GattClient_proof.tla                # the proofs of one component

## The system

Everything but the UART interrupt runs in one cooperative loop
(`TMOS_SystemProcess`, main.c:58). A handler runs to its end before the next one
starts, so one handler is one action of a model. What is concurrent with the
loop is the radio and the closed BLE stack, the peers, the host at the other end
of the UART, and the interrupts; what the loop does not control is the
order in which it reaches expired timers, queued messages, callbacks and
commands.

| Component | State | Operations | What must hold |
| :-- | :-- | :-- | :-- |
| GATT client of a slot (multiCentral.c) | one `centralConnItem_t`: handles, discovery state, `procedureInProgress`, the buffered write, MTU; the slot task's events | link up and down, five task events, GATT messages, MTU callback, five AT commands | a buffered write and its event stay together; it reaches the right characteristic of the right peer, in order and to its end; a busy slot becomes free; READY means what it says |
| Connection table and scanning (multiCentral.c) | `centralConnList` handles and addresses, `PeerAddrDef`, the scan list, `scan_enabled`, the establish timer | six GAP events, one timer, five AT commands | the table is the stack's set of links; no entry is used twice; scanning goes on while there is room; wanted peers get connected |
| AT commands (at_cmd.c) | none of their own | one function per command | belong to the component whose state they change |
| AT UART (uart_interface.c) | receive state machine, command buffer; transmit ring buffer and FIFO | interrupt (receive and transmit), receive task with its time-out, `uart_at_send_data` | a command is run whole, once and with its own data; every byte of an answer is sent once and in order; the transmitter does not fall asleep |
| Ring buffer (ringbuf.c) | head, tail, buffer | put and get, one in the loop and one in the interrupt, and on transmit two getters | a FIFO, without a lock |
| Settings (sys_info.c) over the flash database (tinyflashdb.c) | flash pages, address cache, the copy in RAM | set, get, boot | after a reset either the old or the new value, or none when the page was full |
| tiny-macro-os | one task, one state machine | the macros the receive task is written with | a task that waits is woken |
| Command dispatch (hash-match), text conversions (mystdlib.c) | a table in a linker section | lookup, AscToHex, AscToInt | the right command, with the arguments the line says |
| BLE stack (library, header only) | links, ATT bearers, queued events | called and calling back | assumed, from the header's contracts |

Slots and table interact in two places: a GAP event gives a slot its link and
takes it away, and a slot's requests go out under the handle the table holds.
Slots do not share state with each other, except that all may point
(`gsi_select`) at the one service the host can rewrite. AT commands run in the
gap between what the stack has done and the callback that tells the program.

A byte travels: host, receive interrupt, ring buffer, receive task and its state
machine (UartRx), then, when the package is over, dispatch and argument parsing
(Command), then the handler, which acts on a slot (GattClient), on the table
(CentralLink) or on the settings (Tfdb), and whose answer goes through
`uart_at_send_data`, ring buffer and transmit interrupt (UartTx). The models cut
this path where a call hands over a value and nothing flows back.

What is hard here: a slot is reused, and what a link leaves behind in it is met
by the next link; one field, `procedureInProgress`, is written by seven handlers;
two write commands share a buffer and two hand-copied handlers; events queued by
the stack describe a past; calls that are refused are retried by timers, or not
at all; scanning has to be restarted by hand at the end of five handlers. On the
UART, loop and interrupt share ring buffers and a transmit FIFO and mask the
interrupt only here and there; the end of a command is a silence, measured in
runs of a task that other handlers delay; buffers keep what earlier commands have
left. In flash, a set is several operations, each of which may fail or be cut.

## Modules

**GattClient** follows one slot through `MaxGen` links. A variable of the model
is a field of `centralConnItem_t` (`discState`, `proc`, `hdl`, `pMsg`, ...), or
the slot task's timers and events (`armed`), or the message queue (`inbox`), or
belongs to the stack (`link`, `pend`, `attDead`). An attribute handle is
represented by where it came from: the link it was discovered on, what that link's
peer had been asked for when it named an attribute, and what the code added to the
number in the row (`off`). That is what the question "whose handle is this, and of
which attribute" needs: a row that answers the request of another phase, or a
missing `+ 1`, gives a handle that differs from the right one. `NotFound` is the
code's 0. What a row names for a characteristic is its declaration, and the value is
the attribute behind it (GATT_DiscCharsByUUID in CH58xBLE_LIB.h); for a descriptor it
is the descriptor. A peer answers a write to a declaration with an error (`Denied`).
Lengths are
counted in default ATT payloads (20 bytes): `mtu` is 1 or 2. One action is one
handler, named as in the code:

| Action | Code |
| :-- | :-- |
| `LinkEstablished`, `LinkTerminated` | `centralEventCB`, those two cases, for this slot |
| `SvcDiscoveryEvt` | `centralConnIistStartDiscovery` |
| `SppWriteEvt`, `CustomWriteEvt` (sharing `WriteStep`) | `connect_ProcessEvent`, 529-604 and 606-681, which differ in handle and event only |
| `CustomReadEvt`, `WriteCccdEvt` (sharing `StartProcedure`) | `connect_ProcessEvent`, 683-747 |
| `centralProcessGATTMsg`, with one operator for each state of `centralGATTDiscoveryEvent` | the functions of these names |
| `MtuChange` | `centralHciMTUChangeCB` |
| `AtSppWrite`, `AtCustomWrite`, `AtCustomRead`, `AtSetService` | at_cmd.c |
| `LinkDrop`, `StackRow`, `StackAnswer`, `StackTimeout` | the stack and the peer, from the header |

Timers have no length in the model: an armed event may be dispatched at any time.
That over-approximates the 30 ms, 1 s and 2 s delays, and it is needed because
`tmos_stop_task` stops a timer but does not take back an event that is already
set. One consequence of long delays is kept as a guard (`Drained`): a link takes
hundreds of milliseconds to come up, and by then the loop has received the
messages of the last one and run a write event that was left set.

**AtWrite** is the abstract promise of the two write commands: one write at a
time, accepted only on a connected slot, handed over without a gap or a
repetition, over when all has been handed over or with the connection. The slot
implements it with `up <- state = "connected"`, `job <- pMsg`, `size <- pMsg_wlen`,
`sent <- pMsg_len` (`WriteRefines`).

**CentralLink** models the table: an entry is its handle and address, a GAP event
is queued by the stack when the thing happens and handled when the callback is
made, and AT commands come in between. Stack actions are the GAP role layer of
the header: discovery is granted to an idle stack, a link is made to one peer at
a time and never twice to the same peer, handles are reused. Entry `connList[s]`
with `conn = NoHandle` is `connHandle == GAP_CONNHANDLE_INIT`, on which every test
of the code rests.

**Tfdb** models one page of settings: a header and `N` records, of which the last
that verifies is the value. A record is blank, cut short, spoilt or a value,
which is all the code's tests (last byte erased, read back equal) tell apart.
`tfdb_set` is `SetBegin`, which chooses the first record to try, and then one
action for each operation on the flash (`Erase`, `WriteHeader`, `WriteRecord`),
each with its success, its error return, and the outcome the read-back catches;
the power may go in the middle of each (`Interrupted`, then `Boot`). The address
cache, the retry limit and the copy in RAM that a boot fills are those of the
code. The search of a boot may also meet a read error: tfdb_get then returns it
without a cache, and the copy is zeroed while the page keeps its value
(sys_info.c:140). **DurableRegister** is what the host may expect: the register keeps
its value over resets, a set cut by a reset leaves the old value, the new one or
none, and a boot either copies the register or, if it could not read it (`unread`),
has no copy. Tfdb implements it with `reg <- Stored(page)`, `copy <- ram`,
`job <- val`.

**RingBuf** has the accesses of ringbuf.c as separate steps (`Store`, `Publish`,
`Oldest`, `Release`) over an array and two indexes. **UartTx** lets the main loop
and the interrupt handler take them: `uart_at_send_data` is a program counter
`at` with one action per access; the handler, which the hardware does not let be
interrupted by the loop, is one action, possible whenever it is raised and not
masked. AT+SETBAUDRATE waits twice, for the ring buffer (`drainRing`) and then for
the FIFO (`drainFifo`), and the interrupt may run before, between and after the
two. **Fifo** is the abstract queue; UartTx
implements it with `q <- fifo \o Held`, what is in the hardware and in the ring
buffer.

**UartRx** models the receive path: the interrupt (`Receives`) appends or drops,
the task waits (`Waits`, `PackageEnds`), drains byte by byte (`DrainBegins`,
`TakeByte`, `DrainEnds`), and `Accept` is the state machine, one clause for each
OS_FSM_WAIT of the code. The state "rest" is the value 0 of the machine's state
variable, which the machine leaves at its first byte whatever that is. The
receive buffer is a bounded sequence here: loop and interrupt use it through the
functions of RingBuf, with one getter where UartTx has two.

**Dispatch** computes the 32 bit hash of the real command names in two halves and
the comparison as the code does it, including its return value; the order in
which the linker puts the commands is open. **AtText** has AscToHex, AscToInt and
atoi over a buffer of characters, each by where it stops (`HexEnd`, `RunLen`) and
by what it has read until then, so that no recursion over the text is needed.
**Command** puts a package into the buffer that still holds its predecessors,
looks up the handler, and parses AT+SETCONNECT. A package has no line end if the
receiver lost it, and is then answered ERR:02.

**MCGattClient**, **MCCentralLink**, **MCTfdb**, **MCUartTx**, **MCUartRx** and
**MCCommand** give the values of the instances.

Operators whose comment says *mutant* are not part of a specification: they are
variants of a definition with a plausible bug, kept to show that each property
notices it.

## Runs

| Run | Instance | Question |
| :-- | :-- | :-- |
| GattSlot | 2 links, writes up to 2 units, 2 queued messages, 1 MTU callback, refused calls, ATT time-outs, services CH9141 and BT05 | eight properties of a slot |
| GattLive | 2 links, all five services, `AT+SETSERVICE` at any moment, fairness | does a discovery that has found its service go on, does a write go to its own characteristic, and does it end? |
| LinkTable | 2 slots, 2 peers, one heard while connected, 1 loss, 3 queued events, 1 scan result, host edits entries, establish timeout ends all links | five invariants of the table |
| LinkLive | 2 slots, 2 peers, 2 losses, 2 queued events, fairness; AT+SETCONNECT takes no peer off the list | is every wanted peer connected, and again after each loss; is the entry of an ended link found? |
| Tfdb | 3 records, 2 values, retry limit 8, no bound on sets, failures or resets, fairness | is it a durable register; do cache and page agree; does every set end, and in how many steps? |
| UartTx | ring buffer of 4, FIFO of 3, messages up to 3, 2 byte values, fairness | is it a FIFO; does it keep sending; do the busy-waits end, and has each somebody to end it? |
| UartRx | nine frames, name up to 1, data up to 3, ring buffer of 4, time-out 2, gaps up to 1, fairness | is a command answered once and with its own data, and at all? |
| Command | 16 names, well-formed, cut and overlong lines in any sequence, a buffer of 18 characters and lines that fill it to its limit, one entry | is the line done as it says, by the right handler? |

and four runs that reproduce a disagreement between the code and what a
comment or the readme says (PROJECT.json quotes each line):

| Run | What happens |
| :-- | :-- |
| GattMtuWedge | an MTU callback while a request is outstanding: `GATT_ExchangeMTU` is refused, the slot is marked busy with it all the same, and nothing ever frees it |
| LinkOverrun | a peer disabled while it is being connected: its terminated event finds no entry and the code writes behind the table |
| UartStale | a stray byte, or `AT+` with nothing behind it, after a command: the package is judged by the old data, and the old command runs again |
| SetStale | an AT+SETCONNECT that ends with its address takes the enable flag from behind its terminator, out of an earlier line, and is answered OK |

### Properties

Of a slot:

- `WriteEventMatches`: the armed write event is that of the buffered write, over
  busy retries, refusals, disconnects and reuse of the slot. A buffered write
  without its event would be stuck, and its slot with it.
- `WriteHasRest`: the unsigned difference of the two lengths never wraps.
- `BusyHasAnswer`: a slot busy with a read or a CCCD write has the answer
  outstanding or queued, so it is freed.
- `HandlesFresh`: after discovery has started no handle of an older link is left.
  Services of the vendor slot are excluded: one without UUIDs is not discovered
  at all, and keeps the old handles (see `SvcDiscoveryEvt`).
- `ReadyMeansEnabled`: READY is the acknowledgement of the CCCD write by the peer
  of this link (or the link has had an ATT time-out).
- `WritesOwnHandle`: the two commands never swap their characteristics, and as long
  as no MTU callback is made on the link, a write goes to what this link's own peer
  has named for the command's characteristic: not to a handle of an earlier link, of
  the service before AT+SETSERVICE, or of another phase of discovery. For
  AT+SPPWRITE it is the value of that characteristic; for AT+CUSTOMWRITE the property
  allows declaration and value, because the code writes to the first (see the
  observations).
- `WriteRefines`: the slot implements AtWrite.
- `DiscoveryGoesOn`: a discovery that has found its service has the request of its
  phase outstanding, or what ends the phase queued. Otherwise the slot would stay
  busy with `disc`, and with every write restarted, until the link ends.
- `WriteCompletes`: a write accepted for a handle of this link ends.

Of the table:

- `TableMatchesLinks`: with no link event queued, entries are live links and a
  live link without an entry is being terminated.
- `EntriesDistinct`: no two entries share a handle or an address; all lookups
  take the first match.
- `EntryForLink`: an established event finds a free entry, so a link is refused
  only for the peer's sake.
- `ScanAlive`: while scanning is on and an entry is free, something is under way
  that leads to the next scan.
- `TerminatedFindsEntry`: the callback for an ended link finds the entry it writes
  to. It holds as long as AT+SETCONNECT or AT+DISABLECONNECT takes no wanted peer
  off the list (LinkLive, EntryWhileListed), and is refuted when one does
  (LinkOverrun).
- `WantedConnects`: a peer that stays wanted, with scanning staying on, is connected
  again and again: after every loss there is a next connection, and while it is
  connected it is. It holds unless the host keeps sending `AT+STARTSCAN`, which can come between
  the end of a scan and its callback every time.

Of the settings:

- `RegisterRefined`: Tfdb implements DurableRegister, through failed operations, resets
  in the middle of them, and boots that can not read the page.
- `CacheCoherent`: the cached address is the one a search would find, so that the
  cached paths, which never look at the header, agree with what a reset will see.
- `NeverOverwrites`: flash can only clear bits, so a record that verifies must not
  be written again.
- `LostOnlyWhenFull`: the erase that can lose the value comes only when no record
  is blank.
- `SetIsBounded`: every step of a set, a failed operation, a bad record or a reset
  included, lowers the number of steps it may still take (`StepsLeft`), which is
  at most `3 * MaxRetry + 3`: the jumps between write, header and erase in
  `tfdb_set` make no cycle. `SetEnds`: so every set ends, if its steps are taken.

Of the UART and of commands:

- `LineIsFifo`: UartTx implements Fifo, although loop and handler take bytes from
  the same ring buffer and write the same register.
- `Awake`: between two messages, bytes in the ring buffer mean bytes in the FIFO
  or a raised interrupt: somebody will come back for them.
- `WaitIsServed`: where the loop waits, the interrupt is unmasked, and the FIFO
  holds bytes or the interrupt is raised: nobody waits for somebody who sleeps.
- `KeepsSending`: what is in flight keeps moving. `SendReturns`: the busy-waits end.
- `BaudWhenDrained`: the rate changes when nothing accepted is left in ring buffer or
  FIFO. The two waits test one after the other, while the interrupt moves bytes from
  the first to the second: it holds in this order and not in the other (the mutant
  `WaitSwapped`). AT+RESET has the same two waits (at_cmd.c:35).
- `CommandAnswered`: a test or a command that fits, sent to a receiver at rest, is
  answered once and with its own name and data, whatever was received, abandoned
  or dropped before, and however its bytes fall between the runs of the task.
- `FrameGetsAnswer`: a frame sent alone is answered.
- `SetAsWritten`: a well-formed AT+SETCONNECT sets the entry it names to what it
  says and no other. `LineDecides`: a line that has a comma where its address begins
  (`data[3]`) or further on, well-formed or not, is taken on its own: what it leaves
  out is not read from what lies behind it. The comma between number and address
  alone is not enough. `RefusedKeeps`: a command that is not answered OK
  changes no entry.
- `NameRuns`: a name runs its own handler, in whatever case it is typed, and a
  name that is no command's runs none (but see the observations).

### Observations

What modelling has shown beside the runs, and where a property has a hypothesis
because of it.

*Slots.*
- A write accepted in the first second of a link, before discovery has started,
  goes to the handle of the slot's previous peer (multiCentral.c:1139): hence
  `HandlesFresh` speaks of the time after. If the new peer lacks the service (1315),
  or the service has no UUID (1263), discovery stops where it is without freeing the
  slot, and such a write is restarted every 30 ms for as long as the link lasts:
  hence `WriteCompletes` speaks of handles of this link, and `DiscoveryGoesOn` of a
  service that was found.
- A peer without the custom characteristic is never subscribed to, although its
  CCCD was found (1486).
- A message queued before its link ended takes the branch marked "Should not go
  there", and its buffer is not freed (786).
- `customHdl` is stored as it stands in the row (1482), without the `+ 1` of
  `notifyHdl` (1359) and `writeHdl` (1443), although the same call,
  GATT_DiscCharsByUUID, has found all three. AT+CUSTOMWRITE and AT+CUSTOMREAD act on
  the declaration, and not on the value.
- An error that answers GATT_ExchangeMTU falls through to the discovery (904), where
  any error ends the phase (1312). If the exchange is made between two phases, the code
  is one phase ahead of the peer from then on, and stores each row as the next handle:
  hence `WritesOwnHandle` speaks of links without MTU callbacks.
- A write to 000000000000 is accepted by an idle slot, whose address is zero
  and whose handles are those of its last link, and leaks its buffer (at_cmd.c:323;
  readme.md:157). The theorems about the buffered write carry
  the hypothesis `ZeroMac = FALSE`, without which they are false.
- An MTU callback during a read makes the program drop the value (847, 953). A
  CCCD write that timed out is reported as READY (883). Responses to data writes
  are queued for a task that never receives them (553).

*Table.*
- A connection is started at the end of a scan that AT+STOPSCAN has cancelled
  (1012; readme.md:17).
- A connected peer that still advertises is chosen again and again, and keeps
  another wanted peer out (995; readme.md:118): LinkLive is about peers that stop.
- The establish timeout passes `0xFFFF`, which the header defines as "all links"
  (475), modelled under `EndsAll`.

*Settings.*
- After an erase or a header write that failed, the address cache still names a
  record of the page as it was (tinyflashdb.c:311). The next set writes behind
  blank records or an unreadable header and is answered OK; a reset then finds an
  older value or none. The contract holds until a set is answered ERR, and again
  from a reset that finds the page in order; `failed` is that history.
- A boot that meets a read error runs without the stored service, as if none had
  been set; the page still has it, and a later boot finds it (sys_info.c:140).
- A page that has its header and no record is searched from in front of the first
  record (`Stray`). On page 0, the BLE address, the unsigned address wraps below
  0 and the search reads out of range; the model is of the pages 1 to 9.
- A record whose last byte is stuck at 0xff would hide all later ones, and an
  erase that leaves the header readable and loses records would do so too; both
  are excluded in `Written` and `Erase`, as faults no program on top can mend.
- AT+GETAUTOCONNECT shows an uninitialised structure when there is no record
  (at_cmd.c:591).

*Transmit.*
- A message longer than the ring buffer, sent while the transmitter sleeps, makes
  the busy-wait endless: only the kick at its end would start the transmitter.
  `SendReturns` is about messages that fit, as the program's do: the longest is a
  notification, bounded by BLE_BUFF_MAX_LEN (config.h:123), in a buffer of 512.
- The rate is changed while the last byte may still be in the shift register, behind
  the FIFO that is tested (`R8_UART0_TFC` counts the FIFO); `BaudWhenDrained` does not
  speak of that byte.

*Receive.*
- The time-out must be longer than the gap between two bytes by one run: a byte
  that comes at the very run at which `wait` is 0 is taken for the next package.
  Hence `MaxGap < Timeout` in the theorem.
- 512 bytes of data fill `data[]`, and the terminator goes behind it
  (uart_interface.c:161; the header, uart_interface.h:30, says 510). A name or data
  beyond the limit starts over in the middle of the frame; one whose rest reads
  `AT` CR LF is answered OK. Both kinds of frame are outside `Fits`.

*Commands.*
- `WJR` runs VER: the hash collides, and the comparison returns the index of the
  first difference, 0, which reads as equal (simplehash.c:75; readme.md:181 says
  ERR:01). Hence the exception in `NameRuns`.
- Each argument of AT+SETCONNECT is read one character behind the end of the last.
  A line that ends with its address stops there at CR, LF and the terminator, so
  that the enable flag is read behind the terminator (SetStale; the line
  `=0,0a` CR LF, whose only comma is the one between number and address, does it).
  A comma where the address begins or further on prevents it, whatever else is
  missing: the address ends at it or before it, and the three numbers end at CR, LF
  and the terminator at the latest.
- What keeps the parser inside `data[]`, for lines that end in the middle of
  arguments, is that its last byte is always 0 (`TypeOK`): no line of the permitted
  length reaches it. With data of 511 bytes, which the receiver lets through
  although the header says 510, the parser may look at the byte behind `data[]`.
- AscToInt takes one digit more than its limit, so that a password of seven digits
  is accepted. The number of AT+SETCONNECT must be one digit, since the address
  is read from `data + 3`.

### Bounds, and why they are enough

Two links suffice for everything a link can leave to the next, because a third
meets the same slot as the second. Writes of two units give one fragment, two
fragments, and one large fragment after an MTU update. Two queued messages let an
MTU answer (two messages) or a late row and an answer be queued together. One MTU
callback is enough to overwrite any procedure. Two slots and two peers give a full
table, reuse of entries and handles, and a wrong entry to hit; one loss may occur
at any point of a run, and in LinkLive two, so that both peers, or one peer twice,
lose their link. Three queued events let a scan result, its end and a loss
be in flight together. `MaxRes = 1` makes the scan list overflow. GattLive has
two links as well, because a write may be accepted for a handle that the earlier one
has left; it has no ATT time-outs, which end a link, and no MTU callbacks, one of
which suffices to break `WriteCompletes` (GattMtuWedge).

Three records are a first, a middle and a last one: a retry that stays on the
page, one that runs off it, a page that fills up. The retry limit of the code, 8
(tfdb_port.h:85), is reached over an erase. Two values tell an old one from a new one. A ring buffer
of four wraps within one message; a FIFO of three is full before the ring buffer
is empty, and the other way round. Messages of three fill the ring buffer. In
UartRx the frames are chosen for the limits: one at and one above the limit of
the name, of the data and of the ring buffer, and frames that lack their end. The
host may begin one frame early, before the receiver is at rest, so that it runs
into the one before it. The lines of MCCommand are cut at each comma and one is longer in each
argument that has a length; every order of them gives every content behind a
terminator that some line can leave.

What a bound hides, the theorems below do not have: they are proved for all sizes.

`CHECK_DEADLOCK FALSE` is set where a run may really stop: a slot after its last
link, and the table after the write behind its end, from where the program's
behaviour is undefined.

### Fairness

Weak fairness of the program's own handlers: the loop does not block. Strong
fairness of `StackAnswer`: a discovery has finitely many rows, a peer answers or
the link goes. Weak fairness of a link drop once the ATT bearer is dead. Strong
fairness of a write event that makes progress: retried every 30 ms, it finds the
bearer free if it is free again and again. For the table: callbacks and the timer
run (weak); a scan and a connection attempt end, and an advertising peer is heard
and connected if that is tried again and again (strong, a statement about the
radio).

`SetStep` is weakly fair: tfdb_set does not yield. So are the loop's steps inside
`uart_at_send_data` and the hardware's shifting. The transmit interrupt is
strongly fair: the loop masks it again and again, but the controller takes a
pending interrupt as soon as it is unmasked. `Receives` and the receive task are
weakly fair: a host that has begun a frame sends the rest, and the task runs at
every tick of the HAL (`OS_RUN_TASK`, MCU.c:170).

Nothing else is assumed about the host, or about which answers come; nor that a
power failure, a spoilt record or a refused call ever stops happening.

## Proofs

Each proof module proves for every value of the constants, under the assumption
its model states (sizes and limits are naturals, markers are not values).

| Module | Theorem | Statement |
| :-- | :-- | :-- |
| GattClient_proof | TypeCorrect | `Spec => []TypeOK` |
| | EventMatchesWrite, SomethingLeft | `WriteEventMatches`, `WriteHasRest` |
| | OwnHandle, ImplementsAtWrite | `WritesOwnHandle`, `WriteRefines` |
| | NoStaleHandle, AnswerComes, ReadyIsEnabled | `HandlesFresh`, `BusyHasAnswer`, `ReadyMeansEnabled` |
| | DiscoveryIsCarriedOn | `~Refusals => (Spec => []DiscoveryGoesOn)` |
| CentralLink_proof | TypeCorrect, NoDoubleEntry, RoomForLink, TableIsLinks, NeverStopsScanning | the five invariants of LinkTable |
| | EntryWhileListed | `~Unlists => (Spec => []TerminatedFindsEntry)` |
| Tfdb_proof | TypeCorrect, CacheAgrees, ValuesAreKept | the three invariants of Tfdb |
| | ImplementsRegister, LossIsLastResort | `RegisterRefined`, `LostOnlyWhenFull` |
| | SetsAreBounded | `SetIsBounded` |
| UartTx_proof | TypeCorrect, NeverAsleep | `TypeOK`, `Awake` |
| | WaitsAreServed | `MaxLen < Size => (Spec => []WaitIsServed)` |
| | ImplementsFifo, DrainedBeforeBaud | `LineIsFifo`, `BaudWhenDrained` |
| UartRx_proof | TypeCorrect | `TypeOK` |
| | CommandIsAnswered | `MaxGap < Timeout => (Spec => []CommandAnswered)` |
| AtText_proof | (lemmas) | where AscToHex, AscToInt and atoi stop, what they return, and that they depend on no more than what they look at |
| Command_proof | TypeCorrect, OwnHandlerRuns | `TypeOK`, `NameRuns` |
| | RefusedSetsNothing, LineIsTakenAlone, SetsWhatItSays | `RefusedKeeps`, `LineDecides`, `SetAsWritten` |
| | ParserStaysInside | the handler of AT+SETCONNECT looks at no character outside `data[]` |

**Slot.** Theorems about the buffered write carry `ZeroMac = FALSE`. Their
inductive invariant is `WriteInv`: `WriteEventMatches`, `WriteHasRest`,
`IdleHoldsNothing` (an idle slot owns no buffer) and `LinkedState` (the slot
is idle exactly when the stack's link and its pending callback are gone). None is
inductive alone. `WriteEventMatches` survives a new link because no event is left
armed by then, which needs `IdleHoldsNothing`; this one survives a fragment because
a slot with a buffer is connected, and survives commands because a command that
names a slot finds it connected. `WriteHasRest` needs the type invariant for its
arithmetic. `IdleHoldsNothing` itself is not among the theorems: it is true only because of the
hypothesis, which the code does not enforce. The refinement is a step
property under the same invariant. `WritesOwnHandle` needs `RouteInv` besides: on a link
without MTU callbacks a slot has asked for nothing until discovery starts, and from then
on what is outstanding and what is queued belongs to the phase in `discState`, so that
no row is stored in another's place (`PhaseStores`) and the two handles a write uses
hold what this link's peer has named for them (`TargetsRight`). `BusyHasAnswer` needs `LinkedState` only: its proof follows a request
from the call that sets `procedureInProgress`, granted only when none is
outstanding, through the queue (`PostKeeps`, `TailKeeps`), to the message that
resets it. `ReadyMeansEnabled` is strengthened by `ReadyInv`: the only write
answered to the central task is the CCCD's, and a write response in the queue of a
connected slot was given by its present peer. `DiscoveryGoesOn` is strengthened by
`DiscoveryInv`: a slot in discovery has not begun or has met no service
(`NoService`), or its request is outstanding with rows only in the queue (`Asking`),
or its answer is the last message queued (`Answered`); and the event that starts
discovery is armed in the first of these only. A row keeps the phase, an end finds
no request outstanding, so that the call for the next phase is granted
(`PhaseMessage`); that is where the theorem needs that no call is refused for want of
a buffer, as the code ignores the result (1345). That a handle of an earlier link is
not taken for this one's is `LinksCount`. ATT time-outs and MTU callbacks are allowed:
the first end the link, the second take the slot out of discovery.

**Table.** No invariant of present entries and present links is inductive, because
the queue lies between the two. `Table` says that there is a history of the links,
one for each queued event (`History`): the last is what the stack has now, each
follows from the one before by its event (`Turns`), and none gives a peer two
links (`OneEach`). The entries agree with the first of them, the links as the
program knows them (`Knows`), but for those it is terminating. A stack action
appends to the history, a callback drops its first element, so that each handler is
proved against one event and two link tables. `Explains` says that a link that
differs from the present one has a queued event that says so: without events the
history is the present, which is `TableMatchesLinks`. `EntryForLink` is a pigeonhole argument:
entries have distinct handles (`Entries`), of which there are as many as slots, and
the new link's handle is not among them. `ScanAlive` is strengthened to `Scanning`,
in which a scan result does not count as being under way, since handling it starts
nothing; a link without an entry is found by the same pigeonhole argument.
`EntryWhileListed` says under which use of the commands the write behind the table
(LinkOverrun) can not happen. A link gets no entry only if its peer is not wanted
when the callback comes. So it is proved that in every link table of the history,
and in every event between them, each link that is not yet entered is to a wanted
peer, and that without `Unlists` a wanted peer stays wanted: the callback finds room
(`RoomInvariant`) and enters it, and the entry is there when the link ends.

**Settings.** The invariant is `TypeOK`, `SlotOK` and, until a set fails, `Tidy`:
values lie in front of the first blank record and behind a header that checks; the
cache, if any, is the last of them; the record about to be written has nothing but
bad records between it and them; the page being erased has no blank one. It is
`InOrder` that lets a reset re-establish it: whatever operation is cut, the page is
in order, so that a search finds what the register says; a boot whose search meets a
read error writes nothing, and the page stays as it is. Recursion is avoided:
`FirstFree` and `LastValid` are least and greatest elements, whose existence comes
from well-foundedness (`NatLessThanWellFounded`). `SetIsBounded` follows from the
types and `SlotOK` alone: an erase leads to the header, the header to the first
record, which is on the page, and a record that does not verify to the next one or
to an erase, with one attempt less.

**Transmit.** The invariant is `TypeOK`, `LoopOK` (where the loop is says what it has
tested and whether the interrupt is masked; at the second wait of AT+SETBAUDRATE the
ring buffer is empty and stays so; a raised interrupt means an empty FIFO)
and `Awake`. The refinement is proved step by step: `Store` changes nothing that is
held, because the slot it writes is the unused one; `Publish` appends; the pair of
`Release` and the write to the FIFO moves a byte from one part of the queue to the
other, and the handler moves several. That the FIFO is not full at these writes is
`LoopOK`, for the loop, and the empty FIFO, for the handler. `WaitIsServed` needs
`OwnBytesOnly`: while a message is put nobody may be sending, but then the ring
buffer holds bytes of this message only, and with those still to come they are no
more than its length. This is where `MaxLen < Size` enters: a full buffer holds
`Size - 1` bytes, so that with one more to come somebody is sending.

**Receive.** `FrameInv` follows a frame that fits from its first byte: what the
machine has not yet seen is, in order, in the ring buffer and at the host (`Flow`);
the machine is where the number of bytes taken puts it, with exactly the name and
data read so far (`ReadAt`), or has answered (`Done`); and the next byte comes in
time (`InTime`: without bytes waiting, what remains of the time-out and the runs
since the last byte make up the whole time-out). The last part is what makes
`PackageEnds` impossible in the middle of a frame, and it needs `MaxGap < Timeout`.

**Commands.** The theorems are about any set of packages of at most `BufLen - 2`
characters (the 510 of uart_interface.h:31), any number of entries and any length
of address and passcode. AtText_proof shows of each conversion when its end exists
(a terminator, or a character that is no digit, is enough), what it returns, and
that two buffers that agree up to that end give the same. The invariant `TypeOK`
has the terminator in the last byte of `data[]`, which no package reaches: it is
what makes every end exist, for lines as short and stale as they may be
(`ParserStaysInside`). `LineDecides` compares the buffer with an empty one: they
agree up to the terminator behind the package (`FilledAgree`), the comma at the
address or behind it keeps all ends in front of it (`ParsedSame`), so that both give the same
arguments. `SetAsWritten` follows the parser through the five fields of a
well-formed line: the commas are where it stops (`CommaPlaces`, `WellFormedPlaces`),
an address of its length and nothing else is read pair by pair (`MacIs`), and a
number of at most its digits is read whole (`ArgumentIs`). `NameRuns` rests on
three facts about the hash and the comparison: the hash does not depend on case
(`HashSame`), the comparison gives 0 for no difference and for one in the first
letter only (`MemcmpZero`), and no two command names have the same hash
(`HashesDistinct`, an assumption of Dispatch that speaks of constants only and
that TLC evaluates).

Model-checked only: liveness (`WriteCompletes`, `WantedConnects`, `SetEnds`,
`KeepsSending`, `SendReturns`, `FrameGetsAnswer`), which is out of the prover's
reach; `SetIsBounded`, `WaitIsServed` and `Awake` are the part of `SetEnds` and
`SendReturns` that is a matter of safety, and `DiscoveryGoesOn`, `BusyHasAnswer` and
`WriteEventMatches` that of `WriteCompletes`. That the commands' hashes differ is
computed by TLC, and so are the counterexamples. Every other property of a run that
passes is proved.

## Not modelled

Pairing (the passcode sent is the constant 123456), RSSI, parameter updates and
notifications change no state of the program. `DONE` is reported when the stack has
taken the last fragment; that the peer has it is not claimed anywhere. The queries
(VER, GETCONNECT, GETSERVICE, GETMTU, ...) and RAWMAC change nothing. BLEMAC is a
set like that of Tfdb, on page 0 (see the observations). IntToAsc, HexToAsc and
murmurhash3.c have no caller that matters. Of tiny-macro-os the program uses one
task and one state machine; tiny-macro-os.c is examples in comments, and ctimer and
semaphores have no user. LED, key and sleep are switched off in the build.

The larger part of the repository is not the program: the headers of the closed
BLE library and of the chip's registers (6500 lines), USB host, I2C and the other
peripheral drivers of the vendor's SDK, of which the program calls UART, flash and
GPIO functions that write registers, start-up code and a printf. There is no
behaviour of this firmware in them to state properties of, so the models cover a
small share of all lines, and nearly all of the application's own.

## Plan

1. *(done)* GattClient, AtWrite, CentralLink; theorems about GattClient.
2. *(done)* CentralLink_proof: the five invariants.
3. *(done)* RingBuf, Fifo, UartTx, with their refinement and its proof.
4. *(done)* UartRx and its proof.
5. *(done)* Tfdb, DurableRegister, with refinement and proof.
6. *(done)* Dispatch, AtText, Command, and their proofs.
7. *(done)* EntryWhileListed, SetsAreBounded, WaitsAreServed, DiscoveryIsCarriedOn.
8. Left: a composition of the table with two slots that share the vendor service.
   Slots interact with the table only through the two GAP events that both modules
   have, and with each other only through AT+SETSERVICE, which GattClient lets
   come at any moment.

------------------------------- MODULE UartTx -------------------------------
(***************************************************************************)
(* The transmit path of the AT UART (uart_interface.c): the main loop puts *)
(* a message into the ring buffer byte by byte, waiting while it is full,  *)
(* and then feeds the transmitter itself with the interrupt masked; the    *)
(* interrupt handler feeds it whenever the hardware FIFO runs empty.       *)
(* AT+SETBAUDRATE waits for the ring buffer and then for the FIFO to drain.*)
(*                                                                         *)
(* The handler runs to its end while the loop stands still; it may come    *)
(* between any two steps of the loop that leave it unmasked.  External:    *)
(* the hardware raises THR_EMPTY when the FIFO runs empty, and reading the *)
(* cause or writing THR withdraws it.  A byte counts as sent when it has   *)
(* left the FIFO, which is all that the program can see (R8_UART0_TFC).    *)
(***************************************************************************)
EXTENDS RingBuf

CONSTANTS
  FifoSize,   \* UART_FIFO_SIZE
  MaxLen      \* longest message of one call

ASSUME TxAssumption ==
  FifoSize \in Nat /\ FifoSize > 1 /\ MaxLen \in Nat \ {0}

VARIABLES
  fifo,      \* the transmit FIFO of the hardware
  pending,   \* THR_EMPTY is raised
  masked,    \* PFIC_DisableIRQ(UART0_IRQn)
  at,        \* where the main loop is in uart_at_send_data, or draining
  left,      \* bytes of the message not yet in the ring buffer
  reg,       \* the byte ringbuf_get has read, in the loop's register
  baud       \* the baud rate, as one bit

loop == <<at, left, reg>>
vars == <<ring, fifo, pending, masked, loop, baud>>

TypeOK ==
  /\ RingTypeOK
  /\ fifo \in Seq(Bytes) /\ Len(fifo) <= FifoSize
  /\ pending \in BOOLEAN /\ masked \in BOOLEAN /\ baud \in BOOLEAN
  /\ at \in {"idle", "put", "publish", "room", "load", "write", "drainRing", "drainFifo"}
  /\ left \in 0 .. MaxLen /\ reg \in Bytes

Init ==
  /\ RingInit
  /\ fifo = <<>> /\ pending \in BOOLEAN /\ masked = FALSE
  /\ at = "idle" /\ left = 0 /\ reg \in Bytes
  /\ baud = FALSE

-----------------------------------------------------------------------------
(* The hardware *)

\* R8_UART0_THR = b.  A byte written to a full FIFO is lost.
WriteThr(b) ==
  /\ fifo' = IF Len(fifo) < FifoSize THEN Append(fifo, b) ELSE fifo
  /\ pending' = FALSE

ShiftOut ==
  /\ fifo # <<>>
  /\ fifo' = Tail(fifo) /\ pending' = (pending \/ Len(fifo) = 1)
  /\ UNCHANGED <<ring, masked, loop, baud>>

-----------------------------------------------------------------------------
(* uart_at_send_data *)

SendBegin ==
  /\ at = "idle"
  /\ \E n \in 1 .. MaxLen : left' = n
  /\ at' = "put"
  /\ UNCHANGED <<ring, fifo, pending, masked, reg, baud>>

\* ringbuf_put when there is room; otherwise the loop tries again.
PutByte ==
  /\ at = "put" /\ left > 0 /\ ~IsFull
  /\ \E b \in Bytes : Store(b)
  /\ at' = "publish"
  /\ UNCHANGED <<fifo, pending, masked, left, reg, baud>>

PublishByte ==
  /\ at = "publish"
  /\ Publish
  /\ at' = "put" /\ left' = left - 1
  /\ UNCHANGED <<fifo, pending, masked, reg, baud>>

\* Mutant: the interrupt is left unmasked while the loop feeds the transmitter.
KickBeginUnmasked ==
  /\ at = "put" /\ left = 0
  /\ at' = "room" /\ masked' = FALSE
  /\ UNCHANGED <<ring, fifo, pending, left, reg, baud>>

\* Mutant: the message is left to the interrupt.
KickBeginNever ==
  /\ at = "put" /\ left = 0
  /\ at' = "idle"
  /\ UNCHANGED <<ring, fifo, pending, masked, left, reg, baud>>

KickBegin ==
  /\ at = "put" /\ left = 0
  /\ at' = "room" /\ masked' = TRUE
  /\ UNCHANGED <<ring, fifo, pending, left, reg, baud>>

\* Mutant: the interrupt stays masked.
KickEndMasked ==
  /\ \/ at = "room" /\ Len(fifo) = FifoSize
     \/ at = "load" /\ IsEmpty
  /\ at' = "idle"
  /\ UNCHANGED <<ring, fifo, pending, masked, left, reg, baud>>

\* The FIFO is full or the ring buffer empty.
KickEnd ==
  /\ \/ at = "room" /\ Len(fifo) = FifoSize
     \/ at = "load" /\ IsEmpty
  /\ at' = "idle" /\ masked' = FALSE
  /\ UNCHANGED <<ring, fifo, pending, left, reg, baud>>

KickRoom ==
  /\ at = "room" /\ Len(fifo) < FifoSize
  /\ at' = "load"
  /\ UNCHANGED <<ring, fifo, pending, masked, left, reg, baud>>

KickLoad ==
  /\ at = "load" /\ ~IsEmpty
  /\ reg' = Oldest /\ at' = "write"
  /\ UNCHANGED <<ring, fifo, pending, masked, left, baud>>

KickWrite ==
  /\ at = "write"
  /\ Release /\ WriteThr(reg)
  /\ at' = "room"
  /\ UNCHANGED <<masked, left, reg, baud>>

-----------------------------------------------------------------------------
(* AT+SETBAUDRATE after its answer has been handed over *)

Drains == {"drainRing", "drainFifo"}

DrainBegin ==
  /\ at = "idle"
  /\ at' = "drainRing"
  /\ UNCHANGED <<ring, fifo, pending, masked, left, reg, baud>>

\* Mutant: the FIFO is waited for first.
WaitSwapped(w) == IF w = "drainRing" THEN fifo = <<>> ELSE IsEmpty

\* What ends the busy-wait at w: while(ringbuf_elements(..) != 0) is the first,
\* while(R8_UART0_TFC != 0) the second.
WaitOver(w) == IF w = "drainRing" THEN IsEmpty ELSE fifo = <<>>

DrainRing ==
  /\ at = "drainRing" /\ WaitOver(at)
  /\ at' = "drainFifo"
  /\ UNCHANGED <<ring, fifo, pending, masked, left, reg, baud>>

SetBaudrate ==
  /\ at = "drainFifo" /\ WaitOver(at)
  /\ baud' = ~baud /\ at' = "idle"
  /\ UNCHANGED <<ring, fifo, pending, masked, left, reg>>

-----------------------------------------------------------------------------
(* UART0_IRQHandler, THR_EMPTY *)

\* Mutant: the room is what the hardware reports to be used.
IsrRoomUsed == Len(fifo)

\* v counted down before each byte: one less than the room; uint8_t, so that
\* no room at all would be 255.
IsrRoom == IF Len(fifo) = FifoSize THEN 255 ELSE FifoSize - Len(fifo) - 1

Isr ==
  LET n == IF IsrRoom < Elements THEN IsrRoom ELSE Elements
      filled == fifo \o SubSeq(Held, 1, n)
  IN /\ pending /\ ~masked
     /\ fifo' = SubSeq(filled, 1, IF Len(filled) < FifoSize THEN Len(filled) ELSE FifoSize)
     /\ getPtr' = Ahead(getPtr, n)
     /\ pending' = FALSE
     /\ UNCHANGED <<data, putPtr, masked, loop, baud>>

-----------------------------------------------------------------------------
LoopStep ==
  \/ PutByte \/ PublishByte
  \/ KickBegin \/ KickRoom \/ KickLoad \/ KickWrite \/ KickEnd
  \/ DrainRing \/ SetBaudrate

Next == SendBegin \/ DrainBegin \/ LoopStep \/ Isr \/ ShiftOut

Spec == Init /\ [][Next]_vars

\* The loop goes on, the hardware shifts, and a raised interrupt that is
\* unmasked again and again is taken.
LiveSpec == Spec /\ WF_vars(LoopStep) /\ WF_vars(ShiftOut) /\ SF_vars(Isr)

-----------------------------------------------------------------------------
(* Properties *)

\* What has been accepted and not yet sent, oldest first.
InFlight == fifo \o Held

\* Loop and handler, which take bytes from the same ring buffer and write the
\* same register, send every byte once and in order (uart_interface.c:216-229).
Line == INSTANCE Fifo WITH q <- InFlight
LineIsFifo == Line!Spec

\* The transmitter never sleeps on data: between two messages, bytes in the
\* ring buffer mean bytes in the FIFO or a raised interrupt, so that the
\* handler will come back for them.
Awake ==
  at \in {"idle"} \cup Drains /\ ~IsEmpty => fifo # <<>> \/ pending

\* Where the loop waits, on a full ring buffer (uart_interface.c:202, 212) or for
\* it and the FIFO to drain (at_cmd.c:803-804), there is somebody to end the wait: the interrupt
\* is unmasked, and the FIFO holds bytes or the interrupt is raised.
Waiting ==
  \/ at = "put" /\ left > 0 /\ IsFull
  \/ at \in Drains /\ ~WaitOver(at)

WaitIsServed == Waiting => ~masked /\ (fifo # <<>> \/ pending)

\* What is in flight keeps moving: either all is sent again and again, or
\* bytes go on leaving.
KeepsSending == []<>(InFlight = <<>>) \/ []<><<ShiftOut>>_vars

\* The busy-wait of uart_at_send_data and of AT+SETBAUDRATE ends, for messages
\* that fit the ring buffer (a longer one finds nobody to empty it).
SendReturns == (at # "idle") ~> (at = "idle")

\* The baud rate is changed only when nothing accepted is left to send.  The two
\* busy-waits (at_cmd.c:803-804) look at one half each, at different times, and
\* the interrupt moves bytes from the one to the other in between: it is their
\* order, and that nobody puts bytes meanwhile, that makes both halves empty.
BaudWhenDrained == [][baud' # baud => InFlight = <<>>]_vars
=============================================================================

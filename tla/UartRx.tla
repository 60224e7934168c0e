------------------------------- MODULE UartRx -------------------------------
(***************************************************************************)
(* The receive path of the AT UART (uart_interface.c): the interrupt       *)
(* handler puts bytes into a ring buffer and drops them when it is full;   *)
(* the task os_at_uart drains it through a state machine at every run, and *)
(* takes a package to be over when uart_timeouts_value runs pass without a *)
(* byte.  Only then the command is dispatched.                             *)
(*                                                                         *)
(* The host sends frames byte by byte.  How many bytes come between two    *)
(* runs of the task is open, since other handlers share the loop; within a *)
(* frame at most MaxGap runs pass between two bytes, and the host may      *)
(* start the next frame before the last one is answered.  Commands are     *)
(* answered only if MaxGap < Timeout: the run that takes a byte may have   *)
(* begun before it came, and does not count.                               *)
(***************************************************************************)
EXTENDS Integers, Sequences

CONSTANTS
  Frames,    \* what the host may send, sequences of bytes
  CmdMax,    \* AT_UART_CMD_MAX_LEN
  DataMax,   \* AT_UART_DATA_MAX_LEN
  RxMax,     \* bytes the ring buffer can hold
  Timeout,   \* uart_timeouts_value
  MaxGap     \* runs of the task between two bytes of a frame

ASSUME RxAssumption ==
  /\ CmdMax \in Nat \ {0} /\ DataMax \in Nat \ {0} /\ RxMax \in Nat \ {0}
  /\ Timeout \in Nat \ {0} /\ MaxGap \in Nat
  /\ Frames \subseteq Seq({"A", "T", "v", "+", "=", "CR", "LF"}) \ {<<>>}

Letters == {"A", "T", "v"}
Bytes   == Letters \cup {"+", "=", "CR", "LF"}

VARIABLES
  rx,        \* os_at_uart_rx_ringbuf
  fsm,       \* os_at_uart_fsm; "rest" is 0
  cmd,       \* at_uart_data.cmd[0 .. cmd_len - 1]
  data,      \* at_uart_data.data[0 .. data_len - 1]
  wait,      \* os_at_uart_timeouts
  draining,  \* the task is in its inner loop
  todo,      \* bytes of the host's frame still to come
  gap,       \* runs of the task since its last byte
  watched,   \* history: the frame, if it began when the receiver was at rest
             \* and none of its bytes was dropped; else empty
  answers    \* history: the answers since a watched frame began

machine == <<fsm, cmd, data>>
host    == <<todo, gap, watched>>
vars    == <<rx, machine, wait, draining, host, answers>>

Runs(c, d) == [kind |-> "run", cmd |-> c, data |-> d]
Ok         == [kind |-> "ok",  cmd |-> <<>>, data |-> <<>>]
Err02      == [kind |-> "err", cmd |-> <<>>, data |-> <<>>]
Wild       == [kind |-> "wild", cmd |-> <<>>, data |-> <<>>]

Answers    == [kind : {"run", "ok", "err", "wild"}, cmd : Seq(Letters), data : Seq(Bytes)]

\* History: an answer to a watched frame is noted.
Answered(s, a) == IF watched = <<>> THEN s ELSE Append(s, a)

States == {"rest", "start", "a", "at", "plus", "cr", "cmd", "data"}

TypeOK ==
  /\ rx \in Seq(Bytes) /\ Len(rx) <= RxMax
  /\ fsm \in States
  /\ cmd \in Seq(Letters) /\ Len(cmd) <= CmdMax
  /\ data \in Seq(Bytes) /\ Len(data) <= DataMax
  /\ wait \in 0 .. Timeout
  /\ watched \in Frames \cup {<<>>} /\ todo \in Seq(Bytes)
  /\ gap \in 0 .. MaxGap
  /\ draining \in BOOLEAN
  /\ answers \in Seq(Answers)

Init ==
  /\ rx = <<>> /\ fsm = "rest" /\ cmd = <<>> /\ data = <<>>
  /\ wait = Timeout /\ draining = FALSE
  /\ todo = <<>> /\ gap = 0 /\ watched = <<>> /\ answers = <<>>

-----------------------------------------------------------------------------
(* OS_FSM_FUNC(at_uart): the machine m after the byte c *)

\* at_uart_start.  The state is set before the byte is looked at: it is no
\* longer 0 after a byte that means nothing.
AtStart(m, c) == [m EXCEPT !.fsm = IF c = "A" THEN "a" ELSE "start"]

\* Mutant: the limit is one byte too high.
AtDataOver(m, c) ==
  IF Len(m.data) <= DataMax
  THEN [m EXCEPT !.fsm = "data", !.data = Append(@, c)]
  ELSE AtStart(m, c)

\* The data loop, and below the command loop that breaks into it.  A byte
\* beyond the limit starts over, and leaves what has been stored.
AtData(m, c) ==
  IF Len(m.data) < DataMax
  THEN [m EXCEPT !.fsm = "data", !.data = Append(@, c)]
  ELSE AtStart(m, c)

AtCommand(m, c) ==
  IF Len(m.cmd) = CmdMax THEN AtStart(m, c)
  ELSE IF c \in Letters THEN [m EXCEPT !.fsm = "cmd", !.cmd = Append(@, c)]
  ELSE AtData(m, c)

\* Mutant: name and data of the last command stay.
FreshKeeps(m) == m

\* After AT+ the lengths are reset.
Fresh(m) == [m EXCEPT !.cmd = <<>>, !.data = <<>>]

Accept(m, c) ==
  CASE m.fsm \in {"rest", "start"} -> AtStart(m, c)
    [] m.fsm = "a"    -> IF c = "T" THEN [m EXCEPT !.fsm = "at"] ELSE AtStart(m, c)
    [] m.fsm = "at"   -> IF c = "+" THEN [m EXCEPT !.fsm = "plus"]
                         ELSE IF c = "CR" THEN [m EXCEPT !.fsm = "cr"]
                         ELSE AtStart(m, c)
    [] m.fsm = "cr"   -> IF c = "LF"
                         THEN [m EXCEPT !.fsm = "rest", !.sent = Answered(@, Ok)]
                         ELSE AtStart(m, c)
    [] m.fsm = "plus" -> AtCommand(Fresh(m), c)
    [] m.fsm = "cmd"  -> AtCommand(m, c)
    [] m.fsm = "data" -> AtData(m, c)

-----------------------------------------------------------------------------
(* The task os_at_uart, once in OS_TASK_WAIT_UNTILX *)

EndsLine(s) == Len(s) >= 2 /\ s[Len(s) - 1] = "CR" /\ s[Len(s)] = "LF"

\* Mutant: every run enters the wait anew.
WaitsAnew ==
  /\ rx = <<>> /\ wait > 0
  /\ wait' = Timeout
  /\ UNCHANGED <<rx, machine, draining, answers>>

\* No byte: one run less to wait.
Waits ==
  /\ rx = <<>> /\ wait > 0
  /\ wait' = wait - 1
  /\ UNCHANGED <<rx, machine, draining, answers>>

\* The time is up, even if a byte has come at this very moment.  The
\* terminator is written to data[data_len]: when the data fills its buffer it
\* lands behind it.
PackageEnds ==
  /\ wait = 0
  /\ IF fsm = "rest" THEN UNCHANGED answers
     ELSE answers' = Answered(answers,
            IF Len(data) = DataMax THEN Wild
            ELSE IF EndsLine(data) THEN Runs(cmd, data) ELSE Err02)
  /\ fsm' = "rest" /\ wait' = Timeout
  /\ UNCHANGED <<rx, cmd, data, draining>>

\* Bytes: the task begins to drain the ring buffer.
DrainBegins ==
  /\ rx # <<>> /\ wait > 0
  /\ draining' = TRUE
  /\ UNCHANGED <<rx, machine, wait, answers>>

\* The task runs, at most MaxGap times between two bytes of a frame.
TaskRun ==
  /\ ~draining
  /\ todo # <<>> => gap < MaxGap
  /\ Waits \/ PackageEnds \/ DrainBegins
  /\ gap' = IF todo # <<>> THEN gap + 1 ELSE 0
  /\ UNCHANGED <<todo, watched>>

\* ringbuf_get and OS_RUN_FSM; the handler may put more in the meantime.
TakeByte ==
  /\ draining /\ rx # <<>>
  /\ \E m \in {Accept([fsm |-> fsm, cmd |-> cmd, data |-> data, sent |-> answers], Head(rx))} :
       fsm' = m.fsm /\ cmd' = m.cmd /\ data' = m.data /\ answers' = m.sent
  /\ rx' = Tail(rx)
  /\ UNCHANGED <<wait, draining, host>>

DrainEnds ==
  /\ draining /\ rx = <<>>
  /\ draining' = FALSE /\ wait' = Timeout
  /\ UNCHANGED <<rx, machine, host, answers>>

-----------------------------------------------------------------------------
(* The host, and the interrupt handler *)

AtRest == rx = <<>> /\ fsm = "rest"

\* A bound: until the receiver is at rest again, one frame comes early.
FrameBegins ==
  /\ todo = <<>>
  /\ AtRest \/ watched # <<>>
  /\ \E f \in Frames : todo' = f /\ watched' = IF AtRest THEN f ELSE <<>>
  /\ gap' = MaxGap /\ answers' = <<>>
  /\ UNCHANGED <<rx, machine, wait, draining>>

\* UART0_IRQHandler, RECV_RDY: the result of ringbuf_put is ignored.
Receives ==
  /\ todo # <<>>
  /\ IF Len(rx) < RxMax
     THEN rx' = Append(rx, Head(todo)) /\ UNCHANGED <<watched, answers>>
     ELSE UNCHANGED rx /\ watched' = <<>> /\ answers' = <<>>
  /\ todo' = Tail(todo) /\ gap' = 0
  /\ UNCHANGED <<machine, wait, draining>>

TaskStep == TaskRun \/ TakeByte \/ DrainEnds

Next == FrameBegins \/ Receives \/ TaskStep

Spec == Init /\ [][Next]_vars

\* The task runs at every tick of the HAL, and the host ends its frames.
LiveSpec == Spec /\ WF_vars(Receives) /\ WF_vars(TaskStep)

-----------------------------------------------------------------------------
(* Properties *)

Prefixed(f) == Len(f) >= 3 /\ f[1] = "A" /\ f[2] = "T" /\ f[3] = "+"

\* The letters after AT+, and what follows them.
NameLen(f) == CHOOSE n \in 0 .. Len(f) - 3 :
                /\ \A i \in 1 .. n : f[3 + i] \in Letters
                /\ 4 + n \in DOMAIN f => f[4 + n] \notin Letters
NameOf(f) == SubSeq(f, 4, 3 + NameLen(f))
RestOf(f) == SubSeq(f, 4 + NameLen(f), Len(f))

\* What the manual has the module answer to a frame (readme.md:9, 182).
Due(f) ==
  IF f = <<"A", "T", "CR", "LF">> THEN Ok
  ELSE IF Prefixed(f) /\ NameLen(f) < CmdMax /\ EndsLine(RestOf(f)) THEN Runs(NameOf(f), RestOf(f))
  ELSE Err02

\* A test, or a command of a length the manual allows.  AT+ and nothing more is
\* none: the lengths are reset by the byte that follows (see FrameAnswered).
Fits(f) == \/ f = <<"A", "T", "CR", "LF">>
           \/ /\ Prefixed(f) /\ Len(f) > 3
              /\ NameLen(f) < CmdMax /\ Len(RestOf(f)) < DataMax

\* The frame is over and the receiver at rest again.
Settled == watched # <<>> /\ todo = <<>> /\ AtRest

\* A test, or a command whose name and data fit, sent to a receiver at rest is
\* answered once, with its own name and data or, if its end is missing, with
\* ERR:02: whatever was received before, abandoned half way or dropped, and
\* however its bytes fall between the runs of the task (uart_interface.c).
CommandAnswered ==
  Settled /\ Fits(watched) => answers = <<Due(watched)>>

\* Any frame sent to a receiver at rest is answered once, and a malformed one
\* with ERR:02 (readme.md:182).
FrameAnswered ==
  Settled /\ Len(watched) < DataMax => answers = <<Due(watched)>>

\* A frame sent alone is answered.
FrameGetsAnswer ==
  (watched # <<>> /\ answers = <<>>) ~> (answers # <<>> \/ watched = <<>>)
=============================================================================

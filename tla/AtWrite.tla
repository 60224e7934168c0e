------------------------------- MODULE AtWrite -------------------------------
(***************************************************************************)
(* What AT+SPPWRITE and AT+CUSTOMWRITE promise of one connection: a write  *)
(* is accepted only when none is in progress, its data goes out in one     *)
(* pass without a unit skipped or repeated, it is over when all of it has  *)
(* been handed to the stack, and before that only with the connection.     *)
(***************************************************************************)
EXTENDS Integers

CONSTANTS Kinds,  \* the commands
          MaxLen  \* the longest write

VARIABLES up,     \* the connection exists
          job,    \* the command in progress, or "none"
          size,   \* units to write
          sent    \* units handed to the stack

vars == <<up, job, size, sent>>

Init == up = FALSE /\ job = "none" /\ size = 0 /\ sent = 0

Connect    == ~up /\ job = "none" /\ up' = TRUE /\ UNCHANGED <<job, size, sent>>
Disconnect == up /\ up' = FALSE /\ job' = "none" /\ UNCHANGED <<size, sent>>

Accept(k, n) ==
  /\ up /\ job = "none"
  /\ job' = k /\ size' = n /\ sent' = 0 /\ UNCHANGED up

\* A command that finds no memory leaves its length behind and nothing else.
Reject(n) == up /\ job = "none" /\ size' = n /\ UNCHANGED <<up, job, sent>>

Send(n) ==
  /\ up /\ job # "none" /\ sent + n <= size
  /\ sent' = sent + n
  /\ job' = IF sent' = size THEN "none" ELSE job
  /\ UNCHANGED <<up, size>>

\* An empty write has nothing to hand over.
Finish == job # "none" /\ size = 0 /\ job' = "none" /\ UNCHANGED <<up, size, sent>>

Next ==
  \/ Connect \/ Disconnect \/ Finish
  \/ \E k \in Kinds, n \in 0 .. MaxLen : Accept(k, n)
  \/ \E n \in 0 .. MaxLen : Reject(n)
  \/ \E n \in 1 .. MaxLen : Send(n)

Spec == Init /\ [][Next]_vars
=============================================================================

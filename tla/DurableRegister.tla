--------------------------- MODULE DurableRegister ---------------------------
(***************************************************************************)
(* What the host may expect of a stored setting: a register that keeps its *)
(* value over resets, and a copy in RAM for the program to use.  While a   *)
(* set is in progress the register may be emptied (a full page is erased), *)
(* and a reset then leaves the old value, the new one or none: never an    *)
(* older one.  A set that is answered OK has stored its value.  Once a set *)
(* has been answered ERR nothing is promised of the sets that follow,      *)
(* until some later reset.  A reset that can not read the register starts  *)
(* without a copy and leaves the register as it is.  Tfdb.tla implements   *)
(* it.                                                                     *)
(***************************************************************************)
CONSTANTS Values, None, Stray

VARIABLES
  reg,      \* the value a reset would find, None if there is none
  copy,     \* the copy in RAM; Stray: an empty register misread
  job,      \* the value being set, None between two sets
  suspect,  \* a set was answered ERR and may have left the store in disorder
  unread    \* the last reset could not read the register

vars == <<reg, copy, job, suspect, unread>>

Init == /\ reg = None /\ copy = None /\ job = None
        /\ suspect = FALSE /\ unread = FALSE

Begin(v) == job = None /\ job' = v /\ UNCHANGED <<reg, copy, suspect, unread>>

Recycle == job # None /\ reg' = None /\ UNCHANGED <<copy, job, suspect, unread>>

Commit ==
  /\ job # None
  /\ reg' = job /\ copy' = job /\ job' = None
  /\ UNCHANGED <<suspect, unread>>

Fail ==
  /\ reg' \in {reg, job, None} /\ job' = None /\ suspect' = TRUE
  /\ UNCHANGED <<copy, unread>>

\* Once suspect, a step of a set may leave anything.
Muddle ==
  /\ suspect /\ job # None
  /\ reg' \in Values \cup {None} /\ copy' \in {copy, job} /\ job' \in {job, None}
  /\ UNCHANGED <<suspect, unread>>

\* What a reset leaves in the register.
Survives ==
  /\ reg' \in {reg, job}
         \cup (IF job = None THEN {} ELSE IF suspect THEN Values \cup {None} ELSE {None})
  /\ job' = None /\ suspect' \in {FALSE, suspect}

Reset ==
  /\ Survives
  /\ copy' = reg' \/ (reg' = None /\ copy' = Stray)
  /\ unread' = FALSE

ResetUnread == Survives /\ copy' = None /\ unread' = TRUE

Next ==
  \/ \E v \in Values : Begin(v)
  \/ Recycle \/ Commit \/ Fail \/ Muddle \/ Reset \/ ResetUnread

Spec == Init /\ [][Next]_vars
=============================================================================

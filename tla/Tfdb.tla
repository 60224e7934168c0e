-------------------------------- MODULE Tfdb --------------------------------
(***************************************************************************)
(* One page of the settings in data flash (tinyflashdb.c, over the port    *)
(* tfdb_port.c), with the command that sets it, the one that shows it and  *)
(* the copy in RAM that a boot fills (sys_info.c, at_cmd.c).               *)
(*                                                                         *)
(* A page is a header and N records, written in order; the last one that   *)
(* verifies is the value, and a full page is erased.  A set is several     *)
(* operations on the flash: each may fail, by its return code or by what   *)
(* the read-back sees, and the power may go in the middle of each.         *)
(* Nothing bounds how often.                                               *)
(*                                                                         *)
(* Pages 1 to 9 (vendor service, automatic connections) are meant; the     *)
(* page at address 0 differs in the search that wraps below it (README).   *)
(***************************************************************************)
EXTENDS Integers, FiniteSets

CONSTANTS
  Values,    \* settings the host may store
  None,      \* the zeroed copy: no setting
  Stray,     \* what the bytes in front of the first record read as
  N,         \* records of a page: (256 - 4) \div record size
  MaxRetry   \* TFDB_WRITE_MAX_RETRY

ASSUME TfdbAssumption ==
  /\ N \in Nat \ {0} /\ MaxRetry \in Nat \ {0}
  /\ None \notin Values /\ Stray \notin Values /\ None # Stray
  /\ Values \cap {"free", "torn", "bad"} = {}      \* no value reads as these

Recs    == 1 .. N
NoCache == -1          \* *addr_cache == 0

VARIABLES
  page,     \* the flash: does the header check, and the records
  cache,    \* record the address cache points to; 0: the bytes in front of 1
  ram,      \* vendor_def_service
  op,       \* what tfdb_set does to the flash next
  val,      \* value_from, None between two sets
  slot,     \* find_addr, as a record
  tries,    \* max_retry
  failed,   \* history: a set was answered ERR, and no reset since has found
            \* the page in order
  unread    \* history: a read failed in the last boot

setVars == <<op, val, slot, tries>>
vars    == <<page, cache, ram, setVars, failed, unread>>

\* A record: blank; cut short, its last byte still as erased; or spoilt, its
\* last byte programmed but not verifying; or a value.
Free == "free"
Torn == "torn"
Bad  == "bad"
Contents == {Free, Torn, Bad} \cup Values

TypeOK ==
  /\ page \in [hdr : BOOLEAN, rec : [Recs -> Contents]]
  /\ cache \in {NoCache} \cup 0 .. N
  /\ ram \in Values \cup {None, Stray}
  /\ op \in {"idle", "erase", "header", "write"}
  /\ val \in Values \cup {None} /\ (val = None <=> op = "idle")
  /\ slot \in 0 .. N /\ tries \in 0 .. MaxRetry
  /\ failed \in BOOLEAN /\ unread \in BOOLEAN

Blank == [hdr |-> FALSE, rec |-> [i \in Recs |-> Free]]

-----------------------------------------------------------------------------
(* Reading a page *)

\* The search of both functions: the first record whose last byte is erased.
FirstFree(g) ==
  LET open == {i \in Recs : g.rec[i] \in {Free, Torn}}
  IN IF open = {} THEN N + 1 ELSE CHOOSE i \in open : \A j \in open : i <= j

\* The walk back to a record that verifies, 0 if there is none.
LastValid(g, from) ==
  LET good == {i \in 1 .. from : g.rec[i] \in Values}
  IN IF good = {} THEN 0 ELSE CHOOSE i \in good : \A j \in good : j <= i

Failure == [val |-> None, at |-> NoCache]

\* Mutant: the address is cached before the record is verified.
GetResultsEager(g, c) ==
  LET from == IF c = NoCache THEN FirstFree(g) - 1 ELSE c
      last == LastValid(g, from)
  IN IF c = NoCache /\ ~g.hdr THEN {Failure}
     ELSE IF from = 0 THEN {Failure, [val |-> Stray, at |-> 0]}
     ELSE IF last = 0 THEN {Failure}
     ELSE {[val |-> g.rec[last], at |-> from]}

\* tfdb_get: the results it may have when no read fails.  From the page header, or from the
\* cached record without looking at the header.  On a page without records
\* the search starts in front of the first one, where the bytes of the
\* preceding page and the header may happen to verify.
GetResults(g, c) ==
  LET from == IF c = NoCache THEN FirstFree(g) - 1 ELSE c
      last == LastValid(g, from)
  IN IF c = NoCache /\ ~g.hdr THEN {Failure}
     ELSE IF from = 0 THEN {Failure, [val |-> Stray, at |-> 0]}
     ELSE IF last = 0 THEN {Failure}
     ELSE {[val |-> g.rec[last], at |-> last]}

\* What a boot finds.
Stored(g) ==
  IF g.hdr /\ LastValid(g, FirstFree(g) - 1) # 0
  THEN g.rec[LastValid(g, FirstFree(g) - 1)] ELSE None

\* No value lies behind a blank record, or behind a header that does not check.
InOrder(g) ==
  \A i \in Recs : g.rec[i] \in Values => g.hdr /\ i < FirstFree(g)

\* vendor_def_service_init, with the cache of a program just started.  When
\* tfdb_get fails, for what it finds or because a read reports an error, the
\* copy is zeroed, whatever the page holds.
Boot(g) ==
  /\ page' = g
  /\ \/ \E r \in GetResults(g, NoCache) : cache' = r.at /\ ram' = r.val
        /\ unread' = FALSE
     \/ /\ cache' = NoCache /\ ram' = None
        /\ unread' = TRUE

Init ==
  /\ page = Blank
  /\ cache = NoCache /\ ram = None
  /\ op = "idle" /\ val = None /\ slot = 0 /\ tries = 0
  /\ failed = FALSE /\ unread = FALSE

-----------------------------------------------------------------------------
(* tfdb_set *)

\* The call returns; the copy in RAM follows the flash only on success.
Answer(ok) ==
  /\ op' = "idle" /\ val' = None /\ slot' = 0 /\ tries' = 0
  /\ ram' = IF ok THEN val ELSE ram
  /\ failed' = (failed \/ ~ok)

\* Mutant: the bound of the cached path off by one.
FirstTargetEarly ==
  IF cache # NoCache THEN IF cache + 1 >= N THEN N + 1 ELSE cache + 1
  ELSE IF page.hdr THEN FirstFree(page) ELSE N + 1

\* Mutant: the cached record itself is written again.
FirstTargetSame ==
  IF cache # NoCache /\ cache # 0 THEN cache
  ELSE IF page.hdr THEN FirstFree(page) ELSE N + 1

\* Mutant: the header is not checked.
FirstTargetBlind == IF cache # NoCache THEN cache + 1 ELSE FirstFree(page)

\* Where the first write goes; N + 1 when the page must be erased.
FirstTarget ==
  IF cache # NoCache THEN cache + 1
  ELSE IF page.hdr THEN FirstFree(page) ELSE N + 1

\* Mutant: the end of the page is not seen in time.
GoToPast(i) ==
  IF i > N + 1 THEN op' = "erase" /\ slot' = 0
               ELSE op' = "write" /\ slot' = i

GoTo(i) ==
  IF i > N THEN op' = "erase" /\ slot' = 0
           ELSE op' = "write" /\ slot' = i

SetBegin(v) ==
  /\ op = "idle"
  /\ val' = v /\ tries' = 0 /\ GoTo(FirstTarget)
  /\ UNCHANGED <<page, cache, ram, failed, unread>>

\* A read fails in tfdb_check or in the search: nothing has been written.
SetUnread ==
  /\ op = "idle" /\ cache = NoCache
  /\ failed' = TRUE
  /\ UNCHANGED <<page, cache, ram, setVars, unread>>

\* tfdb_port_erase; when it reports an error it may have erased or not.
Erase ==
  /\ op = "erase"
  /\ \/ page' = Blank /\ op' = "header" /\ UNCHANGED <<ram, val, slot, tries, failed>>
     \/ page' \in {page, Blank} /\ Answer(FALSE)
  /\ UNCHANGED <<cache, unread>>

\* The header is written and checked.
WriteHeader ==
  /\ op = "header"
  /\ \/ page' = [page EXCEPT !.hdr = TRUE] /\ GoTo(1)
        /\ UNCHANGED <<ram, val, tries, failed>>
     \/ \E h \in BOOLEAN : page' = [page EXCEPT !.hdr = h] /\ Answer(FALSE)
  /\ UNCHANGED <<cache, unread>>

\* What a record may hold when a write to it has ended.  A write only clears
\* bits: over an old value it may give the new one, neither, or change nothing.
Written(old, v) == {v, Bad} \cup ({old} \cap Values)

\* Mutant: max_retry is not counted.
WriteRecordUncounted ==
  /\ op = "write" /\ tries < MaxRetry
  /\ \E c \in Written(page.rec[slot], val) :
       /\ page' = [page EXCEPT !.rec[slot] = c]
       /\ \/ c = val /\ cache' = slot /\ Answer(TRUE)
          \/ /\ c # val
             /\ GoTo(slot + 1) /\ tries' = tries
             /\ UNCHANGED <<cache, ram, val, failed>>
  /\ UNCHANGED unread

\* One turn of the loop at the label write: the record is written and read
\* back.  If it is not what was written the next record is tried.
WriteRecord ==
  /\ op = "write" /\ tries < MaxRetry
  /\ \E c \in Written(page.rec[slot], val) :
       /\ page' = [page EXCEPT !.rec[slot] = c]
       /\ \/ c = val /\ cache' = slot /\ Answer(TRUE)
          \/ /\ c # val
             /\ GoTo(slot + 1) /\ tries' = tries + 1
             /\ UNCHANGED <<cache, ram, val, failed>>
  /\ UNCHANGED unread

\* The write or the read-back reports an error.
WriteError ==
  /\ op = "write" /\ tries < MaxRetry
  /\ \E c \in Written(page.rec[slot], val) \cup {page.rec[slot]} :
       page' = [page EXCEPT !.rec[slot] = c]
  /\ Answer(FALSE) /\ UNCHANGED <<cache, unread>>

\* max_retry has passed TFDB_WRITE_MAX_RETRY.
GiveUp ==
  /\ op = "write" /\ tries = MaxRetry
  /\ Answer(FALSE) /\ UNCHANGED <<page, cache, unread>>

-----------------------------------------------------------------------------
(* tfdb_get by AT+GETAUTOCONNECT, and resets *)

\* A read that fails leaves the cache as it was.
Get ==
  /\ op = "idle"
  /\ \E r \in GetResults(page, cache) :
       cache' = IF r = Failure THEN cache ELSE r.at
  /\ UNCHANGED <<page, ram, setVars, failed, unread>>

\* What the flash may hold when the power goes in the middle of op.  Bytes
\* are programmed in order; an erase that was cut leaves the header unreadable.
Interrupted ==
  CASE op = "idle"   -> {page}
    [] op = "erase"  -> {page, Blank}
    [] op = "header" -> {page, [page EXCEPT !.hdr = TRUE]}
    [] op = "write"  ->
         {[page EXCEPT !.rec[slot] = c] :
            c \in {page.rec[slot]} \cup Written(page.rec[slot], val)
                  \cup (IF page.rec[slot] = Free THEN {Torn} ELSE {})}

Reset ==
  /\ \E g \in Interrupted : Boot(g) /\ failed' = (failed /\ ~InOrder(g))
  /\ op' = "idle" /\ val' = None /\ slot' = 0 /\ tries' = 0

-----------------------------------------------------------------------------
SetStep == Erase \/ WriteHeader \/ WriteRecord \/ WriteError \/ GiveUp

Next ==
  \/ \E v \in Values : SetBegin(v)
  \/ SetUnread \/ SetStep \/ Get \/ Reset

Spec == Init /\ [][Next]_vars

\* tfdb_set runs without yielding: a call that has begun takes its next step.
LiveSpec == Spec /\ WF_vars(SetStep)

-----------------------------------------------------------------------------
(* Properties *)

\* The page implements a durable register: a set answered OK survives every
\* reset, and a reset in the middle of a set (tinyflashdb.c:142-333) leaves the
\* old value, the new one or none, whichever write, erase or header it cuts.
\* The copy the program uses agrees with it (at_cmd.c:709-711), unless the boot
\* could not read the page (sys_info.c:137-141): then there is none until the
\* next set or reset, and what is stored stays stored.
Register == INSTANCE DurableRegister WITH
              reg <- Stored(page), copy <- ram, job <- val, suspect <- failed,
              unread <- unread
RegisterRefined == Register!Spec

\* Until a set fails, the record the address cache points to is the one a
\* search of the page finds: the cached paths of tfdb_set and tfdb_get, which
\* never look at the header, agree with what a reset will see.
CacheCoherent ==
  (op = "idle" /\ ~failed /\ cache # NoCache) =>
     /\ page.hdr
     /\ LastValid(page, FirstFree(page) - 1) = cache

\* A record that verifies is never written over, as long as no set failed.
NeverOverwrites ==
  (op = "write" /\ ~failed) => page.rec[slot] \notin Values

\* The stored value is given up only when the page has no blank record left
\* (or after a failed set): the erase that can lose it is the last resort.
LostOnlyWhenFull ==
  [][(~failed /\ Stored(page) # None /\ Stored(page)' = None)
       => \A i \in Recs : page.rec[i] # Free]_vars

\* The steps a set may still take: three for every record it may yet find bad
\* (its write, an erase and a header), and those of the round it is in.
StepsLeft ==
  IF op = "idle" THEN 0
  ELSE 3 * (MaxRetry - tries)
         + (CASE op = "write" -> 1 [] op = "header" -> 2 [] op = "erase" -> 3)

\* A set can not go round for ever (tinyflashdb.c:224-328, where the write, the
\* header and the erase jump to one another): whatever happens while it is
\* under way, errors, bad records and resets included, lowers the number of
\* steps it may still take, so that it needs 3 * MaxRetry + 3 at most.
SetIsBounded ==
  [][op # "idle" => StepsLeft' \in 0 .. StepsLeft - 1]_vars

\* Every set ends, however many records are bad (TFDB_WRITE_MAX_RETRY).
SetEnds == (op # "idle") ~> (op = "idle")
=============================================================================

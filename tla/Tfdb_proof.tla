----------------------------- MODULE Tfdb_proof -----------------------------
(* Theorems about Tfdb, for every page size, retry limit and set of values. *)
EXTENDS Tfdb, WellFoundedInduction, TLAPS

(***************************************************************************)
(* Least and greatest elements, on which the two searches of a page rest.  *)
(***************************************************************************)

LEMMA Least ==
  ASSUME NEW S, S \subseteq Nat, S # {}
  PROVE  \E i \in S : \A j \in S : i <= j
<1>1. PICK i \in S : \A j \in S : ~(<<j, i>> \in OpToRel(<, Nat))
  BY NatLessThanWellFounded, WFMin, Zenon
<1>2. \A j \in S : ~(j < i)
  BY <1>1, Zenon DEF OpToRel
<1> QED
  <2>1. i \in S
    BY <1>1, Zenon
  <2> HIDE <1>1
  <2> QED
    BY <1>2, <2>1

LEMMA Greatest ==
  ASSUME NEW n \in Nat, NEW S, S \subseteq 0 .. n, S # {}
  PROVE  \E i \in S : \A j \in S : j <= i
<1> DEFINE T == {m \in Nat : n - m \in S}
<1>1. T # {} /\ T \subseteq Nat
  <2>1. PICK i \in S : TRUE
    OBVIOUS
  <2>2. i \in 0 .. n
    OBVIOUS
  <2>3. n - i \in Nat /\ n - (n - i) = i
    BY <2>2
  <2> QED
    BY <2>1, <2>3
<1>2. PICK m \in T : \A k \in T : m <= k
  BY <1>1, Least
<1>3. \A j \in S : n - j \in T
  <2> TAKE j \in S
  <2>1. j \in 0 .. n
    OBVIOUS
  <2> QED
    BY <2>1
<1>4. \A j \in S : j <= n - m
  <2> TAKE j \in S
  <2>1. j \in 0 .. n /\ m <= n - j /\ m \in Nat
    BY <1>2, <1>3
  <2> QED
    BY <2>1
<1> QED
  BY <1>2, <1>4

\* The search stops at the first record that is open, or behind the last.
LEMMA FirstFreeIs ==
  ASSUME NEW g
  PROVE  /\ FirstFree(g) \in 1 .. N + 1
         /\ \A i \in Recs : i < FirstFree(g) => g.rec[i] \notin {Free, Torn}
         /\ FirstFree(g) <= N => g.rec[FirstFree(g)] \in {Free, Torn}
<1> USE TfdbAssumption
<1> DEFINE open == {i \in Recs : g.rec[i] \in {Free, Torn}}
<1>1. CASE open = {}
  BY <1>1 DEF FirstFree, Recs
<1>2. CASE open # {}
  <2>1. open \subseteq Nat
    BY DEF Recs
  <2>2. \E i \in open : \A j \in open : i <= j
    BY <1>2, <2>1, Least
  <2>3. FirstFree(g) \in open /\ \A j \in open : FirstFree(g) <= j
    BY <1>2, <2>2, Zenon DEF FirstFree
  <2> QED
    BY <2>3 DEF Recs
<1> QED
  BY <1>1, <1>2

\* The walk back stops at the last record that verifies, or in front of the
\* first.
LEMMA LastValidIs ==
  ASSUME NEW g, NEW from \in 0 .. N
  PROVE  /\ LastValid(g, from) \in 0 .. from
         /\ LastValid(g, from) # 0 => g.rec[LastValid(g, from)] \in Values
         /\ \A i \in 1 .. from : g.rec[i] \in Values => i <= LastValid(g, from)
<1> USE TfdbAssumption
<1> DEFINE good == {i \in 1 .. from : g.rec[i] \in Values}
<1>1. CASE good = {}
  BY <1>1 DEF LastValid
<1>2. CASE good # {}
  <2>1. good \subseteq 0 .. from /\ from \in Nat
    OBVIOUS
  <2>2. \E i \in good : \A j \in good : j <= i
    BY <1>2, <2>1, Greatest
  <2>3. LastValid(g, from) \in good /\ \A j \in good : j <= LastValid(g, from)
    BY <1>2, <2>2, Zenon DEF LastValid
  <2> QED
    BY <2>3
<1> QED
  BY <1>1, <1>2

\* What the two searches together find.
Last(g) == LastValid(g, FirstFree(g) - 1)

LEMMA LastIs ==
  ASSUME NEW g
  PROVE  /\ Last(g) \in 0 .. N
         /\ Last(g) < FirstFree(g)
         /\ Last(g) # 0 => g.rec[Last(g)] \in Values
         /\ \A i \in Recs : i < FirstFree(g) /\ g.rec[i] \in Values => i <= Last(g)
<1> USE TfdbAssumption
<1>1. FirstFree(g) \in 1 .. N + 1 /\ FirstFree(g) - 1 \in 0 .. N
  BY FirstFreeIs
<1>2. /\ Last(g) \in 0 .. FirstFree(g) - 1
      /\ Last(g) # 0 => g.rec[Last(g)] \in Values
      /\ \A i \in 1 .. FirstFree(g) - 1 : g.rec[i] \in Values => i <= Last(g)
  BY <1>1, LastValidIs DEF Last
<1> QED
  BY <1>1, <1>2 DEF Recs

\* What a boot finds is a value or nothing.
LEMMA StoredType ==
  ASSUME NEW g
  PROVE  Stored(g) \in Values \cup {None}
  BY LastIs DEF Stored, Last

\* On a page in order it is the last value there is.
LEMMA StoredIs ==
  ASSUME NEW g, InOrder(g)
  PROVE  \/ Stored(g) = None /\ \A i \in Recs : g.rec[i] \notin Values
         \/ /\ Last(g) \in Recs /\ Stored(g) = g.rec[Last(g)] /\ g.rec[Last(g)] \in Values
            /\ \A i \in Recs : g.rec[i] \in Values => i <= Last(g)
<1> USE TfdbAssumption
<1>1. \A i \in Recs : g.rec[i] \in Values => g.hdr /\ i <= Last(g)
  BY LastIs DEF InOrder
<1>2. Last(g) \in 0 .. N /\ (Last(g) # 0 => g.rec[Last(g)] \in Values)
  BY LastIs
<1>3. CASE Last(g) = 0
  BY <1>1, <1>3 DEF Stored, Last, Recs
<1>4. CASE Last(g) # 0
  <2>1. Last(g) \in Recs /\ g.rec[Last(g)] \in Values
    BY <1>2, <1>4 DEF Recs
  <2>2. Stored(g) = g.rec[Last(g)]
    BY <1>1, <1>4, <2>1 DEF Stored, Last
  <2> QED
    BY <1>1, <2>1, <2>2
<1> QED
  BY <1>3, <1>4

\* Records that are no values do not matter.
LEMMA SameValues ==
  ASSUME NEW g, NEW h, InOrder(g), InOrder(h),
         \A i \in Recs : g.rec[i] \in Values \/ h.rec[i] \in Values => h.rec[i] = g.rec[i]
  PROVE  Stored(h) = Stored(g)
<1> USE TfdbAssumption
<1>1. CASE \A i \in Recs : g.rec[i] \notin Values
  BY <1>1, StoredIs
<1>2. CASE \E i \in Recs : g.rec[i] \in Values
  <2>1. /\ Last(g) \in Recs /\ Stored(g) = g.rec[Last(g)] /\ g.rec[Last(g)] \in Values
        /\ \A i \in Recs : g.rec[i] \in Values => i <= Last(g)
    BY <1>2, StoredIs
  <2>2. /\ Last(h) \in Recs /\ Stored(h) = h.rec[Last(h)] /\ h.rec[Last(h)] \in Values
        /\ \A i \in Recs : h.rec[i] \in Values => i <= Last(h)
    BY <1>2, StoredIs
  <2>3. Last(g) <= Last(h) /\ Last(h) <= Last(g) /\ Last(g) \in Nat /\ Last(h) \in Nat
    BY <2>1, <2>2 DEF Recs
  <2>4. Last(g) = Last(h)
    BY <2>3
  <2> QED
    BY <2>1, <2>2, <2>4
<1> QED
  BY <1>1, <1>2

\* Where record s is written next: all before it are taken, and no value is at
\* or behind it.
Clear(g, s) ==
  \A i \in Recs : (i < s => g.rec[i] \notin {Free, Torn}) /\ (i >= s => g.rec[i] \notin Values)

LEMMA ClearIsInOrder ==
  ASSUME NEW g, NEW s \in 1 .. N + 1, g.hdr, Clear(g, s)
  PROVE  InOrder(g)
<1> USE TfdbAssumption
<1>1. s <= FirstFree(g)
  BY FirstFreeIs DEF Clear, Recs
<1>2. \A i \in Recs : g.rec[i] \in Values => i < s
  BY DEF Clear, Recs
<1> QED
  BY <1>1, <1>2, FirstFreeIs DEF InOrder, Recs

\* Behind the last value, on a page in order, is such a place; so is the first
\* open record.
LEMMA TargetIsClear ==
  ASSUME NEW g, InOrder(g)
  PROVE  Clear(g, Last(g) + 1) /\ Clear(g, FirstFree(g))
<1> USE TfdbAssumption
<1>1. /\ Last(g) \in 0 .. N /\ Last(g) < FirstFree(g) /\ FirstFree(g) \in 1 .. N + 1
      /\ \A i \in Recs : i < FirstFree(g) => g.rec[i] \notin {Free, Torn}
      /\ \A i \in Recs : g.rec[i] \in Values => i < FirstFree(g) /\ i <= Last(g)
  BY LastIs, FirstFreeIs DEF InOrder
<1> QED
  BY <1>1 DEF Clear, Recs

\* A value written there is what a boot will find, and the last of the page.
LEMMA NewValue ==
  ASSUME NEW g, NEW h, NEW s \in Recs, Clear(g, s), h.hdr,
         h.rec[s] \in Values, \A i \in Recs \ {s} : h.rec[i] = g.rec[i]
  PROVE  InOrder(h) /\ Last(h) = s /\ Stored(h) = h.rec[s]
<1> USE TfdbAssumption
<1>1. Clear(h, s + 1) /\ s + 1 \in 1 .. N + 1
  BY DEF Clear, Recs, Free, Torn
<1>2. InOrder(h)
  BY <1>1, ClearIsInOrder
<1>3. /\ Last(h) \in Recs /\ Stored(h) = h.rec[Last(h)] /\ h.rec[Last(h)] \in Values
      /\ \A i \in Recs : h.rec[i] \in Values => i <= Last(h)
  BY <1>2, StoredIs
<1>4. Last(h) = s
  BY <1>1, <1>3 DEF Clear, Recs
<1> QED
  BY <1>2, <1>3, <1>4

\* Anything else written there changes nothing.
LEMMA NoValue ==
  ASSUME NEW g, NEW h, NEW s \in Recs, Clear(g, s), g.hdr, h.hdr,
         h.rec[s] \notin Values, \A i \in Recs \ {s} : h.rec[i] = g.rec[i]
  PROVE  InOrder(h) /\ Stored(h) = Stored(g)
<1> USE TfdbAssumption
<1>1. Clear(h, s) /\ s \in 1 .. N + 1 /\ g.rec[s] \notin Values
  BY DEF Clear, Recs
<1>2. InOrder(g) /\ InOrder(h)
  BY <1>1, ClearIsInOrder
<1> QED
  BY <1>1, <1>2, SameValues

LEMMA BlankIs ==
  ASSUME NEW g, \A i \in Recs : g.rec[i] \notin Values
  PROVE  Stored(g) = None /\ InOrder(g) /\ Last(g) = 0
<1>1. InOrder(g)
  BY DEF InOrder
<1>2. Last(g) = 0
  BY LastIs, TfdbAssumption DEF Recs
<1> QED
  BY <1>1, <1>2, StoredIs

(***************************************************************************)
(* tfdb_get.                                                               *)
(***************************************************************************)

\* Without a cached address a get finds what a boot finds, or misreads a page
\* that holds nothing; it caches the last record.
LEMMA GetSearches ==
  ASSUME NEW g, NEW r \in GetResults(g, NoCache)
  PROVE  \/ r = Failure /\ Stored(g) = None
         \/ /\ r.at = Last(g) /\ r.at \in 0 .. N /\ g.hdr
            /\ r.val = Stored(g) \/ (Stored(g) = None /\ r.val = Stray)
<1> USE TfdbAssumption
<1>0. FirstFree(g) \in 1 .. N + 1 /\ Last(g) \in 0 .. N /\ Last(g) < FirstFree(g)
  BY FirstFreeIs, LastIs
<1>1. CASE ~g.hdr
  BY <1>1 DEF GetResults, Stored
<1>2. CASE g.hdr /\ Last(g) = 0
  <2>1. Stored(g) = None
    BY <1>2 DEF Stored, Last
  <2>2. r = Failure \/ r = [val |-> Stray, at |-> 0]
    BY <1>2 DEF GetResults, Last
  <2> QED
    BY <1>2, <2>1, <2>2
<1>3. CASE g.hdr /\ Last(g) # 0
  <2>1. FirstFree(g) - 1 # 0
    BY <1>0, <1>3
  <2>2. r = [val |-> g.rec[Last(g)], at |-> Last(g)]
    BY <1>3, <2>1 DEF GetResults, Last
  <2>3. Stored(g) = g.rec[Last(g)]
    BY <1>3 DEF Stored, Last
  <2> QED
    BY <1>0, <1>3, <2>2, <2>3
<1> QED
  BY <1>1, <1>2, <1>3

\* With the address of the last record cached it finds that one.
LEMMA GetUsesCache ==
  ASSUME NEW g, NEW c \in 0 .. N, NEW r \in GetResults(g, c)
  PROVE  /\ r = Failure \/ r.at \in 0 .. N
         /\ c = Last(g) => r = Failure \/ r.at = c
<1> USE TfdbAssumption
<1>1. c # NoCache
  BY DEF NoCache
<1>2. CASE c = 0
  BY <1>1, <1>2 DEF GetResults
<1>3. CASE c # 0
  <2>1. r = Failure \/ r.at = LastValid(g, c)
    BY <1>1, <1>3 DEF GetResults
  <2>2. /\ LastValid(g, c) \in 0 .. c
        /\ \A i \in 1 .. c : g.rec[i] \in Values => i <= LastValid(g, c)
    BY LastValidIs
  <2>3. c = Last(g) => g.rec[c] \in Values
    BY <1>3, LastIs
  <2>4. c = Last(g) => LastValid(g, c) = c
    BY <1>3, <2>2, <2>3
  <2> QED
    BY <2>1, <2>2, <2>4
<1> QED
  BY <1>2, <1>3

LEMMA GoToIs ==
  ASSUME NEW i \in 1 .. N + 1, GoTo(i)
  PROVE  \/ i = N + 1 /\ op' = "erase" /\ slot' = 0
         \/ i \in Recs /\ op' = "write" /\ slot' = i
  BY TfdbAssumption DEF GoTo, Recs

(***************************************************************************)
(* Type correctness.                                                       *)
(***************************************************************************)

\* A write goes to a record of the page.
SlotOK == op = "write" => slot \in Recs

LEMMA TargetType ==
  ASSUME TypeOK
  PROVE  FirstTarget \in 1 .. N + 1
  BY FirstFreeIs, TfdbAssumption DEF FirstTarget, TypeOK, NoCache

LEMMA WrittenType ==
  ASSUME TypeOK, SlotOK, op = "write", NEW c \in Written(page.rec[slot], val) \cup {page.rec[slot], Torn}
  PROVE  [page EXCEPT !.rec[slot] = c] \in [hdr : BOOLEAN, rec : [Recs -> Contents]]
<1>1. c \in Contents
  BY DEF TypeOK, SlotOK, Written, Contents
<1> QED
  BY <1>1 DEF TypeOK, SlotOK

\* TypeOK without the flash and the cache.
CallOK ==
  /\ ram \in Values \cup {None, Stray}
  /\ op \in {"idle", "erase", "header", "write"}
  /\ val \in Values \cup {None} /\ (val = None <=> op = "idle")
  /\ slot \in 0 .. N /\ tries \in 0 .. MaxRetry
  /\ failed \in BOOLEAN

LEMMA AnswerType ==
  ASSUME TypeOK, NEW ok \in BOOLEAN, Answer(ok), op # "idle"
  PROVE  CallOK' /\ SlotOK'
<1>1. 0 \in 0 .. N /\ 0 \in 0 .. MaxRetry
  BY TfdbAssumption
<1>2. ram' \in Values \cup {None, Stray}
  BY DEF Answer, TypeOK
<1>3. failed' \in BOOLEAN
  BY Zenon DEF Answer, TypeOK
<1> QED
  BY <1>1, <1>2, <1>3 DEF Answer, CallOK, SlotOK

\* All of TypeOK but the history of the last boot.
CoreOK ==
  /\ page \in [hdr : BOOLEAN, rec : [Recs -> Contents]]
  /\ cache \in {NoCache} \cup 0 .. N
  /\ CallOK

LEMMA TypeStep == TypeOK /\ SlotOK /\ [Next]_vars => TypeOK' /\ SlotOK'
<1> USE TfdbAssumption
<1> SUFFICES ASSUME TypeOK, SlotOK, [Next]_vars
             PROVE  TypeOK' /\ SlotOK'
  OBVIOUS
<1>10. unread' \in BOOLEAN
  BY Zenon DEF TypeOK, Next, SetStep, SetBegin, SetUnread, Erase, WriteHeader, WriteRecord,
     WriteError, GiveUp, Get, Reset, Boot, vars
<1> SUFFICES CoreOK' /\ SlotOK'
  BY <1>10, Zenon DEF TypeOK, CoreOK, CallOK
<1>0. Blank \in [hdr : BOOLEAN, rec : [Recs -> Contents]]
  BY DEF Blank, Contents
<1>1. CASE UNCHANGED vars
  BY <1>1 DEF TypeOK, CoreOK, CallOK, SlotOK, vars, setVars
<1>2. ASSUME NEW v \in Values, SetBegin(v) PROVE CoreOK' /\ SlotOK'
  <2>1. op' \in {"write", "erase"} /\ slot' \in 0 .. N /\ (op' = "write" => slot' \in Recs)
    BY <1>2, TargetType, GoToIs DEF SetBegin, Recs
  <2>2. val' \in Values /\ val' # None /\ tries' \in 0 .. MaxRetry
    BY <1>2 DEF SetBegin
  <2> QED
    BY <1>2, <2>1, <2>2 DEF SetBegin, TypeOK, CoreOK, CallOK, SlotOK
<1>3. CASE SetUnread
  BY <1>3 DEF SetUnread, setVars, TypeOK, CoreOK, CallOK, SlotOK
<1>4. CASE Erase
  <2>1. CASE page' = Blank /\ op' = "header" /\ UNCHANGED <<ram, val, slot, tries, failed>>
    BY <1>0, <1>4, <2>1 DEF Erase, TypeOK, CoreOK, CallOK, SlotOK
  <2>2. CASE page' \in {page, Blank} /\ Answer(FALSE)
    <3>1. CallOK' /\ SlotOK'
      BY <1>4, <2>2, AnswerType DEF Erase
    <3>2. page' \in [hdr : BOOLEAN, rec : [Recs -> Contents]] /\ cache' = cache
      BY <1>0, <1>4, <2>2 DEF Erase, TypeOK, CoreOK, CallOK
    <3> QED
      BY <3>1, <3>2, Zenon DEF TypeOK, CoreOK, CallOK
  <2> QED
    BY <1>4, <2>1, <2>2 DEF Erase
<1>5. CASE WriteHeader
  <2>0. \A h \in BOOLEAN : [page EXCEPT !.hdr = h] \in [hdr : BOOLEAN, rec : [Recs -> Contents]]
    BY DEF TypeOK, CoreOK, CallOK
  <2>1. CASE page' = [page EXCEPT !.hdr = TRUE] /\ GoTo(1) /\ UNCHANGED <<ram, val, tries, failed>>
    <3>1. op' = "write" /\ slot' = 1 /\ 1 \in Recs
      BY <2>1, GoToIs DEF Recs
    <3>2. page' \in [hdr : BOOLEAN, rec : [Recs -> Contents]] /\ cache' = cache
      BY <1>5, <2>0, <2>1 DEF WriteHeader
    <3>3. slot' \in 0 .. N /\ SlotOK'
      BY <3>1 DEF SlotOK, Recs
    <3>4. val' \in Values \cup {None} /\ (val' = None <=> op' = "idle")
      BY <1>5, <2>1, <3>1 DEF WriteHeader, TypeOK, CoreOK, CallOK
    <3> QED
      BY <2>1, <3>1, <3>2, <3>3, <3>4, Zenon DEF TypeOK, CoreOK, CallOK
  <2>2. CASE \E h \in BOOLEAN : page' = [page EXCEPT !.hdr = h] /\ Answer(FALSE)
    <3>1. CallOK' /\ SlotOK'
      BY <1>5, <2>2, AnswerType DEF WriteHeader
    <3>2. page' \in [hdr : BOOLEAN, rec : [Recs -> Contents]] /\ cache' = cache
      BY <1>5, <2>0, <2>2 DEF WriteHeader
    <3> QED
      BY <3>1, <3>2, Zenon DEF TypeOK, CoreOK, CallOK
  <2> QED
    BY <1>5, <2>1, <2>2 DEF WriteHeader
<1>6. CASE WriteRecord
  <2>1. PICK c \in Written(page.rec[slot], val) :
          /\ page' = [page EXCEPT !.rec[slot] = c]
          /\ \/ c = val /\ cache' = slot /\ Answer(TRUE)
             \/ /\ c # val /\ GoTo(slot + 1) /\ tries' = tries + 1
                /\ UNCHANGED <<cache, ram, val, failed>>
    BY <1>6 DEF WriteRecord
  <2>2. page' \in [hdr : BOOLEAN, rec : [Recs -> Contents]] /\ slot \in Recs
    BY <1>6, <2>1, WrittenType DEF WriteRecord, SlotOK
  <2>3. CASE cache' = slot /\ Answer(TRUE)
    <3>1. CallOK' /\ SlotOK'
      BY <1>6, <2>3, AnswerType DEF WriteRecord
    <3>2. cache' \in {NoCache} \cup 0 .. N
      BY <2>2, <2>3 DEF Recs
    <3> QED
      BY <2>2, <3>1, <3>2, Zenon DEF TypeOK, CoreOK, CallOK
  <2>4. CASE GoTo(slot + 1) /\ tries' = tries + 1 /\ UNCHANGED <<cache, ram, val, failed>>
    <3>1. slot + 1 \in 1 .. N + 1
      BY <2>2 DEF Recs
    <3>2. slot' \in 0 .. N /\ op' \in {"erase", "write"} /\ SlotOK'
      BY <2>4, <3>1, GoToIs DEF SlotOK, Recs
    <3>3. tries' \in 0 .. MaxRetry
      BY <1>6, <2>4 DEF WriteRecord, TypeOK, CoreOK, CallOK
    <3> QED
      BY <1>6, <2>2, <2>4, <3>2, <3>3 DEF WriteRecord, TypeOK, CoreOK, CallOK
  <2> QED
    BY <2>1, <2>3, <2>4
<1>7. CASE WriteError \/ GiveUp
  <2>1. op = "write" /\ Answer(FALSE) /\ cache' = cache
    BY <1>7 DEF WriteError, GiveUp
  <2>2. page' \in [hdr : BOOLEAN, rec : [Recs -> Contents]]
    BY <1>7, WrittenType DEF WriteError, GiveUp, TypeOK, CoreOK, CallOK
  <2> QED
    <3>1. CallOK' /\ SlotOK'
      BY <2>1, AnswerType
    <3> QED
      BY <2>1, <2>2, <3>1, Zenon DEF TypeOK, CoreOK, CallOK
<1>8. CASE Get
  <2>1. cache' \in {NoCache} \cup 0 .. N
    <3>1. PICK r \in GetResults(page, cache) : cache' = IF r = Failure THEN cache ELSE r.at
      BY <1>8 DEF Get
    <3> QED
      BY <3>1, GetSearches, GetUsesCache DEF TypeOK, CoreOK, CallOK
  <2> QED
    BY <1>8, <2>1 DEF Get, TypeOK, CoreOK, CallOK, SlotOK, setVars
<1>9. CASE Reset
  <2>1. PICK g \in Interrupted : Boot(g) /\ failed' = (failed /\ ~InOrder(g))
    BY <1>9 DEF Reset
  <2>2. g \in [hdr : BOOLEAN, rec : [Recs -> Contents]]
    <3>1. CASE op = "write"
      BY <2>1, <3>1, WrittenType DEF Interrupted
    <3>2. CASE op # "write"
      BY <1>0, <2>1, <3>2 DEF Interrupted, TypeOK, CoreOK, CallOK
    <3> QED
      BY <3>1, <3>2
  <2>3. page' = g /\ cache' \in {NoCache} \cup 0 .. N /\ ram' \in Values \cup {None, Stray}
    BY <2>1, GetSearches, StoredType DEF Boot, Failure
  <2>4. failed' \in BOOLEAN
    BY <2>1, Zenon DEF TypeOK, CoreOK, CallOK
  <2> QED
    BY <1>9, <2>2, <2>3, <2>4 DEF Reset, TypeOK, CoreOK, CallOK, SlotOK
<1> QED
  BY <1>1, <1>2, <1>3, <1>4, <1>5, <1>6, <1>7, <1>8, <1>9 DEF Next, SetStep

(***************************************************************************)
(* The page stays in order until a set fails.                              *)
(***************************************************************************)

\* What holds of the page at each point of a set: CacheCoherent between two
\* sets, NeverOverwrites while one writes, LostOnlyWhenFull when one erases.
Tidy ==
  /\ InOrder(page)
  /\ op = "idle" /\ cache # NoCache => page.hdr /\ Last(page) = cache
  /\ op = "write" => page.hdr /\ Clear(page, slot)
  /\ op = "header" => page = Blank
  /\ op = "erase" /\ page.hdr => \A i \in Recs : page.rec[i] \notin {Free, Torn}

TidyInv == ~failed => Tidy

IInv == TypeOK /\ SlotOK /\ TidyInv

LEMMA InitOK == Init => IInv
<1> USE TfdbAssumption
<1> SUFFICES ASSUME Init PROVE IInv
  OBVIOUS
<1>1. Blank \in [hdr : BOOLEAN, rec : [Recs -> Contents]]
  BY DEF Blank, Contents
<1>2. TypeOK /\ SlotOK
  <2>1. cache \in {NoCache} \cup 0 .. N /\ slot \in 0 .. N /\ tries \in 0 .. MaxRetry
    BY DEF Init
  <2>2. failed \in BOOLEAN
    BY Zenon DEF Init
  <2> QED
    BY <1>1, <2>1, <2>2, Zenon DEF Init, TypeOK, SlotOK
<1>3. InOrder(page)
  BY DEF Init, InOrder, Blank, Free
<1>4. TidyInv
  BY <1>3 DEF Init, TidyInv, Tidy
<1> QED
  BY <1>2, <1>4 DEF IInv

\* The record written next, or the page erased: what is chosen fits the page.
LEMMA GoToKeeps ==
  ASSUME TypeOK, NEW i \in 1 .. N + 1, GoTo(i), NEW g, page' = g, InOrder(g), g.hdr, Clear(g, i)
  PROVE  Tidy'
<1> USE TfdbAssumption
<1>1. CASE i = N + 1 /\ op' = "erase" /\ slot' = 0
  BY <1>1 DEF Tidy, Clear, Recs
<1>2. CASE i \in Recs /\ op' = "write" /\ slot' = i
  BY <1>2 DEF Tidy
<1> QED
  BY <1>1, <1>2, GoToIs

LEMMA SetBeginTidy ==
  ASSUME TypeOK, Tidy, NEW v \in Values, SetBegin(v)
  PROVE  Tidy'
<1> USE TfdbAssumption
<1>0. op = "idle" /\ GoTo(FirstTarget) /\ page' = page /\ InOrder(page)
      /\ FirstTarget \in 1 .. N + 1
  BY TargetType DEF SetBegin, Tidy
<1>1. CASE cache = NoCache /\ ~page.hdr
  <2>1. op' = "erase"
    BY <1>0, <1>1 DEF FirstTarget, GoTo
  <2> QED
    BY <1>0, <1>1, <2>1 DEF Tidy
<1>2. CASE cache # NoCache \/ page.hdr
  <2>1. page.hdr /\ Clear(page, FirstTarget)
    BY <1>0, <1>2, TargetIsClear DEF Tidy, FirstTarget
  <2> QED
    BY <1>0, <2>1, GoToKeeps
<1> QED
  BY <1>1, <1>2

\* What a turn of the write loop leaves.
LEMMA TurnIs ==
  ASSUME TypeOK, SlotOK, Tidy, op = "write", NEW c \in Written(page.rec[slot], val),
         NEW h, h = [page EXCEPT !.rec[slot] = c]
  PROVE  /\ h = [hdr |-> TRUE, rec |-> [page.rec EXCEPT ![slot] = c]]
         /\ c = val => InOrder(h) /\ Last(h) = slot /\ Stored(h) = val
         /\ c # val => /\ InOrder(h) /\ Stored(h) = Stored(page)
                       /\ Clear(h, slot + 1)
<1> USE TfdbAssumption
<1>1. slot \in Recs /\ page.hdr /\ Clear(page, slot) /\ val \in Values
      /\ page.rec[slot] \notin Values
  BY DEF Tidy, SlotOK, TypeOK, Clear, Recs
<1>2. c \in {val, Bad} /\ Bad \notin Values /\ Bad \notin {Free, Torn}
  BY <1>1 DEF Written, Bad, Free, Torn
<1>3. /\ h = [hdr |-> TRUE, rec |-> [page.rec EXCEPT ![slot] = c]]
      /\ h.hdr /\ h.rec[slot] = c
      /\ \A i \in Recs \ {slot} : h.rec[i] = page.rec[i]
  BY <1>1 DEF TypeOK
<1>4. c = val => InOrder(h) /\ Last(h) = slot /\ Stored(h) = val
  <2> SUFFICES ASSUME c = val PROVE InOrder(h) /\ Last(h) = slot /\ Stored(h) = val
    OBVIOUS
  <2>1. h.rec[slot] \in Values
    BY <1>1, <1>3
  <2>2. InOrder(h) /\ Last(h) = slot /\ Stored(h) = h.rec[slot]
    BY <1>1, <1>3, <2>1, NewValue
  <2> QED
    BY <1>3, <2>2
<1>5. c # val => InOrder(h) /\ Stored(h) = Stored(page)
  BY <1>1, <1>2, <1>3, NoValue
<1>6. c # val => Clear(h, slot + 1)
  BY <1>1, <1>2, <1>3 DEF Clear, Recs
<1> QED
  BY <1>3, <1>4, <1>5, <1>6

\* A write never loses the stored value, however it ends.
LEMMA WriteLeaves ==
  ASSUME TypeOK, SlotOK, Tidy, op = "write",
         NEW c \in {page.rec[slot]} \cup Written(page.rec[slot], val) \cup {Torn},
         NEW h, h = [page EXCEPT !.rec[slot] = c]
  PROVE  InOrder(h) /\ Stored(h) \in {Stored(page), val}
<1> USE TfdbAssumption
<1>1. slot \in Recs /\ page.hdr /\ Clear(page, slot) /\ page.rec[slot] \notin Values
  BY DEF Tidy, SlotOK, Clear, Recs
<1>2. CASE c \in Written(page.rec[slot], val)
  BY <1>2, TurnIs
<1>3. CASE c \in {page.rec[slot], Torn}
  <2>1. h.hdr /\ h.rec[slot] \notin Values /\ \A i \in Recs \ {slot} : h.rec[i] = page.rec[i]
    BY <1>1, <1>3 DEF TypeOK, Torn
  <2> QED
    BY <1>1, <2>1, NoValue
<1> QED
  BY <1>2, <1>3

\* What the power may leave of the page.
LEMMA InterruptedIs ==
  ASSUME TypeOK, SlotOK, Tidy, NEW g \in Interrupted
  PROVE  /\ InOrder(g)
         /\ Stored(g) \in {Stored(page), None, val}
         /\ op = "idle" => g = page
<1> USE TfdbAssumption
<1>0. InOrder(page) /\ Stored(Blank) = None /\ InOrder(Blank)
  BY BlankIs DEF Tidy, Blank, Free
<1>1. CASE op = "idle"
  BY <1>0, <1>1 DEF Interrupted
<1>2. CASE op = "erase"
  BY <1>0, <1>2 DEF Interrupted
<1>3. CASE op = "header"
  <2>1. \A i \in Recs : g.rec[i] = Free
    BY <1>3 DEF Interrupted, Tidy, Blank
  <2>2. Stored(g) = None /\ InOrder(g)
    BY <2>1, BlankIs DEF Free
  <2> QED
    BY <1>3, <2>2
<1>4. CASE op = "write"
  <2>1. PICK c \in {page.rec[slot]} \cup Written(page.rec[slot], val) \cup {Torn} :
          g = [page EXCEPT !.rec[slot] = c]
    BY <1>4 DEF Interrupted
  <2> QED
    BY <1>4, <2>1, WriteLeaves
<1> QED
  BY <1>1, <1>2, <1>3, <1>4 DEF TypeOK

LEMMA TidyStep == IInv /\ TypeOK' /\ SlotOK' /\ [Next]_vars => TidyInv'
<1> USE TfdbAssumption
<1> SUFFICES ASSUME IInv, TypeOK', SlotOK', [Next]_vars, ~failed'
             PROVE  Tidy'
  BY DEF TidyInv
<1>1. ~failed => Tidy
  BY DEF IInv, TidyInv
<1>2. TypeOK /\ SlotOK
  BY DEF IInv
<1>3. CASE UNCHANGED vars
  BY <1>1, <1>3 DEF vars, setVars, Tidy
<1>4. ASSUME NEW v \in Values, SetBegin(v) PROVE Tidy'
  <2>1. ~failed
    BY <1>4, Zenon DEF SetBegin
  <2> QED
    BY <1>1, <1>2, <1>4, <2>1, SetBeginTidy
<1>5. CASE SetUnread
  BY <1>5 DEF SetUnread
<1>6. \A ok \in BOOLEAN : Answer(ok) => ok /\ ~failed
  BY Zenon DEF Answer
<1>7. CASE Erase
  <2>1. page' = Blank /\ op' = "header"
    BY <1>6, <1>7, Zenon DEF Erase
  <2>2. InOrder(page')
    BY <2>1, BlankIs DEF Blank, Free
  <2> QED
    BY <2>1, <2>2 DEF Tidy
<1>8. CASE WriteHeader
  <2>1. page' = [page EXCEPT !.hdr = TRUE] /\ GoTo(1) /\ failed' = failed
    BY <1>6, <1>8, Zenon DEF WriteHeader
  <2>2. page = Blank
    BY <1>1, <1>8, <2>1 DEF WriteHeader, Tidy
  <2>3. page'.hdr /\ \A i \in Recs : page'.rec[i] = Free
    BY <2>1, <2>2 DEF Blank
  <2>4. Clear(page', 1) /\ 1 \in 1 .. N + 1
    BY <2>3 DEF Clear, Recs, Free
  <2>5. InOrder(page')
    BY <2>3, <2>4, ClearIsInOrder
  <2> QED
    BY <1>2, <2>1, <2>3, <2>4, <2>5, GoToKeeps
<1>9. CASE WriteRecord
  <2>1. PICK c \in Written(page.rec[slot], val) :
          /\ page' = [page EXCEPT !.rec[slot] = c]
          /\ \/ c = val /\ cache' = slot /\ Answer(TRUE)
             \/ c # val /\ GoTo(slot + 1) /\ failed' = failed
    BY <1>9 DEF WriteRecord
  <2>2. Tidy /\ op = "write"
    <3>1. ~failed
      BY <2>1, Zenon DEF Answer
    <3> QED
      BY <1>1, <1>9, <3>1 DEF WriteRecord
  <2>3. page'.hdr
    BY <1>2, <2>1, <2>2, TurnIs
  <2>4. CASE c = val /\ cache' = slot /\ Answer(TRUE)
    <3>1. InOrder(page') /\ Last(page') = slot
      BY <1>2, <2>1, <2>2, <2>4, TurnIs
    <3>2. op' = "idle"
      BY <2>4 DEF Answer
    <3> QED
      BY <2>3, <2>4, <3>1, <3>2 DEF Tidy
  <2>5. CASE c # val /\ GoTo(slot + 1)
    <3>1. InOrder(page') /\ Clear(page', slot + 1)
      BY <1>2, <2>1, <2>2, <2>5, TurnIs
    <3>2. slot + 1 \in 1 .. N + 1
      BY <1>2, <2>2 DEF SlotOK, Recs
    <3> QED
      BY <1>2, <2>3, <2>5, <3>1, <3>2, GoToKeeps
  <2> QED
    BY <2>1, <2>4, <2>5
<1>10. CASE WriteError \/ GiveUp
  BY <1>6, <1>10, Zenon DEF WriteError, GiveUp
<1>11. CASE Get
  <2>1. Tidy /\ page' = page /\ op' = op /\ op = "idle"
    BY <1>1, <1>11, Zenon DEF Get, setVars
  <2>2. PICK r \in GetResults(page, cache) : cache' = IF r = Failure THEN cache ELSE r.at
    BY <1>11 DEF Get
  <2>3. cache' # NoCache => page.hdr /\ Last(page) = cache'
    <3>1. CASE cache = NoCache
      BY <2>2, <3>1, GetSearches
    <3>2. CASE cache # NoCache
      <4>1. cache \in 0 .. N /\ page.hdr /\ cache = Last(page)
        BY <1>2, <2>1, <3>2 DEF TypeOK, Tidy
      <4> QED
        BY <2>2, <4>1, GetUsesCache
    <3> QED
      BY <3>1, <3>2
  <2> QED
    BY <2>1, <2>3 DEF Tidy
<1>12. CASE Reset
  <2>1. PICK g \in Interrupted : Boot(g) /\ failed' = (failed /\ ~InOrder(g))
    BY <1>12 DEF Reset
  <2>2. InOrder(g)
    <3>1. CASE failed
      BY <2>1, <3>1, Zenon
    <3>2. CASE ~failed
      BY <1>1, <1>2, <2>1, <3>2, InterruptedIs
    <3> QED
      BY <3>1, <3>2
  <2>3. page' = g
    BY <2>1 DEF Boot
  <2>4. cache' # NoCache => g.hdr /\ Last(g) = cache'
    BY <2>1, GetSearches DEF Boot, Failure
  <2> QED
    BY <1>12, <2>2, <2>3, <2>4 DEF Tidy, Reset
<1> QED
  BY <1>3, <1>4, <1>5, <1>7, <1>8, <1>9, <1>10, <1>11, <1>12 DEF Next, SetStep

LEMMA Invariant == Spec => []IInv
<1>1. Init => IInv
  BY InitOK
<1>2. IInv /\ [Next]_vars => IInv'
  <2> SUFFICES ASSUME IInv, [Next]_vars PROVE IInv'
    OBVIOUS
  <2>1. TypeOK' /\ SlotOK'
    BY TypeStep DEF IInv
  <2> QED
    BY <2>1, TidyStep DEF IInv
<1> QED
  BY <1>1, <1>2, PTL DEF Spec

\* The addresses tfdb_set computes stay within the page.
THEOREM TypeCorrect == Spec => []TypeOK
<1>1. IInv => TypeOK
  BY DEF IInv
<1> QED
  BY <1>1, Invariant, PTL

\* Until a set fails the cached address is the one a search would find, over
\* every sequence of sets, bad records and resets.
THEOREM CacheAgrees == Spec => []CacheCoherent
<1>1. IInv => CacheCoherent
  BY DEF IInv, TidyInv, Tidy, CacheCoherent, Last
<1> QED
  BY <1>1, Invariant, PTL

\* No value is written over.
THEOREM ValuesAreKept == Spec => []NeverOverwrites
<1>1. IInv => NeverOverwrites
  BY TfdbAssumption DEF IInv, SlotOK, TidyInv, Tidy, Clear, NeverOverwrites, Recs
<1> QED
  BY <1>1, Invariant, PTL

(***************************************************************************)
(* The page implements a durable register.                                 *)
(***************************************************************************)

LEMMA RegisterStep == IInv /\ [Next]_vars => [Register!Next]_<<Stored(page), ram, val, failed, unread>>
<1> USE TfdbAssumption
<1> DEFINE same == Stored(page') = Stored(page) /\ ram' = ram /\ val' = val /\ failed' = failed
                  /\ unread' = unread
<1> SUFFICES ASSUME IInv, [Next]_vars
             PROVE  Register!Next \/ same
  OBVIOUS
<1>1. TypeOK /\ SlotOK /\ (~failed => Tidy)
  BY DEF IInv, TidyInv
<1>2. Stored(page) \in Values \cup {None} /\ Stored(page') \in Values \cup {None}
      /\ Stored(Blank) = None
  BY StoredType, BlankIs DEF Blank, Free
<1>0. SetStep => unread' = unread
  BY DEF SetStep, Erase, WriteHeader, WriteRecord, WriteError, GiveUp
<1>3. CASE UNCHANGED vars
  BY <1>3 DEF vars, setVars
<1>4. ASSUME NEW v \in Values, SetBegin(v) PROVE Register!Begin(v)
  BY <1>1, <1>4 DEF SetBegin, Register!Begin, TypeOK
<1>5. CASE SetUnread
  <2>1. Register!Fail
    BY <1>1, <1>5 DEF SetUnread, setVars, Register!Fail, TypeOK
  <2> QED
    BY <2>1 DEF Register!Next
<1>6. CASE Get
  BY <1>6 DEF Get, setVars
\* After a failed set nothing is promised of the steps of the sets that follow.
<1>7. CASE failed /\ SetStep
  <2>1. op # "idle" /\ val # None
    BY <1>1, <1>7 DEF SetStep, Erase, WriteHeader, WriteRecord, WriteError, GiveUp, TypeOK
  <2>2. failed' /\ ram' \in {ram, val} /\ val' \in {val, None}
    BY <1>7, Zenon DEF SetStep, Erase, WriteHeader, WriteRecord, WriteError, GiveUp, Answer
  <2>3. failed' = failed
    BY <1>1, <1>7, <2>2 DEF SetStep, Erase, WriteHeader, WriteRecord, WriteError, GiveUp, Answer, TypeOK
  <2>4. Register!Muddle
    BY <1>2, <1>7, <1>0, <2>1, <2>2, <2>3 DEF Register!Muddle
  <2> QED
    BY <2>4 DEF Register!Next
<1>8. Answer(FALSE) /\ Stored(page') \in {Stored(page), val, None} /\ unread' = unread
        => Register!Fail
  <2> SUFFICES ASSUME Answer(FALSE), Stored(page') \in {Stored(page), val, None}, unread' = unread
               PROVE  Register!Fail
    OBVIOUS
  <2>1. failed' = TRUE
    BY Zenon DEF Answer
  <2>2. ram' = ram /\ val' = None
    BY DEF Answer
  <2> QED
    BY <2>1, <2>2 DEF Register!Fail
<1>9. CASE ~failed /\ Erase
  <2>1. CASE page' = Blank /\ UNCHANGED <<ram, val, failed>>
    <3>1. Register!Recycle
      BY <1>1, <1>2, <1>9, <2>1 DEF Erase, Register!Recycle, TypeOK
    <3> QED
      BY <3>1 DEF Register!Next
  <2>2. CASE page' \in {page, Blank} /\ Answer(FALSE)
    BY <1>2, <1>8, <1>9, <1>0, <2>2 DEF Register!Next, SetStep
  <2> QED
    BY <1>9, <2>1, <2>2 DEF Erase
<1>10. CASE ~failed /\ WriteHeader
  <2>1. page = Blank
    BY <1>1, <1>10 DEF WriteHeader, Tidy
  <2>2. Stored(page') = None /\ Stored(page) = None
    <3>1. PICK h \in BOOLEAN : page' = [page EXCEPT !.hdr = h]
      BY <1>10 DEF WriteHeader
    <3>2. Stored(page') = None
      BY <2>1, <3>1, BlankIs DEF Blank, Free
    <3> QED
      BY <1>2, <2>1, <3>2
  <2>3. CASE UNCHANGED <<ram, val, failed>>
    BY <1>10, <1>0, <2>2, <2>3 DEF SetStep
  <2>4. CASE Answer(FALSE)
    BY <1>8, <1>10, <1>0, <2>2, <2>4 DEF Register!Next, SetStep
  <2> QED
    BY <1>10, <2>3, <2>4 DEF WriteHeader
<1>11. CASE ~failed /\ WriteRecord
  <2>1. PICK c \in Written(page.rec[slot], val) :
          /\ page' = [page EXCEPT !.rec[slot] = c]
          /\ \/ c = val /\ Answer(TRUE)
             \/ c # val /\ UNCHANGED <<ram, val, failed>>
    BY <1>11 DEF WriteRecord
  <2>2. op = "write" /\ val # None
    BY <1>1, <1>11 DEF WriteRecord, TypeOK
  <2>3. CASE c = val /\ Answer(TRUE)
    <3>1. Stored(page') = val
      BY <1>1, <1>11, <2>1, <2>2, <2>3, TurnIs
    <3>2. ram' = val /\ val' = None
      BY <2>3 DEF Answer
    <3>3. failed' = failed
      BY <1>1, <2>3, Zenon DEF Answer, TypeOK
    <3>4. Register!Commit
      BY <1>11, <1>0, <2>2, <3>1, <3>2, <3>3 DEF Register!Commit, SetStep
    <3> QED
      BY <3>4 DEF Register!Next
  <2>4. CASE c # val /\ UNCHANGED <<ram, val, failed>>
    BY <1>1, <1>11, <1>0, <2>1, <2>2, <2>4, TurnIs DEF SetStep
  <2> QED
    BY <2>1, <2>3, <2>4
<1>12. CASE ~failed /\ WriteError
  <2>1. PICK c \in Written(page.rec[slot], val) \cup {page.rec[slot]} :
          page' = [page EXCEPT !.rec[slot] = c]
    BY <1>12 DEF WriteError
  <2>2. op = "write" /\ Answer(FALSE)
    BY <1>12 DEF WriteError
  <2>3. Stored(page') \in {Stored(page), val}
    BY <1>1, <1>12, <2>1, <2>2, WriteLeaves
  <2> QED
    BY <1>8, <1>12, <1>0, <2>2, <2>3 DEF Register!Next, SetStep
<1>13. CASE GiveUp
  BY <1>8, <1>13 DEF GiveUp, Register!Next
<1>14. CASE Reset
  <2>1. PICK g \in Interrupted : Boot(g) /\ failed' = (failed /\ ~InOrder(g))
    BY <1>14 DEF Reset
  <2>2. page' = g
    BY <2>1 DEF Boot
  <2>3. \/ /\ ram' = Stored(page') \/ (Stored(page') = None /\ ram' = Stray)
           /\ unread' = FALSE
        \/ ram' = None /\ unread' = TRUE
    <3>1. ASSUME NEW r \in GetResults(g, NoCache), ram' = r.val
          PROVE  ram' = Stored(page') \/ (Stored(page') = None /\ ram' = Stray)
      BY <2>2, <3>1, GetSearches DEF Failure
    <3> QED
      BY <2>1, <3>1, Zenon DEF Boot
  <2>4. val' = None
    BY <1>14 DEF Reset
  <2>5. failed' \in {FALSE, failed}
    BY <1>1, <2>1, Zenon DEF TypeOK
  <2>6. Stored(page') \in {Stored(page), val}
          \cup (IF val = None THEN {} ELSE IF failed THEN Values \cup {None} ELSE {None})
    <3>1. CASE op = "idle"
      BY <2>1, <2>2, <3>1 DEF Interrupted
    <3>2. CASE op # "idle" /\ failed
      BY <1>1, <1>2, <3>2 DEF TypeOK
    <3>3. CASE op # "idle" /\ ~failed
      BY <1>1, <2>1, <2>2, <3>3, InterruptedIs DEF TypeOK
    <3> QED
      BY <3>1, <3>2, <3>3
  <2>7. Register!Survives
    BY <2>4, <2>5, <2>6 DEF Register!Survives
  <2>8. Register!Reset \/ Register!ResetUnread
    BY <2>3, <2>7, Zenon DEF Register!Reset, Register!ResetUnread
  <2> QED
    BY <2>8 DEF Register!Next
<1> QED
  BY <1>3, <1>4, <1>5, <1>6, <1>7, <1>9, <1>10, <1>11, <1>12, <1>13, <1>14
  DEF Next, SetStep, Register!Next

\* A set answered OK survives every reset, one cut by a reset leaves the old
\* value, the new one or none, and the copy in RAM follows, unless the boot could
\* not read the page: for every size of page and however often writes and reads
\* fail.
THEOREM ImplementsRegister == Spec => RegisterRefined
<1>1. Init => Register!Init
  <2> SUFFICES ASSUME Init PROVE Register!Init
    OBVIOUS
  <2>1. Stored(page) = None
    BY BlankIs, TfdbAssumption DEF Init, Blank, Free
  <2> QED
    BY <2>1 DEF Init, Register!Init
<1>2. IInv /\ [Next]_vars => [Register!Next]_<<Stored(page), ram, val, failed, unread>>
  BY RegisterStep
<1> QED
  BY <1>1, <1>2, Invariant, PTL DEF Spec, RegisterRefined, Register!Spec, Register!vars

\* The erase that can lose the value is the last resort.
THEOREM LossIsLastResort == Spec => LostOnlyWhenFull
<1>1. IInv /\ [Next]_vars
        => [(~failed /\ Stored(page) # None /\ Stored(page)' = None)
              => \A i \in Recs : page.rec[i] # Free]_vars
  <2> USE TfdbAssumption
  <2> SUFFICES ASSUME IInv, [Next]_vars, ~failed, Stored(page) # None, Stored(page') = None
               PROVE  \A i \in Recs : page.rec[i] # Free
    OBVIOUS
  <2>1. TypeOK /\ SlotOK /\ Tidy
    BY DEF IInv, TidyInv
  <2>2. page' # page
    OBVIOUS
  <2>3. op # "idle" => val # None
    BY <2>1 DEF TypeOK
  <2>4. page.hdr
    BY DEF Stored
  <2>5. CASE op = "erase"
    BY <2>1, <2>4, <2>5 DEF Tidy
  <2>6. CASE op = "header"
    BY <2>1, <2>6, BlankIs DEF Tidy, Blank, Free
  <2>7. CASE op = "idle"
    <3>1. page' = page
      BY <2>7, <2>1, [Next]_vars
      DEF Next, SetStep, SetBegin, SetUnread, Erase, WriteHeader, WriteRecord, WriteError, GiveUp,
          Get, Reset, Boot, Interrupted, vars, setVars
    <3> QED
      BY <2>2, <3>1
  <2>8. CASE op = "write"
    <3>1. \/ page' = page
          \/ \E c \in {page.rec[slot]} \cup Written(page.rec[slot], val) \cup {Torn} :
               page' = [page EXCEPT !.rec[slot] = c]
      BY <2>8
      DEF Next, SetStep, SetBegin, SetUnread, Erase, WriteHeader, WriteRecord, WriteError, GiveUp,
          Get, Reset, Boot, Interrupted, vars, setVars
    <3>2. Stored(page') \in {Stored(page), val}
      BY <2>1, <2>8, <3>1, WriteLeaves
    <3> QED
      BY <2>3, <2>8, <3>2
  <2> QED
    BY <2>1, <2>5, <2>6, <2>7, <2>8 DEF TypeOK
<1> QED
  BY <1>1, Invariant, PTL DEF Spec, LostOnlyWhenFull

(***************************************************************************)
(* A set ends.                                                             *)
(***************************************************************************)

LEMMA StepsLeftIs ==
  ASSUME TypeOK
  PROVE  /\ op = "idle"   => StepsLeft = 0
         /\ op = "write"  => StepsLeft = 3 * (MaxRetry - tries) + 1
         /\ op = "header" => StepsLeft = 3 * (MaxRetry - tries) + 2
         /\ op = "erase"  => StepsLeft = 3 * (MaxRetry - tries) + 3
         /\ StepsLeft \in 0 .. 3 * MaxRetry + 3
         /\ op # "idle" => StepsLeft > 0
  BY TfdbAssumption DEF TypeOK, StepsLeft

LEMMA StepsLeftNext ==
  ASSUME TypeOK'
  PROVE  /\ op' = "idle"   => StepsLeft' = 0
         /\ op' = "write"  => StepsLeft' = 3 * (MaxRetry - tries') + 1
         /\ op' = "header" => StepsLeft' = 3 * (MaxRetry - tries') + 2
         /\ op' = "erase"  => StepsLeft' = 3 * (MaxRetry - tries') + 3
         /\ StepsLeft' \in Nat
  BY TfdbAssumption DEF TypeOK, StepsLeft

\* An answer and a reset leave no step; an erase leads to the header and the
\* header to a write, with the same number of attempts left; a write that does
\* not verify leads to another write or to an erase, with one attempt less.
LEMMA StepsGoDown ==
  ASSUME TypeOK, SlotOK, TypeOK', [Next]_vars, op # "idle"
  PROVE  UNCHANGED vars \/ StepsLeft' \in 0 .. StepsLeft - 1
<1> USE TfdbAssumption
<1>0. tries \in 0 .. MaxRetry /\ StepsLeft \in Nat /\ StepsLeft > 0 /\ StepsLeft' \in Nat
  BY StepsLeftIs, StepsLeftNext DEF TypeOK
<1>1. op' = "idle" => StepsLeft' \in 0 .. StepsLeft - 1
  BY <1>0, StepsLeftNext
<1>2. ASSUME NEW ok, Answer(ok) PROVE op' = "idle"
  BY <1>2 DEF Answer
<1>3. CASE WriteError \/ GiveUp \/ Reset
  BY <1>1, <1>2, <1>3 DEF WriteError, GiveUp, Reset
<1>4. CASE Erase
  <2>1. op = "erase" /\ (op' = "idle" \/ (op' = "header" /\ tries' = tries))
    BY <1>2, <1>4 DEF Erase
  <2> QED
    BY <1>0, <1>1, <2>1, StepsLeftIs, StepsLeftNext
<1>5. CASE WriteHeader
  <2>1. 1 \in 1 .. N + 1 /\ 1 # N + 1
    OBVIOUS
  <2>2. op = "header" /\ (op' = "idle" \/ (op' = "write" /\ tries' = tries))
    BY <1>2, <1>5, <2>1, GoToIs DEF WriteHeader
  <2> QED
    BY <1>0, <1>1, <2>2, StepsLeftIs, StepsLeftNext
<1>6. CASE WriteRecord
  <2>1. slot + 1 \in 1 .. N + 1 /\ op = "write"
    BY <1>6 DEF WriteRecord, SlotOK, Recs
  <2>2. op' = "idle" \/ (op' \in {"write", "erase"} /\ tries' = tries + 1)
    BY <1>2, <1>6, <2>1, GoToIs DEF WriteRecord
  <2> QED
    BY <1>0, <1>1, <2>1, <2>2, StepsLeftIs, StepsLeftNext
<1>7. CASE SetUnread \/ Get \/ \E v \in Values : SetBegin(v)
  BY <1>7 DEF SetUnread, Get, SetBegin
<1> QED
  BY <1>3, <1>4, <1>5, <1>6, <1>7 DEF Next, SetStep

\* No set goes round for ever, whatever fails: for every number of records and
\* of attempts each of its steps lowers the number of those it may still take.
THEOREM SetsAreBounded == Spec => SetIsBounded
<1>1. IInv /\ IInv' /\ [Next]_vars => [op # "idle" => StepsLeft' \in 0 .. StepsLeft - 1]_vars
  BY StepsGoDown DEF IInv
<1> QED
  BY <1>1, Invariant, PTL DEF Spec, SetIsBounded
=============================================================================

--------------------------- MODULE Command_proof ---------------------------
(* Theorems about Command, for every set of packages, every length of the  *)
(* buffer and every number of entries: what the parser reads, what it sets *)
(* and which handler runs.                                                 *)
EXTENDS Command, AtText_proof, SequenceTheorems

(***************************************************************************)
(* The buffer.                                                             *)
(***************************************************************************)

Buffers == {b \in [Indexes -> Chars] : b[BufLen - 1] = "NUL"}
Lines   == {t \in Seq(Chars) : Len(t) <= BufLen - 2}

LEMMA FilledHolds ==
  ASSUME NEW b \in Buffers, NEW t \in Lines
  PROVE  /\ Filled(b, t) \in Buffers
         /\ Len(t) \in Nat
         /\ \A i \in 0 .. Len(t) - 1 : Filled(b, t)[i] = t[i + 1]
         /\ Filled(b, t)[Len(t)] = "NUL"
<1> DEFINE f == Filled(b, t)
<1>1. Len(t) \in Nat /\ Len(t) <= BufLen - 2 /\ BufLen \in Nat /\ BufLen > 3
  BY CommandAssumption DEF Lines
<1>2. ASSUME NEW i \in Indexes
      PROVE  f[i] = (IF i < Len(t) THEN t[i + 1] ELSE IF i = Len(t) THEN "NUL" ELSE b[i])
  BY DEF Filled
<1>3. ASSUME NEW i \in Indexes PROVE f[i] \in Chars
  <2>1. CASE i < Len(t)
    <3>1. i + 1 \in 1 .. Len(t)
      BY <1>1, <2>1 DEF Indexes
    <3>2. t[i + 1] \in Chars
      BY <3>1, ElementOfSeq DEF Lines
    <3> QED
      BY <1>2, <2>1, <3>2
  <2>2. CASE ~(i < Len(t))
    <3>1. "NUL" \in Chars /\ b[i] \in Chars
      BY DEF Chars, Buffers
    <3> QED
      BY <1>2, <2>2, <3>1
  <2> QED
    BY <2>1, <2>2
<1>4. BufLen - 1 \in Indexes /\ Len(t) \in Indexes /\ \A i \in 0 .. Len(t) - 1 : i \in Indexes
  BY <1>1 DEF Indexes
<1>5. f[BufLen - 1] = "NUL"
  <2>1. ~(BufLen - 1 < Len(t)) /\ BufLen - 1 # Len(t)
    BY <1>1
  <2> QED
    BY <1>2, <1>4, <2>1 DEF Buffers
<1>6. f \in [Indexes -> Chars]
  <2>1. f = [i \in Indexes |-> f[i]]
    BY DEF Filled
  <2> HIDE DEF f
  <2> QED
    BY <1>3, <2>1
<1>7. ASSUME NEW i \in 0 .. Len(t) - 1 PROVE f[i] = t[i + 1]
  <2>1. i < Len(t)
    BY <1>1
  <2> QED
    BY <1>2, <1>4, <2>1
<1>8. f[Len(t)] = "NUL"
  <2>1. ~(Len(t) < Len(t))
    BY <1>1
  <2> QED
    BY <1>2, <1>4, <2>1
<1> QED
  BY <1>1, <1>5, <1>6, <1>7, <1>8 DEF Buffers

LEMMA EmptyBuffer == [i \in Indexes |-> "NUL"] \in Buffers
<1> DEFINE nul == [i \in Indexes |-> "NUL"]
<1>0. "NUL" \in Chars
  BY DEF Chars
<1>1. BufLen - 1 \in Indexes
  BY CommandAssumption DEF Indexes
<1>2. nul \in [Indexes -> Chars] /\ nul[BufLen - 1] = "NUL"
  BY <1>0, <1>1
<1> QED
  BY <1>2 DEF Buffers

LEMMA BufferDomain ==
  ASSUME NEW b \in Buffers
  PROVE  /\ DOMAIN b = 0 .. BufLen - 1 /\ DOMAIN b \subseteq Nat
         /\ b[BufLen - 1] = "NUL" /\ BufLen \in Nat /\ BufLen > 3
<1>1. BufLen \in Nat /\ BufLen > 3
  BY CommandAssumption
<1>2. DOMAIN b = 0 .. BufLen - 1 /\ b[BufLen - 1] = "NUL"
  BY DEF Buffers, Indexes
<1> QED
  BY <1>1, <1>2

(***************************************************************************)
(* The address: where it ends.                                             *)
(***************************************************************************)

MacEnd(b) == HexEnd(b, 3, MacLen, "COMMA")

LEMMA MacEnds ==
  ASSUME NEW b \in Buffers, NEW z \in 3 .. BufLen - 1, b[z] \in {"NUL", "COMMA"}
  PROVE  /\ MacEnd(b) \in 3 .. z
         /\ HexStops(b, 3, MacEnd(b), MacLen, "COMMA")
         /\ \A k \in 3 .. MacEnd(b) - 1 : ~HexStops(b, 3, k, MacLen, "COMMA")
<1>0. DOMAIN b = 0 .. BufLen - 1 /\ DOMAIN b \subseteq Nat
  BY BufferDomain, Zenon
<1>4. BufLen \in Nat
  BY BufferDomain, Zenon
<1>1. z \in Nat /\ z >= 3 /\ 3 \in Nat
  BY <1>4
<1>3. 3 .. z \subseteq DOMAIN b
  <2>1. 3 .. z \subseteq 0 .. BufLen - 1
    BY <1>4
  <2> QED
    BY <1>0, <2>1, Zenon
<1>2. HexStops(b, 3, z, MacLen, "COMMA")
  BY DEF HexStops
<1> QED
  BY <1>0, <1>1, <1>2, <1>3, HexEndExists, Zenon DEF MacEnd

\* Whatever the buffer holds, there is an end within it.
LEMMA MacEndsInside ==
  ASSUME NEW b \in Buffers
  PROVE  /\ MacEnd(b) \in 3 .. BufLen - 1
         /\ HexStops(b, 3, MacEnd(b), MacLen, "COMMA")
         /\ \A k \in 3 .. MacEnd(b) - 1 : ~HexStops(b, 3, k, MacLen, "COMMA")
<1>0. /\ DOMAIN b = 0 .. BufLen - 1 /\ DOMAIN b \subseteq Nat
      /\ b[BufLen - 1] = "NUL" /\ BufLen \in Nat /\ BufLen > 3
  BY BufferDomain, Zenon
<1>1. BufLen - 1 \in 3 .. BufLen - 1 /\ b[BufLen - 1] \in {"NUL", "COMMA"}
  BY <1>0
<1> QED
  BY <1>1, MacEnds, Zenon

LEMMA MacType ==
  ASSUME NEW b \in Buffers
  PROVE  MacOf(b) \in [1 .. Len(MacOf(b)) -> 0 .. 255]
<1>0. DOMAIN b \subseteq Nat
  BY BufferDomain, Zenon
<1>1. HexEnd(b, 3, MacLen, "COMMA") \in Int /\ 3 \in Nat
  <2>1. MacEnd(b) \in 3 .. BufLen - 1
    BY MacEndsInside, Zenon
  <2>2. MacEnd(b) \in Int
    BY <2>1
  <2> QED
    BY <2>2 DEF MacEnd
<1> QED
  BY <1>0, <1>1, AscToHexRange, Zenon DEF MacOf

(***************************************************************************)
(* The parser, argument by argument.                                       *)
(***************************************************************************)

PassOf(b)    == AscToInt(b, MacEnd(b) + 1, PassLen)
SelectOf(b)  == AscToInt(b, PassOf(b).end + 1, 1)
EnabledOf(b) == AscToInt(b, SelectOf(b).end + 1, 1)

LEMMA ParsedIs ==
  ASSUME NEW b
  PROVE  Parsed(b) = [mac |-> MacOf(b), pass |-> PassOf(b).val,
                      select |-> SelectOf(b).val, enabled |-> EnabledOf(b).val]
<1>1. AscToHex(b, 3, MacLen, "COMMA").end = MacEnd(b)
  BY AscToHexIs DEF MacEnd
<1> QED
  BY <1>1, Zenon DEF Parsed, MacOf, PassOf, SelectOf, EnabledOf

LEMMA EndsType ==
  ASSUME NEW b \in Buffers
  PROVE  MacEnd(b) \in Int /\ PassOf(b).end \in Int /\ SelectOf(b).end \in Int
<1>0. MacEnd(b) \in 3 .. BufLen - 1
  BY MacEndsInside, Zenon
<1>1. MacEnd(b) \in Int
  BY <1>0
<1>2. PassLen \in Nat
  BY CommandAssumption
<1>3. PassOf(b).end \in Int
  <2>1. MacEnd(b) + 1 \in Int
    BY <1>1
  <2>2. AscToInt(b, MacEnd(b) + 1, PassLen).end \in MacEnd(b) + 1 .. MacEnd(b) + 1 + PassLen + 1
    BY <1>2, <2>1, AscToIntRange
  <2> QED
    BY <2>2 DEF PassOf
<1>4. SelectOf(b).end \in Int
  <2>1. PassOf(b).end + 1 \in Int /\ 1 \in Nat
    BY <1>3
  <2>2. AscToInt(b, PassOf(b).end + 1, 1).end \in PassOf(b).end + 1 .. PassOf(b).end + 1 + 1 + 1
    BY <2>1, AscToIntRange
  <2> QED
    BY <2>2 DEF SelectOf
<1> QED
  BY <1>1, <1>3, <1>4

LEMMA ParsedType ==
  ASSUME NEW b \in Buffers, Len(MacOf(b)) = MacLen
  PROVE  Parsed(b) \in Items
<1>1. MacOf(b) \in [1 .. MacLen -> 0 .. 255]
  BY MacType
<1>2. PassOf(b).val \in Nat
  <2>1. MacEnd(b) + 1 \in Int /\ PassLen \in Nat
    BY EndsType, CommandAssumption
  <2> QED
    BY <2>1, AscToIntRange DEF PassOf
<1>3. SelectOf(b).val \in 0 .. 99
  <2>1. PassOf(b).end + 1 \in Int /\ 1 \in Nat /\ 1 <= 1
    BY EndsType
  <2> QED
    BY <2>1, AscToIntRange DEF SelectOf
<1>4. EnabledOf(b).val \in 0 .. 99
  <2>1. SelectOf(b).end + 1 \in Int /\ 1 \in Nat /\ 1 <= 1
    BY EndsType
  <2> QED
    BY <2>1, AscToIntRange DEF EnabledOf
<1> QED
  BY <1>1, <1>2, <1>3, <1>4, ParsedIs DEF Items

LEMMA NumberType ==
  ASSUME NEW b
  PROVE  Number(b) \in Nat
<1> DEFINE n == RunLen(b, 1, BufLen - 1)
<1>1. BufLen - 1 \in Nat
  BY CommandAssumption
<1>2. n \in Nat /\ \A k \in 0 .. n - 1 : b[1 + k] \in Digits
  BY <1>1, RunLenExists
<1>3. Decimal(b, 1, n) \in Nat
  BY <1>2, DecimalRange
<1> QED
  BY <1>3, Zenon DEF Number, Atoi

(***************************************************************************)
(* Steps.                                                                  *)
(***************************************************************************)

LEMMA PackageLines ==
  ASSUME NEW p \in Packages
  PROVE  p[1] \in Names /\ p[2] \in Lines
BY CommandAssumption DEF Names, Lines

\* A package is refused, handled elsewhere, or sets the entry it names.
LEMMA PackageSteps ==
  ASSUME NEW n, NEW t, Package(n, t)
  PROVE  /\ name' = n /\ text' = t /\ buf' = Filled(buf, t) /\ lookup' = lookup
         /\ \/ ran' = "" /\ (EndsLine(t) => lookup[n] = {})
            \/ ran' \in lookup[n] /\ EndsLine(t)
         /\ \/ answer' \in {"ERR:01", "ERR:02", "ERR", "other"} /\ peers' = peers
            \/ /\ answer' = "OK" /\ ran' = "setconnect" /\ EndsLine(t)
               /\ buf'[0] = "EQ" /\ Number(buf') < Conns /\ Len(MacOf(buf')) = MacLen
               /\ peers' = [peers EXCEPT ![Number(buf')] = Parsed(buf')]
<1>1. name' = n /\ text' = t /\ buf' = Filled(buf, t) /\ lookup' = lookup
  BY Zenon DEF Package
<1>2. /\ \/ ran' = "" /\ (EndsLine(t) => lookup[n] = {})
         \/ ran' \in lookup[n] /\ EndsLine(t)
      /\ \/ answer' \in {"ERR:01", "ERR:02", "other"} /\ peers' = peers
         \/ ran' = "setconnect" /\ SetConnect(buf') /\ EndsLine(t)
  BY Zenon DEF Package
<1>3. ASSUME SetConnect(buf')
      PROVE  \/ answer' \in {"ERR:02", "ERR"} /\ peers' = peers
             \/ /\ answer' = "OK"
                /\ buf'[0] = "EQ" /\ ~(Number(buf') >= Conns) /\ Len(MacOf(buf')) = MacLen
                /\ peers' = [peers EXCEPT ![Number(buf')] = Parsed(buf')]
  BY <1>3, Zenon DEF SetConnect
<1>4. ~(Number(buf') >= Conns) => Number(buf') < Conns
  <2>1. Number(buf') \in Nat /\ Conns \in Nat
    BY NumberType, CommandAssumption
  <2> QED
    BY <2>1
<1> QED
  BY <1>1, <1>2, <1>3, <1>4, Zenon

-----------------------------------------------------------------------------
(* Type correctness *)

\* The lookups are those of the commands.
LookupFixed == lookup = [n \in Names |-> Matches(n)]

LEMMA TypeInit == Init => TypeOK /\ LookupFixed
<1> SUFFICES ASSUME Init PROVE TypeOK /\ LookupFixed
  OBVIOUS
<1>1. buf \in Buffers
  BY EmptyBuffer DEF Init
<1>2. peers \in [0 .. Conns - 1 -> Items \cup {Nobody}]
  BY DEF Init
<1> QED
  BY <1>1, <1>2 DEF Init, TypeOK, LookupFixed, Buffers

LEMMA TypeStep == TypeOK /\ LookupFixed /\ [Next]_vars => TypeOK' /\ LookupFixed'
<1> SUFFICES ASSUME TypeOK, LookupFixed, [Next]_vars PROVE TypeOK' /\ LookupFixed'
  OBVIOUS
<1>0. buf \in Buffers
  BY DEF TypeOK, Buffers
<1>1. CASE UNCHANGED vars
  BY <1>1 DEF vars, TypeOK, LookupFixed
<1>2. ASSUME NEW p \in Packages, Package(p[1], p[2]) PROVE TypeOK' /\ LookupFixed'
  <2>1. p[1] \in Names /\ p[2] \in Lines
    BY PackageLines
  <2>2. buf' \in Buffers
    <3>1. buf' = Filled(buf, p[2])
      BY <1>2, PackageSteps
    <3> QED
      BY <1>0, <2>1, <3>1, FilledHolds
  <2>3. ran' \in AtCommands \cup {""}
    <3>1. ran' = "" \/ ran' \in lookup[p[1]]
      BY <1>2, PackageSteps, Zenon
    <3>2. lookup[p[1]] \subseteq AtCommands
      BY <2>1 DEF LookupFixed, Matches
    <3> QED
      BY <3>1, <3>2
  <2>4. \/ answer' \in {"ERR:01", "ERR:02", "ERR", "other"} /\ peers' = peers
        \/ /\ answer' = "OK" /\ Number(buf') < Conns /\ Len(MacOf(buf')) = MacLen
           /\ peers' = [peers EXCEPT ![Number(buf')] = Parsed(buf')]
    BY <1>2, PackageSteps, Zenon
  <2>5. peers' \in [0 .. Conns - 1 -> Items \cup {Nobody}]
    <3>1. CASE peers' = peers
      BY <3>1 DEF TypeOK
    <3>2. CASE /\ Len(MacOf(buf')) = MacLen
               /\ peers' = [peers EXCEPT ![Number(buf')] = Parsed(buf')]
      <4>1. Parsed(buf') \in Items
        BY <2>2, <3>2, ParsedType
      <4> QED
        BY <3>2, <4>1 DEF TypeOK
    <3> QED
      BY <2>4, <3>1, <3>2
  <2>6. answer' \in {"", "OK", "ERR", "ERR:01", "ERR:02", "other"}
    BY <2>4
  <2>7. LookupFixed'
    <3>1. lookup' = lookup
      BY <1>2, PackageSteps, Zenon
    <3> QED
      BY <3>1 DEF LookupFixed
  <2> QED
    BY <2>2, <2>3, <2>5, <2>6, <2>7 DEF TypeOK, Buffers
<1> QED
  BY <1>1, <1>2 DEF Next

\* Whatever packages come, the buffer keeps a terminator at its end, and an
\* entry of PeerAddrDef is empty or holds a whole address and numbers that fit.
THEOREM TypeCorrect == Spec => []TypeOK
<1>1. Spec => [](TypeOK /\ LookupFixed)
  BY TypeInit, TypeStep, PTL DEF Spec
<1> QED
  BY <1>1, PTL

-----------------------------------------------------------------------------
(* A refused command *)

\* A command that is not answered with OK changes no entry (at_cmd.c:448).
THEOREM RefusedSetsNothing == Spec => RefusedKeeps
<1>1. [Next]_vars => [answer' # "OK" => peers' = peers]_vars
  <2> SUFFICES ASSUME Next PROVE answer' # "OK" => peers' = peers
    OBVIOUS
  <2>1. PICK p \in Packages : Package(p[1], p[2])
    BY DEF Next
  <2> QED
    BY <2>1, PackageSteps, Zenon
<1> QED
  BY <1>1, PTL DEF Spec, RefusedKeeps

-----------------------------------------------------------------------------
(* The lookup *)

LEMMA HashSame ==
  ASSUME NEW m, NEW n, Len(m) = Len(n), Differ(m, n) = {}
  PROVE  Hash(m) = Hash(n)
<1> DEFINE After(f, s) ==
             [i \in 0 .. Len(s) |->
                IF i = 0 THEN {<<0, 0>>}
                ELSE {HashStep(h, AsciiUpper(Letter(s, i))) : h \in f[i - 1]}]
<1>1. ASSUME NEW i \in 0 .. Len(m), i # 0
      PROVE  AsciiUpper(Letter(m, i)) = AsciiUpper(Letter(n, i))
  <2>1. i \in 1 .. Len(m)
    BY <1>1
  <2> QED
    BY <2>1 DEF Differ
<1>2. ASSUME NEW f PROVE After(f, m) = After(f, n)
  <2> DEFINE value(s, i) == IF i = 0 THEN {<<0, 0>>}
                            ELSE {HashStep(h, AsciiUpper(Letter(s, i))) : h \in f[i - 1]}
  <2>1. ASSUME NEW i \in 0 .. Len(m) PROVE value(m, i) = value(n, i)
    <3>1. CASE i = 0
      BY <3>1, Zenon
    <3>2. CASE i # 0
      <4>1. AsciiUpper(Letter(m, i)) = AsciiUpper(Letter(n, i))
        BY <1>1, <3>2, Zenon
      <4> QED
        BY <4>1, Zenon
    <3> QED
      BY <3>1, <3>2
  <2>2. After(f, m) = [i \in 0 .. Len(m) |-> value(m, i)] /\ After(f, n) = [i \in 0 .. Len(m) |-> value(n, i)]
    BY Zenon
  <2> HIDE DEF value, After
  <2> QED
    BY <2>1, <2>2, Zenon
<1>3. /\ Hash(m) = (CHOOSE f : f = After(f, m))[Len(m)]
      /\ Hash(n) = (CHOOSE f : f = After(f, n))[Len(n)]
  BY Zenon DEF Hash
<1> HIDE DEF After
<1>4. (CHOOSE f : f = After(f, m)) = (CHOOSE f : f = After(f, n))
  BY <1>2, Zenon
<1> QED
  BY <1>3, <1>4, Zenon

\* The comparison reads a difference of the first letter as none.
LEMMA MemcmpZero ==
  ASSUME NEW m, NEW n, Memcmp(m, n) = 0
  PROVE  Differ(m, n) = {} \/ 1 \in Differ(m, n)
<1> SUFFICES ASSUME Differ(m, n) # {} PROVE 1 \in Differ(m, n)
  OBVIOUS
<1>1. Differ(m, n) \subseteq Nat
  BY DEF Differ
<1>2. PICK i \in Differ(m, n) : \A j \in Differ(m, n) : i <= j
  BY <1>1, Least
<1> DEFINE first == CHOOSE k \in Differ(m, n) : \A j \in Differ(m, n) : k <= j
<1>3. first \in Differ(m, n)
  BY <1>2, Zenon
<1>4. first - 1 = 0
  BY Zenon DEF Memcmp
<1> HIDE DEF first
<1>5. first = 1
  BY <1>1, <1>3, <1>4
<1> QED
  BY <1>3, <1>5

LEMMA MatchesOwn ==
  ASSUME NEW s, NEW n \in AtCommands, Len(s) = Len(n), Differ(s, n) = {}
  PROVE  Matches(s) = {n}
<1>1. n \in Matches(s)
  <2>1. Memcmp(s, n) = 0
    BY DEF Memcmp
  <2>2. Hash(n) = Hash(s)
    BY HashSame, Zenon
  <2> QED
    BY <2>1, <2>2 DEF Matches
<1>2. ASSUME NEW x \in Matches(s) PROVE x = n
  <2>1. x \in AtCommands /\ Len(x) = Len(n) /\ Hash(x) = Hash(n)
    BY <1>1 DEF Matches
  <2> QED
    BY <2>1, HashesDistinct, Zenon
<1> QED
  BY <1>1, <1>2

\* A command runs its own handler and no other, however its letters are cased,
\* and a handler that runs for another name differs from it in the first letter
\* (simplehash.c:60, hash-match.c:95).
THEOREM OwnHandlerRuns == Spec => []NameRuns
<1>1. Init => NameRuns
  <2> SUFFICES ASSUME Init PROVE NameRuns
    OBVIOUS
  <2>1. text = << >> /\ ran = ""
    BY DEF Init
  <2>2. ~EndsLine(text)
    <3>1. Len(text) = 0
      BY <2>1
    <3> QED
      BY <3>1 DEF EndsLine
  <2> QED
    BY <2>1, <2>2, Zenon DEF NameRuns
<1>2. LookupFixed /\ NameRuns /\ [Next]_vars => NameRuns'
  <2> SUFFICES ASSUME LookupFixed, NameRuns, [Next]_vars PROVE NameRuns'
    OBVIOUS
  <2>1. CASE UNCHANGED vars
    <3>1. name' = name /\ text' = text /\ ran' = ran
      BY <2>1 DEF vars
    <3> QED
      BY <3>1, Zenon DEF NameRuns
  <2>2. ASSUME NEW p \in Packages, Package(p[1], p[2]) PROVE NameRuns'
    <3>1. p[1] \in Names
      BY PackageLines
    <3>2. lookup[p[1]] = Matches(p[1])
      BY <3>1 DEF LookupFixed
    <3>3. /\ name' = p[1] /\ text' = p[2]
          /\ \/ ran' = "" /\ (EndsLine(p[2]) => Matches(p[1]) = {})
             \/ ran' \in Matches(p[1]) /\ EndsLine(p[2])
      BY <2>2, <3>2, PackageSteps, Zenon
    <3>4. ASSUME NEW n \in AtCommands,
                 EndsLine(text'), Len(name') = Len(n), Differ(name', n) = {}
          PROVE  ran' = n
      <4>1. Matches(p[1]) = {n}
        BY <3>3, <3>4, MatchesOwn, Zenon
      <4> QED
        BY <3>3, <3>4, <4>1
    <3>5. ASSUME ran' # ""
          PROVE  Len(name') = Len(ran') /\ (Differ(name', ran') = {} \/ 1 \in Differ(name', ran'))
      <4>1. ran' \in Matches(name')
        BY <3>3, <3>5
      <4>2. Len(ran') = Len(name') /\ Memcmp(name', ran') = 0
        BY <4>1 DEF Matches
      <4> QED
        BY <4>2, MemcmpZero, Zenon
    <3> QED
      BY <3>4, <3>5, Zenon DEF NameRuns
  <2> QED
    BY <2>1, <2>2 DEF Next
<1>3. Spec => [](TypeOK /\ LookupFixed)
  BY TypeInit, TypeStep, PTL DEF Spec
<1> QED
  BY <1>1, <1>2, <1>3, PTL DEF Spec

-----------------------------------------------------------------------------
(* What a line's arguments are taken from *)

LEMMA FilledAgree ==
  ASSUME NEW b \in Buffers, NEW c \in Buffers, NEW t \in Lines
  PROVE  \A i \in 0 .. Len(t) : Filled(b, t)[i] = Filled(c, t)[i]
<1>1. /\ Len(t) \in Nat
      /\ \A i \in 0 .. Len(t) - 1 : Filled(b, t)[i] = t[i + 1]
      /\ Filled(b, t)[Len(t)] = "NUL"
  BY FilledHolds, Zenon
<1>2. /\ \A i \in 0 .. Len(t) - 1 : Filled(c, t)[i] = t[i + 1]
      /\ Filled(c, t)[Len(t)] = "NUL"
  BY FilledHolds, Zenon
<1>3. \A i \in 0 .. Len(t) : i \in 0 .. Len(t) - 1 \/ i = Len(t)
  BY <1>1
<1> QED
  BY <1>1, <1>2, <1>3, Zenon

LEMMA LineEnd ==
  ASSUME NEW b \in Buffers, NEW t \in Lines, EndsLine(t)
  PROVE  /\ Len(t) \in Nat /\ Len(t) >= 2 /\ Len(t) <= BufLen - 2 /\ BufLen \in Nat
         /\ Filled(b, t)[0] = t[1]
         /\ Filled(b, t)[Len(t) - 2] = "CR" /\ Filled(b, t)[Len(t) - 1] = "LF"
         /\ Filled(b, t)[Len(t)] = "NUL"
<1>1. /\ Len(t) \in Nat
      /\ \A i \in 0 .. Len(t) - 1 : Filled(b, t)[i] = t[i + 1]
      /\ Filled(b, t)[Len(t)] = "NUL"
  BY FilledHolds, Zenon
<1>2. Len(t) >= 2 /\ t[Len(t) - 1] = "CR" /\ t[Len(t)] = "LF"
  BY DEF EndsLine
<1>3. Len(t) <= BufLen - 2 /\ BufLen \in Nat
  BY CommandAssumption DEF Lines
<1>4. /\ 0 \in 0 .. Len(t) - 1 /\ Len(t) - 2 \in 0 .. Len(t) - 1 /\ Len(t) - 1 \in 0 .. Len(t) - 1
      /\ 0 + 1 = 1 /\ (Len(t) - 2) + 1 = Len(t) - 1 /\ (Len(t) - 1) + 1 = Len(t)
  BY <1>1, <1>2
<1>5. /\ Filled(b, t)[0] = t[0 + 1] /\ Filled(b, t)[Len(t) - 2] = t[(Len(t) - 2) + 1]
      /\ Filled(b, t)[Len(t) - 1] = t[(Len(t) - 1) + 1]
  BY <1>1, <1>4, Zenon
<1> QED
  BY <1>1, <1>2, <1>3, <1>4, <1>5

LEMMA NoDigits ==
  "CR" \notin Digits /\ "LF" \notin Digits /\ "NUL" \notin Digits /\ "COMMA" \notin Digits
BY DEF Digits

LEMMA NumberSame ==
  ASSUME NEW b, NEW c, NEW z \in Nat \ {0}, z <= BufLen - 1, b[z] \notin Digits,
         \A k \in 1 .. z : b[k] = c[k]
  PROVE  Number(c) = Number(b)
<1> DEFINE limit == BufLen - 1
           n == RunLen(b, 1, limit)
<1>0. limit \in Nat
  BY CommandAssumption
<1>1. /\ n \in 0 .. limit
      /\ \A k \in 0 .. n - 1 : b[1 + k] \in Digits
      /\ n < limit => b[1 + n] \notin Digits
  BY <1>0, RunLenExists
<1> HIDE DEF n
<1>2. n <= z - 1
  <2> SUFFICES ASSUME ~(n <= z - 1) PROVE FALSE
    OBVIOUS
  <2>1. z - 1 \in 0 .. n - 1 /\ 1 + (z - 1) = z
    BY <1>0, <1>1
  <2> QED
    BY <1>1, <2>1
<1>3. ASSUME NEW k \in 0 .. n PROVE b[1 + k] = c[1 + k]
  <2>1. 1 + k \in 1 .. z
    BY <1>0, <1>1, <1>2
  <2> QED
    BY <2>1
<1>4. RunLen(c, 1, limit) = n
  <2>1. \A k \in 0 .. n - 1 : k \in 0 .. n
    BY <1>0, <1>1
  <2>2. n \in 0 .. n
    BY <1>0, <1>1
  <2>3. \A k \in 0 .. n - 1 : c[1 + k] \in Digits
    BY <1>1, <1>3, <2>1
  <2>4. n < limit => c[1 + n] \notin Digits
    BY <1>1, <1>3, <2>2
  <2> HIDE DEF limit
  <2> QED
    BY <1>0, <1>1, <2>3, <2>4, RunLenIs
<1>5. Decimal(b, 1, n) = Decimal(c, 1, n)
  <2>1. n \in Nat /\ \A k \in 0 .. n - 1 : k \in 0 .. n
    BY <1>0, <1>1
  <2>2. \A k \in 0 .. n - 1 : b[1 + k] = c[1 + k]
    BY <1>3, <2>1
  <2> QED
    BY <2>1, <2>2, DecimalSame
<1>6. Number(b) = Decimal(b, 1, n) /\ Number(c) = Decimal(c, 1, n)
  BY <1>4, Zenon DEF Number, Atoi, n
<1> QED
  BY <1>5, <1>6

Agree(b, c, z) == \A k \in 0 .. z : b[k] = c[k]

LEMMA AgreeLess ==
  ASSUME NEW b, NEW c, NEW z \in Nat, NEW x \in Nat, x <= z, Agree(b, c, z)
  PROVE  Agree(b, c, x)
BY DEF Agree

LEMMA ArgumentSame ==
  ASSUME NEW b, NEW c, NEW i \in Nat, NEW maxLen \in Nat, NEW z \in Nat, i <= z,
         b[z] \notin Digits, Agree(b, c, z)
  PROVE  /\ AscToInt(c, i, maxLen) = AscToInt(b, i, maxLen)
         /\ AscToInt(b, i, maxLen).end \in Nat /\ AscToInt(b, i, maxLen).end <= z
<1>1. AscToInt(b, i, maxLen).end \in i .. z
  <2>1. i \in Int /\ z \in Int
    OBVIOUS
  <2> QED
    BY <2>1, AscToIntStops, Zenon
<1>2. \A k \in i .. AscToInt(b, i, maxLen).end : b[k] = c[k]
  BY <1>1 DEF Agree
<1>3. AscToInt(c, i, maxLen) = AscToInt(b, i, maxLen)
  <2>1. i \in Int
    OBVIOUS
  <2> QED
    BY <1>2, <2>1, AscToIntSame, Zenon
<1> QED
  BY <1>1, <1>3

LEMMA MacSame ==
  ASSUME NEW b \in Buffers, NEW c \in Buffers, NEW z \in 3 .. BufLen - 1,
         b[z] \in {"NUL", "COMMA"}, Agree(b, c, z)
  PROVE  MacOf(c) = MacOf(b) /\ MacEnd(c) = MacEnd(b) /\ MacEnd(b) \in 3 .. z
<1>1. PICK e \in 3 .. z :
        /\ e = MacEnd(b)
        /\ HexStops(b, 3, e, MacLen, "COMMA")
        /\ \A k \in 3 .. e - 1 : ~HexStops(b, 3, k, MacLen, "COMMA")
  BY MacEnds, Zenon
<1>2. \A k \in 3 .. e : b[k] = c[k]
  BY DEF Agree
<1>3. DOMAIN b \subseteq Nat /\ DOMAIN c \subseteq Nat
  BY BufferDomain, Zenon
<1>4. e \in DOMAIN c
  <2>1. BufLen \in Nat
    BY CommandAssumption
  <2>3. DOMAIN c = 0 .. BufLen - 1
    BY BufferDomain, Zenon
  <2>2. e \in 0 .. BufLen - 1
    BY <2>1
  <2> QED
    BY <2>2, <2>3, Zenon
<1>5. e >= 3 /\ 3 \in Nat
  OBVIOUS
<1>6. HexEnd(b, 3, MacLen, "COMMA") = e
  BY <1>1, Zenon DEF MacEnd
<1>7. AscToHex(c, 3, MacLen, "COMMA") = AscToHex(b, 3, MacLen, "COMMA")
  BY <1>1, <1>2, <1>3, <1>4, <1>5, <1>6, AscToHexSame
<1>8. AscToHex(b, 3, MacLen, "COMMA").end = MacEnd(b)
  BY AscToHexIs DEF MacEnd
<1>9. AscToHex(c, 3, MacLen, "COMMA").end = MacEnd(c)
  BY AscToHexIs DEF MacEnd
<1> QED
  BY <1>1, <1>7, <1>8, <1>9, Zenon DEF MacOf

\* A comma at the address or behind it keeps each argument before the terminator.
LEMMA ParsedSame ==
  ASSUME NEW b \in Buffers, NEW c \in Buffers, NEW cr \in Nat, cr + 2 <= BufLen - 1,
         b[cr] \notin Digits, b[cr + 1] \notin Digits, b[cr + 2] \notin Digits,
         NEW z \in 3 .. cr - 1, b[z] = "COMMA", Agree(b, c, cr + 2)
  PROVE  Parsed(c) = Parsed(b)
<1>0. /\ BufLen \in Nat /\ PassLen \in Nat /\ 1 \in Nat
      /\ cr + 1 \in Nat /\ cr + 2 \in Nat /\ z \in Nat
      /\ z <= cr + 2 /\ cr <= cr + 2 /\ cr + 1 <= cr + 2
  BY CommandAssumption
<1>1. Agree(b, c, z) /\ Agree(b, c, cr) /\ Agree(b, c, cr + 1)
  BY <1>0, AgreeLess, Zenon
<1>2. MacOf(c) = MacOf(b) /\ MacEnd(c) = MacEnd(b) /\ MacEnd(b) \in 3 .. z
  <2>1. z \in 3 .. BufLen - 1 /\ b[z] \in {"NUL", "COMMA"}
    BY <1>0
  <2> QED
    BY <1>1, <2>1, MacSame, Zenon
<1>3. /\ PassOf(c) = PassOf(b)
      /\ PassOf(b).end \in Nat /\ PassOf(b).end <= cr
  <2>1. MacEnd(b) + 1 \in Nat /\ MacEnd(b) + 1 <= cr
    BY <1>2
  <2>2. PICK i \in Nat : i = MacEnd(b) + 1
    BY <2>1
  <2>3. i <= cr
    BY <2>1, <2>2
  <2>4. /\ AscToInt(c, i, PassLen) = AscToInt(b, i, PassLen)
        /\ AscToInt(b, i, PassLen).end \in Nat /\ AscToInt(b, i, PassLen).end <= cr
    BY <1>0, <1>1, <2>3, ArgumentSame
  <2> QED
    BY <1>2, <2>2, <2>4, Zenon DEF PassOf
<1>4. /\ SelectOf(c) = SelectOf(b)
      /\ SelectOf(b).end \in Nat /\ SelectOf(b).end <= cr + 1
  <2>1. PassOf(b).end + 1 \in Nat /\ PassOf(b).end + 1 <= cr + 1
    BY <1>3
  <2>2. PICK i \in Nat : i = PassOf(b).end + 1
    BY <2>1
  <2>3. i <= cr + 1
    BY <2>1, <2>2
  <2>4. /\ AscToInt(c, i, 1) = AscToInt(b, i, 1)
        /\ AscToInt(b, i, 1).end \in Nat /\ AscToInt(b, i, 1).end <= cr + 1
    BY <1>0, <1>1, <2>3, ArgumentSame
  <2> QED
    BY <1>3, <2>2, <2>4, Zenon DEF SelectOf
<1>5. EnabledOf(c) = EnabledOf(b)
  <2>1. SelectOf(b).end + 1 \in Nat /\ SelectOf(b).end + 1 <= cr + 2
    BY <1>4
  <2>2. PICK i \in Nat : i = SelectOf(b).end + 1
    BY <2>1
  <2>3. i <= cr + 2
    BY <2>1, <2>2
  <2>4. /\ AscToInt(c, i, 1) = AscToInt(b, i, 1)
        /\ AscToInt(b, i, 1).end \in Nat /\ AscToInt(b, i, 1).end <= cr + 2
    BY <1>0, <1>1, <2>3, ArgumentSame
  <2> QED
    BY <1>4, <2>2, <2>4, Zenon DEF EnabledOf
<1> QED
  BY <1>2, <1>3, <1>4, <1>5, ParsedIs, Zenon

\* A line that has a comma where its address begins or further on is taken on
\* its own, whatever longer ones have left behind it in data[] (at_cmd.c:448,
\* uart_interface.c:161).
THEOREM LineIsTakenAlone == Spec => LineDecides
<1> DEFINE Step == [answer' = "OK" /\ (\E i \in Commas(text') : i > 3) => Decides(text')]_vars
<1>1. TypeOK /\ [Next]_vars => Step
  <2> SUFFICES ASSUME TypeOK, NEW p \in Packages, Package(p[1], p[2]), answer' = "OK",
                      NEW i \in Commas(text'), i > 3
               PROVE  Decides(text')
    BY DEF Next
  <2>0. answer' \notin {"ERR:01", "ERR:02", "ERR", "other"}
    OBVIOUS
  <2> DEFINE t  == p[2]
             nul == [k \in Indexes |-> "NUL"]
             cr == Len(t) - 2
             b == Filled(buf, t)
             c == Filled(nul, t)
  <2>1. buf \in Buffers /\ nul \in Buffers /\ t \in Lines
    BY PackageLines, EmptyBuffer DEF TypeOK, Buffers
  <2>2. /\ text' = t /\ buf' = b /\ EndsLine(t) /\ buf'[0] = "EQ"
        /\ peers' = [peers EXCEPT ![Number(buf')] = Parsed(buf')]
    <3>1. /\ text' = p[2] /\ buf' = Filled(buf, p[2]) /\ EndsLine(p[2]) /\ buf'[0] = "EQ"
          /\ peers' = [peers EXCEPT ![Number(buf')] = Parsed(buf')]
      BY <2>0, PackageSteps, Zenon
    <3> QED
      BY <3>1, Zenon
  <2> HIDE DEF t, nul
  <2>3. b \in Buffers /\ c \in Buffers
    BY <2>1, FilledHolds, Zenon
  <2>4. /\ Len(t) \in Nat /\ Len(t) >= 2 /\ Len(t) <= BufLen - 2 /\ BufLen \in Nat
        /\ b[0] = t[1] /\ b[cr] = "CR" /\ b[Len(t) - 1] = "LF" /\ b[Len(t)] = "NUL"
    BY <2>1, <2>2, LineEnd, Zenon
  <2>5. \A k \in 0 .. Len(t) : b[k] = c[k]
    BY <2>1, FilledAgree, Zenon
  <2>6. \A k \in 0 .. Len(t) - 1 : b[k] = t[k + 1]
    BY <2>1, FilledHolds, Zenon
  <2>7. i \in 1 .. Len(t) /\ t[i] = "COMMA"
    BY <2>2 DEF Commas
  <2> HIDE DEF b, c
  <2>8. i - 1 \in 3 .. cr - 1 /\ b[i - 1] = "COMMA"
    <3>1. i - 1 \in 0 .. Len(t) - 1 /\ (i - 1) + 1 = i
      BY <2>4, <2>7
    <3>2. b[i - 1] = "COMMA"
      BY <2>6, <2>7, <3>1
    <3>3. i - 1 # cr /\ i - 1 # Len(t) - 1
      BY <2>4, <3>2
    <3> QED
      BY <2>4, <2>7, <3>1, <3>2, <3>3
  <2>9. /\ cr \in Nat \ {0} /\ cr <= BufLen - 1 /\ cr + 2 <= BufLen - 1
        /\ cr + 1 = Len(t) - 1 /\ cr + 2 = Len(t)
    <3>1. cr # 0
      BY <2>2, <2>4
    <3> QED
      BY <2>4, <3>1
  <2>10. b[cr] \notin Digits /\ b[cr + 1] \notin Digits /\ b[cr + 2] \notin Digits
    BY <2>4, <2>9, NoDigits
  <2>11. Agree(b, c, cr + 2)
    BY <2>5, <2>9 DEF Agree
  <2>12. \A k \in 1 .. cr : b[k] = c[k]
    BY <2>5, <2>9
  <2> HIDE DEF cr
  <2>13. Number(c) = Number(b)
    BY <2>9, <2>10, <2>12, NumberSame, Zenon
  <2>14. Parsed(c) = Parsed(b)
    <3>1. cr \in Nat
      BY <2>9
    <3> QED
      BY <2>3, <2>8, <2>9, <2>10, <2>11, <3>1, ParsedSame, Zenon
  <2> QED
    BY <2>2, <2>13, <2>14, Zenon DEF Decides, OnItsOwn, c, nul
<1>2. Spec => []TypeOK
  BY TypeCorrect
<1> QED
  BY <1>1, <1>2, PTL DEF Spec, LineDecides

-----------------------------------------------------------------------------
(* The parser stays in the buffer *)

\* A whole address ends with its last digit.
LEMMA MacComplete ==
  ASSUME NEW b \in Buffers, Len(MacOf(b)) = MacLen
  PROVE  MacEnd(b) - 1 \in 3 .. BufLen - 1 /\ b[MacEnd(b) - 1] \in HexDigits
<1>0. BufLen \in Nat /\ MacLen \in Nat \ {0}
  BY CommandAssumption
<1>1. PICK e \in 3 .. BufLen - 1 :
        /\ e = MacEnd(b)
        /\ \A k \in 3 .. e - 1 : ~HexStops(b, 3, k, MacLen, "COMMA")
  BY MacEndsInside, Zenon
<1> DEFINE read == HexIn(b, 3, e)
           n == Cardinality(read)
<1>2. /\ read \in SUBSET Nat /\ read \subseteq 3 .. e - 1
      /\ IsFiniteSet(read) /\ n \in Nat
  BY <1>0, HexInFinite
<1>3. n \div 2 = MacLen
  <2>1. HexEnd(b, 3, MacLen, "COMMA") = e
    BY <1>1, Zenon DEF MacEnd
  <2>2. MacOf(b) = [k \in 1 .. n \div 2 |->
                      16 * Value[b[Nth(read, 2 * k - 1)]] + Value[b[Nth(read, 2 * k)]]]
    BY <2>1, AscToHexIs DEF MacOf
  <2>3. DOMAIN MacOf(b) = 1 .. n \div 2
    BY <2>2
  <2> HIDE DEF n
  <2>4. PICK h \in Nat : h = n \div 2
    BY <1>2
  <2>5. MacOf(b) \in [1 .. MacLen -> 0 .. 255]
    BY MacType
  <2>6. DOMAIN MacOf(b) = 1 .. MacLen
    BY <2>5
  <2>7. 1 .. h = 1 .. MacLen
    BY <2>3, <2>4, <2>6
  <2>8. h = MacLen
    <3>1. h \in 1 .. h <=> h >= 1
      OBVIOUS
    <3>2. MacLen \in 1 .. h
      BY <1>0, <2>7
    <3>3. h \in 1 .. MacLen
      BY <2>7, <3>1, <3>2
    <3> QED
      BY <1>0, <3>2, <3>3
  <2> QED
    BY <2>4, <2>8
<1> HIDE DEF n
<1>4. n \in 1 .. n /\ (n = 2 * MacLen \/ n = 2 * MacLen + 1)
  BY <1>0, <1>2, <1>3
<1> DEFINE x == Nth(read, n)
           upto == {m \in read : m <= x}
<1>5. x \in read /\ Cardinality(upto) = n
  BY <1>2, <1>4, NthExists DEF n
<1>6. upto = read
  <2>1. upto \in SUBSET read
    OBVIOUS
  <2> QED
    BY <1>2, <1>5, <2>1, FS_Subset DEF n
<1>7. x \in 3 .. e - 1 /\ \A m \in read : m <= x
  BY <1>2, <1>5, <1>6
<1>8. b[x] \in HexDigits
  BY <1>5 DEF HexIn
<1> HIDE DEF x, upto
<1>9. x = e - 1
  <2> SUFFICES ASSUME x # e - 1 PROVE FALSE
    OBVIOUS
  <2>1. x \in 3 .. e - 1 /\ x + 1 \in 3 .. e - 1
    BY <1>7
  <2>2. HexIn(b, 3, x + 1) = read
    BY <1>7 DEF HexIn
  <2>3. CASE n = 2 * MacLen
    <3>1. HexStops(b, 3, x + 1, MacLen, "COMMA")
      BY <2>2, <2>3, Zenon DEF HexStops, n
    <3> QED
      BY <1>1, <2>1, <3>1
  <2>4. CASE n = 2 * MacLen + 1
    <3>1. HexIn(b, 3, x) = read \ {x}
      BY <1>7 DEF HexIn
    <3>2. Cardinality(read \ {x}) = n - 1
      BY <1>2, <1>5, FS_RemoveElement DEF n
    <3>3. Cardinality(HexIn(b, 3, x)) = 2 * MacLen
      <4>1. n - 1 = 2 * MacLen
        BY <1>0, <2>4
      <4> QED
        BY <3>1, <3>2, <4>1, Zenon
    <3>4. HexStops(b, 3, x, MacLen, "COMMA")
      BY <3>3, Zenon DEF HexStops
    <3> QED
      BY <1>1, <2>1, <3>4
  <2> QED
    BY <1>4, <2>3, <2>4
<1>10. x \in 3 .. BufLen - 1
  BY <1>0, <1>7
<1> QED
  BY <1>1, <1>8, <1>9, <1>10, Zenon

LEMMA ArgumentEnds ==
  ASSUME NEW b, NEW i \in Nat, NEW maxLen \in Nat, NEW z \in Nat, i <= z, b[z] \notin Digits
  PROVE  AscToInt(b, i, maxLen).end \in Nat /\ AscToInt(b, i, maxLen).end <= z
<1>1. Agree(b, b, z)
  BY DEF Agree
<1> QED
  BY <1>1, ArgumentSame

\* The characters the last accepted AT+SETCONNECT stopped at lie in data[].
ReadsInside ==
  answer = "OK" =>
    {MacEnd(buf), PassOf(buf).end, SelectOf(buf).end, EnabledOf(buf).end} \subseteq Indexes

LEMMA LineReadsInside ==
  ASSUME NEW b \in Buffers, NEW t \in Lines, EndsLine(t),
         NEW f, f = Filled(b, t), f[0] = "EQ", Len(MacOf(f)) = MacLen
  PROVE  {MacEnd(f), PassOf(f).end, SelectOf(f).end, EnabledOf(f).end} \subseteq Indexes
<1>0. PassLen \in Nat /\ 1 \in Nat
  BY CommandAssumption
<1>1. f \in Buffers
  BY FilledHolds, Zenon
<1>2. /\ Len(t) \in Nat /\ Len(t) >= 2 /\ Len(t) <= BufLen - 2 /\ BufLen \in Nat
      /\ f[0] = t[1] /\ f[Len(t) - 2] = "CR" /\ f[Len(t) - 1] = "LF" /\ f[Len(t)] = "NUL"
  BY LineEnd, Zenon
<1>3. f[BufLen - 1] = "NUL"
  BY <1>1, BufferDomain, Zenon
<1>4. Len(t) >= 3
  <2>1. Len(t) - 2 # 0
    BY <1>2
  <2> QED
    BY <1>2, <2>1
<1>5. MacEnd(f) \in Nat /\ MacEnd(f) <= Len(t) - 2
  <2>1. Len(t) \in 3 .. BufLen - 1 /\ f[Len(t)] \in {"NUL", "COMMA"}
    BY <1>2, <1>4
  <2>2. PICK e \in 3 .. Len(t) : e = MacEnd(f)
    BY <1>1, <2>1, MacEnds, Zenon
  <2>3. f[e - 1] \in HexDigits
    BY <1>1, <2>2, MacComplete
  <2>4. f[e - 1] \notin {"CR", "LF"}
    BY <2>3, DigitChars
  <2>5. e - 1 # Len(t) - 2 /\ e - 1 # Len(t) - 1
    BY <1>2, <2>4
  <2> QED
    BY <1>2, <2>2, <2>5
<1>6. PassOf(f).end \in Nat /\ PassOf(f).end <= Len(t) - 1
  <2>1. PICK i \in Nat : i = MacEnd(f) + 1
    BY <1>5
  <2>2. PICK z \in Nat : z = Len(t) - 1
    BY <1>2
  <2>3. i <= z /\ f[z] \notin Digits
    BY <1>2, <1>5, <2>1, <2>2, NoDigits
  <2>4. AscToInt(f, i, PassLen).end \in Nat /\ AscToInt(f, i, PassLen).end <= z
    BY <1>0, <2>3, ArgumentEnds
  <2> QED
    BY <2>1, <2>2, <2>4, Zenon DEF PassOf
<1>7. SelectOf(f).end \in Nat /\ SelectOf(f).end <= Len(t)
  <2>1. PICK i \in Nat : i = PassOf(f).end + 1
    BY <1>6
  <2>2. PICK z \in Nat : z = Len(t)
    BY <1>2
  <2>3. i <= z /\ f[z] \notin Digits
    BY <1>2, <1>6, <2>1, <2>2, NoDigits
  <2>4. AscToInt(f, i, 1).end \in Nat /\ AscToInt(f, i, 1).end <= z
    BY <1>0, <2>3, ArgumentEnds
  <2> QED
    BY <2>1, <2>2, <2>4, Zenon DEF SelectOf
<1>8. EnabledOf(f).end \in Nat /\ EnabledOf(f).end <= BufLen - 1
  <2>1. PICK i \in Nat : i = SelectOf(f).end + 1
    BY <1>7
  <2>2. PICK z \in Nat : z = BufLen - 1
    BY <1>2
  <2>3. i <= z /\ f[z] \notin Digits
    BY <1>2, <1>3, <1>7, <2>1, <2>2, NoDigits
  <2>4. AscToInt(f, i, 1).end \in Nat /\ AscToInt(f, i, 1).end <= z
    BY <1>0, <2>3, ArgumentEnds
  <2> QED
    BY <2>1, <2>2, <2>4, Zenon DEF EnabledOf
<1> QED
  BY <1>2, <1>5, <1>6, <1>7, <1>8 DEF Indexes

\* For packages of the documented length (uart_interface.h:31) the arguments of
\* AT+SETCONNECT are read within data[], though only the last of its bytes, and
\* not the terminator behind the package, keeps the parser there (at_cmd.c:448).
THEOREM ParserStaysInside == Spec => []ReadsInside
<1>1. Init => ReadsInside
  <2> SUFFICES ASSUME Init PROVE answer # "OK"
    BY DEF ReadsInside
  <2> QED
    BY DEF Init
<1>2. TypeOK /\ ReadsInside /\ [Next]_vars => ReadsInside'
  <2> SUFFICES ASSUME TypeOK, ReadsInside, [Next]_vars PROVE ReadsInside'
    OBVIOUS
  <2>1. CASE UNCHANGED vars
    <3>1. buf' = buf /\ answer' = answer
      BY <2>1 DEF vars
    <3> QED
      BY <3>1, Zenon DEF ReadsInside, MacEnd, PassOf, SelectOf, EnabledOf
  <2>2. ASSUME NEW p \in Packages, Package(p[1], p[2]), answer' = "OK"
        PROVE  ReadsInside'
    <3>0. answer' \notin {"ERR:01", "ERR:02", "ERR", "other"}
      BY <2>2
    <3>1. /\ buf' = Filled(buf, p[2]) /\ EndsLine(p[2])
          /\ buf'[0] = "EQ" /\ Len(MacOf(buf')) = MacLen
      BY <2>2, <3>0, PackageSteps, Zenon
    <3>2. buf \in Buffers /\ p[2] \in Lines
      BY <2>2, PackageLines DEF TypeOK, Buffers
    <3>3. {MacEnd(buf'), PassOf(buf').end, SelectOf(buf').end, EnabledOf(buf').end} \subseteq Indexes
      BY <3>1, <3>2, LineReadsInside, Zenon
    <3> QED
      BY <3>3, Zenon DEF ReadsInside, MacEnd, PassOf, SelectOf, EnabledOf
  <2>3. answer' # "OK" => ReadsInside'
    BY DEF ReadsInside
  <2> QED
    BY <2>1, <2>2, <2>3 DEF Next
<1>3. Spec => []TypeOK
  BY TypeCorrect
<1> QED
  BY <1>1, <1>2, <1>3, PTL DEF Spec

-----------------------------------------------------------------------------
(* A well-formed line sets what it says *)

LEMMA CommaPlaces ==
  ASSUME NEW t \in Lines, FieldsOf(t) = 5
  PROVE  /\ \A k \in 1 .. 4 : Comma(t, k) \in 1 .. Len(t) /\ t[Comma(t, k)] = "COMMA"
         /\ \A k, l \in 1 .. 4 : k < l => Comma(t, k) < Comma(t, l)
<1> DEFINE S == Commas(t)
           count(j) == Cardinality({m \in S : m <= j})
<1>0. Len(t) \in Nat
  BY DEF Lines
<1>1. IsFiniteSet(1 .. Len(t)) /\ S \in SUBSET (1 .. Len(t))
  BY <1>0, FS_Interval DEF Commas
<1>2. S \in SUBSET Nat /\ IsFiniteSet(S) /\ Cardinality(S) \in Nat
  BY <1>1, FS_Subset, FS_CardinalityType
<1>3. Cardinality(S) = 4
  BY <1>2 DEF FieldsOf
<1>4. ASSUME NEW k \in 1 .. 4 PROVE Comma(t, k) \in S /\ count(Comma(t, k)) = k
  BY <1>2, <1>3, <1>4, NthExists DEF Comma
<1>5. ASSUME NEW i \in S, NEW j \in S, i < j PROVE count(i) < count(j)
  BY <1>2, <1>5, CountGrows
<1>6. ASSUME NEW k \in 1 .. 4, NEW l \in 1 .. 4, k < l PROVE Comma(t, k) < Comma(t, l)
  <2> DEFINE i == Comma(t, k)
             j == Comma(t, l)
  <2>1. i \in S /\ count(i) = k /\ j \in S /\ count(j) = l
    BY <1>4
  <2> HIDE DEF i, j, count, S
  <2>2. i \in Nat /\ j \in Nat
    BY <1>2, <2>1
  <2>3. i # j
    BY <1>6, <2>1
  <2>4. ~(j < i)
    BY <1>5, <1>6, <2>1
  <2>5. i < j
    BY <2>2, <2>3, <2>4
  <2> QED
    BY <2>5 DEF i, j
<1>7. \A i \in S : i \in 1 .. Len(t) /\ t[i] = "COMMA"
  BY DEF Commas
<1> QED
  BY <1>4, <1>6, <1>7

LEMMA FieldCut ==
  ASSUME NEW t \in Lines, NEW m \in Nat \ {0}, NEW n \in Int, n <= Len(t)
  PROVE  /\ Len(SubSeq(t, m, n)) = (IF m <= n THEN n - m + 1 ELSE 0)
         /\ DOMAIN SubSeq(t, m, n) = 1 .. Len(SubSeq(t, m, n))
         /\ \A i \in 1 .. n - m + 1 : SubSeq(t, m, n)[i] = t[m + i - 1]
<1>1. \A i \in m .. n : t[i] \in Chars
  <2> SUFFICES ASSUME NEW i \in m .. n PROVE t[i] \in Chars
    OBVIOUS
  <2>1. t \in Seq(Chars) /\ Len(t) \in Nat
    BY DEF Lines
  <2>2. i \in 1 .. Len(t)
    BY <2>1
  <2> QED
    BY <2>1, <2>2, ElementOfSeq
<1>2. SubSeq(t, m, n) \in Seq(Chars)
  BY <1>1, SubSeqProperties
<1>3. DOMAIN SubSeq(t, m, n) = 1 .. Len(SubSeq(t, m, n))
  BY <1>2
<1> QED
  BY <1>1, <1>3, SubSeqProperties

SameRun(b, i, c, j, n) == \A k \in 0 .. n - 1 : b[i + k] = c[j + k]

LEMMA RunSame ==
  ASSUME NEW b, NEW c, NEW i \in Int, NEW j \in Int, NEW n \in Nat, SameRun(b, i, c, j, n)
  PROVE  Decimal(b, i, n) = Decimal(c, j, n)
BY DecimalSame DEF SameRun

Holds(f, t) == \A k \in 0 .. Len(t) - 1 : f[k] = t[k + 1]

ReadsField(f, t, m, n, maxLen) ==
  /\ \A k \in 0 .. n - m : f[m - 1 + k] \in Digits
  /\ f[n] \notin Digits
  /\ Decimal(f, m - 1, n - m + 1) = DecimalOf(SubSeq(t, m, n))
  /\ AscToInt(f, m - 1, maxLen) = [val |-> DecimalOf(SubSeq(t, m, n)), end |-> n]

\* A field of digits, where the parser stands at its first character.
LEMMA ArgumentIs ==
  ASSUME NEW t \in Lines, NEW f, NEW m \in Nat \ {0}, NEW n \in Nat, m <= n, n < Len(t),
         InDigits(SubSeq(t, m, n)), NEW maxLen \in Nat, n - m + 1 <= maxLen,
         Holds(f, t), t[n + 1] \notin Digits
  PROVE  ReadsField(f, t, m, n, maxLen)
<1> DEFINE w == SubSeq(t, m, n)
           d == n - m + 1
<1>0. Len(t) \in Nat
  BY DEF Lines
<1>1. /\ Len(w) = d /\ DOMAIN w = 1 .. d
      /\ \A i \in 1 .. d : w[i] = t[m + i - 1]
  <2>1. n <= Len(t) /\ n \in Int
    BY <1>0
  <2> QED
    BY <2>1, FieldCut
<1>2. \A i \in 1 .. d : w[i] \in Digits
  BY <1>1 DEF InDigits
<1> HIDE DEF w
<1>3. ASSUME NEW k \in 0 .. d - 1 PROVE f[m - 1 + k] = w[1 + k] /\ w[1 + k] \in Digits
  <2>1. 1 + k \in 1 .. d /\ m - 1 + k \in 0 .. Len(t) - 1 /\ (m - 1 + k) + 1 = m + (1 + k) - 1
    BY <1>0
  <2>2. w[1 + k] = t[m + (1 + k) - 1] /\ w[1 + k] \in Digits
    BY <1>1, <1>2, <2>1
  <2>3. f[m - 1 + k] = t[(m - 1 + k) + 1]
    BY <2>1 DEF Holds
  <2> QED
    BY <2>1, <2>2, <2>3
<1>4. f[n] \notin Digits
  <2>1. n \in 0 .. Len(t) - 1
    BY <1>0
  <2>2. f[n] = t[n + 1]
    BY <2>1 DEF Holds
  <2> QED
    BY <2>2
<1>5. \A k \in 0 .. d - 1 : f[m - 1 + k] \in Digits
  BY <1>3
<1>6. Decimal(f, m - 1, d) = Decimal(w, 1, d)
  <2>1. PICK x \in Nat, i \in Int, j \in Int : x = d /\ i = m - 1 /\ j = 1
    OBVIOUS
  <2>2. \A k \in 0 .. x - 1 : f[i + k] = w[j + k]
    BY <1>3, <2>1
  <2>3. Decimal(f, i, x) = Decimal(w, j, x)
    <3>1. x \in Nat /\ i \in Int /\ j \in Int
      OBVIOUS
    <3>2. SameRun(f, i, w, j, x)
      BY <2>2, Zenon DEF SameRun
    <3> HIDE DEF d
    <3> QED
      BY <3>1, <3>2, RunSame, SMT
  <2> QED
    BY <2>1, <2>3, Zenon
<1>7. Decimal(w, 1, d) = DecimalOf(w)
  BY <1>1, Zenon DEF DecimalOf
<1>8. AscToInt(f, m - 1, maxLen) = [val |-> Decimal(f, m - 1, d), end |-> m - 1 + d]
  <2>1. d \in 0 .. maxLen + 1 /\ m - 1 \in Int /\ m - 1 + d = n
    OBVIOUS
  <2> HIDE DEF d
  <2> QED
    BY <1>4, <1>5, <2>1, AscToIntIs
<1>9. m - 1 + d = n /\ d - 1 = n - m
  OBVIOUS
<1> QED
  BY <1>4, <1>5, <1>6, <1>7, <1>8, <1>9 DEF w, ReadsField

LEMMA WellFormedPlaces ==
  ASSUME NEW t \in Lines, EndsLine(t), WellFormed(t)
  PROVE  \E c2, c3, c4 \in Nat :
           /\ c2 = 4 + 2 * MacLen /\ c2 < c3 /\ c3 - c2 - 1 \in 1 .. PassLen
           /\ c4 = c3 + 2 /\ Len(t) = c4 + 3
           /\ t[3] = "COMMA" /\ t[c2] = "COMMA" /\ t[c3] = "COMMA" /\ t[c4] = "COMMA"
           /\ Field(t, 1) = SubSeq(t, 2, 2)           /\ InDigits(SubSeq(t, 2, 2))
           /\ Field(t, 2) = SubSeq(t, 4, c2 - 1)      /\ InHex(SubSeq(t, 4, c2 - 1))
           /\ Field(t, 3) = SubSeq(t, c2 + 1, c3 - 1) /\ InDigits(SubSeq(t, c2 + 1, c3 - 1))
           /\ Field(t, 4) = SubSeq(t, c3 + 1, c3 + 1) /\ InDigits(SubSeq(t, c3 + 1, c3 + 1))
           /\ Field(t, 5) = SubSeq(t, c4 + 1, c4 + 1) /\ InDigits(SubSeq(t, c4 + 1, c4 + 1))
<1>0. Len(t) \in Nat /\ MacLen \in Nat \ {0} /\ PassLen \in Nat
  BY CommandAssumption DEF Lines
<1>1. /\ t[1] = "EQ" /\ FieldsOf(t) = 5
      /\ InHex(Field(t, 2)) /\ InDigits(Field(t, 3))
      /\ InDigits(Field(t, 1)) /\ InDigits(Field(t, 4)) /\ InDigits(Field(t, 5))
  BY DEF WellFormed
<1>lengths. /\ Len(Field(t, 2)) = 2 * MacLen /\ Len(Field(t, 3)) \in 1 .. PassLen
      /\ Len(Field(t, 1)) = 1 /\ Len(Field(t, 4)) = 1 /\ Len(Field(t, 5)) = 1
  BY DEF WellFormed
<1>2. PICK c1, c2, c3, c4 \in 1 .. Len(t) :
        /\ c1 = Comma(t, 1) /\ c2 = Comma(t, 2) /\ c3 = Comma(t, 3) /\ c4 = Comma(t, 4)
  <2>1. /\ 1 \in 1 .. 4 /\ 2 \in 1 .. 4 /\ 3 \in 1 .. 4 /\ 4 \in 1 .. 4
    OBVIOUS
  <2>2. \A k \in 1 .. 4 : Comma(t, k) \in 1 .. Len(t)
    BY <1>1, CommaPlaces, Zenon
  <2> QED
    BY <2>1, <2>2, Zenon
<1>3. /\ t[c1] = "COMMA" /\ t[c2] = "COMMA" /\ t[c3] = "COMMA" /\ t[c4] = "COMMA"
      /\ c1 < c2 /\ c2 < c3 /\ c3 < c4
  <2>1. /\ 1 \in 1 .. 4 /\ 2 \in 1 .. 4 /\ 3 \in 1 .. 4 /\ 4 \in 1 .. 4
        /\ 1 < 2 /\ 2 < 3 /\ 3 < 4
    OBVIOUS
  <2> QED
    BY <1>1, <1>2, <2>1, CommaPlaces, Zenon
<1>4. /\ Field(t, 1) = SubSeq(t, 2, c1 - 1)
      /\ Field(t, 2) = SubSeq(t, c1 + 1, c2 - 1)
      /\ Field(t, 3) = SubSeq(t, c2 + 1, c3 - 1)
      /\ Field(t, 4) = SubSeq(t, c3 + 1, c4 - 1)
      /\ Field(t, 5) = SubSeq(t, c4 + 1, Len(t) - 2)
  BY <1>1, <1>2 DEF Field
<1>5. /\ c1 \in Nat /\ c2 \in Nat /\ c3 \in Nat /\ c4 \in Nat
      /\ c1 >= 1 /\ c4 <= Len(t)
  BY <1>0
<1>6. c1 # 1
  BY <1>1, <1>3
<1>7. Len(Field(t, 1)) = IF 2 <= c1 - 1 THEN c1 - 1 - 2 + 1 ELSE 0
  <2>1. 2 \in Nat \ {0} /\ c1 - 1 \in Int /\ c1 - 1 <= Len(t)
    BY <1>0, <1>3, <1>5
  <2> QED
    BY <1>4, <2>1, FieldCut
<1>8. Len(Field(t, 2)) = IF c1 + 1 <= c2 - 1 THEN c2 - 1 - (c1 + 1) + 1 ELSE 0
  <2>1. PICK m \in Nat \ {0}, n \in Int : m = c1 + 1 /\ n = c2 - 1 /\ n <= Len(t)
    BY <1>0, <1>3, <1>5
  <2>2. Len(SubSeq(t, m, n)) = IF m <= n THEN n - m + 1 ELSE 0
    BY <2>1, FieldCut, Zenon
  <2> QED
    BY <1>4, <2>1, <2>2, Zenon
<1>9. Len(Field(t, 3)) = IF c2 + 1 <= c3 - 1 THEN c3 - 1 - (c2 + 1) + 1 ELSE 0
  <2>1. PICK m \in Nat \ {0}, n \in Int : m = c2 + 1 /\ n = c3 - 1 /\ n <= Len(t)
    BY <1>0, <1>3, <1>5
  <2>2. Len(SubSeq(t, m, n)) = IF m <= n THEN n - m + 1 ELSE 0
    BY <2>1, FieldCut, Zenon
  <2> QED
    BY <1>4, <2>1, <2>2, Zenon
<1>10. Len(Field(t, 4)) = IF c3 + 1 <= c4 - 1 THEN c4 - 1 - (c3 + 1) + 1 ELSE 0
  <2>1. PICK m \in Nat \ {0}, n \in Int : m = c3 + 1 /\ n = c4 - 1 /\ n <= Len(t)
    BY <1>0, <1>3, <1>5
  <2>2. Len(SubSeq(t, m, n)) = IF m <= n THEN n - m + 1 ELSE 0
    BY <2>1, FieldCut, Zenon
  <2> QED
    BY <1>4, <2>1, <2>2, Zenon
<1>11. Len(Field(t, 5)) = IF c4 + 1 <= Len(t) - 2 THEN Len(t) - 2 - (c4 + 1) + 1 ELSE 0
  <2>0. c4 + 1 \in Nat \ {0} /\ Len(t) - 2 \in Int /\ Len(t) - 2 <= Len(t)
    BY <1>0, <1>5
  <2>1. PICK m \in Nat \ {0}, n \in Int : m = c4 + 1 /\ n = Len(t) - 2 /\ n <= Len(t)
    BY <2>0, Zenon
  <2>2. Len(SubSeq(t, m, n)) = IF m <= n THEN n - m + 1 ELSE 0
    BY <2>1, FieldCut, Zenon
  <2> QED
    BY <1>4, <2>1, <2>2, Zenon
<1>12. /\ c1 = 3 /\ c2 = 4 + 2 * MacLen /\ c3 - c2 - 1 \in 1 .. PassLen
       /\ c4 = c3 + 2 /\ Len(t) = c4 + 3
  <2>1. c1 = 3
    <3>1. (IF 2 <= c1 - 1 THEN c1 - 1 - 2 + 1 ELSE 0) = 1
      BY <1>lengths, <1>7, Zenon
    <3> QED
      BY <1>5, <1>6, <3>1
  <2>2. c2 = 4 + 2 * MacLen
    BY <1>0, <1>lengths, <1>5, <1>8, <2>1
  <2>3. c3 - c2 - 1 \in 1 .. PassLen
    BY <1>0, <1>lengths, <1>5, <1>9
  <2>4. c4 = c3 + 2
    <3>1. (IF c3 + 1 <= c4 - 1 THEN c4 - 1 - (c3 + 1) + 1 ELSE 0) = 1
      BY <1>lengths, <1>10, Zenon
    <3> QED
      BY <1>5, <3>1
  <2>5. Len(t) = c4 + 3
    <3>1. (IF c4 + 1 <= Len(t) - 2 THEN Len(t) - 2 - (c4 + 1) + 1 ELSE 0) = 1
      BY <1>lengths, <1>11, Zenon
    <3> QED
      BY <1>0, <1>5, <3>1
  <2> QED
    BY <2>1, <2>2, <2>3, <2>4, <2>5
<1>13. c1 - 1 = 2 /\ c1 + 1 = 4 /\ c4 - 1 = c3 + 1 /\ Len(t) - 2 = c4 + 1
  BY <1>5, <1>12
<1>14. t[3] = "COMMA"
  BY <1>3, <1>12
<1>15. /\ Field(t, 1) = SubSeq(t, 2, 2) /\ Field(t, 2) = SubSeq(t, 4, c2 - 1)
       /\ Field(t, 4) = SubSeq(t, c3 + 1, c3 + 1) /\ Field(t, 5) = SubSeq(t, c4 + 1, c4 + 1)
  BY <1>4, <1>13, Zenon
<1>16. /\ InDigits(SubSeq(t, 2, 2)) /\ InHex(SubSeq(t, 4, c2 - 1))
       /\ InDigits(SubSeq(t, c2 + 1, c3 - 1))
       /\ InDigits(SubSeq(t, c3 + 1, c3 + 1)) /\ InDigits(SubSeq(t, c4 + 1, c4 + 1))
  BY <1>1, <1>4, <1>15, Zenon
<1> QED
  BY <1>3, <1>4, <1>5, <1>12, <1>14, <1>15, <1>16, Zenon

LEMMA MacIs ==
  ASSUME NEW t \in Lines, NEW f \in Buffers, \A k \in 0 .. Len(t) - 1 : f[k] = t[k + 1],
         NEW c \in Nat, c = 4 + 2 * MacLen, c <= Len(t), InHex(SubSeq(t, 4, c - 1))
  PROVE  /\ MacEnd(f) = c - 1
         /\ MacOf(f) = [k \in 1 .. MacLen |-> Value[SubSeq(t, 4, c - 1)[2 * k - 1]] * 16
                                              + Value[SubSeq(t, 4, c - 1)[2 * k]]]
<1>0. /\ MacLen \in Nat \ {0} /\ Len(t) \in Nat /\ Len(t) <= BufLen - 2 /\ BufLen \in Nat
      /\ 3 \in Nat /\ 3 + 2 * MacLen = c - 1 /\ c - 1 \in 0 .. BufLen - 1
  BY CommandAssumption DEF Lines
<1>1. DOMAIN f \subseteq Nat /\ 3 + 2 * MacLen \in DOMAIN f
  <2>1. DOMAIN f \subseteq Nat /\ DOMAIN f = 0 .. BufLen - 1
    BY BufferDomain, Zenon
  <2> QED
    BY <1>0, <2>1, Zenon
<1>2. PICK w : w = SubSeq(t, 4, c - 1)
  OBVIOUS
<1>3. DOMAIN w = 1 .. 2 * MacLen /\ \A i \in 1 .. 2 * MacLen : w[i] = t[4 + i - 1]
  <2>1. PICK m \in Nat \ {0}, n \in Int : m = 4 /\ n = c - 1 /\ n <= Len(t)
    BY <1>0
  <2>2. /\ Len(SubSeq(t, m, n)) = (IF m <= n THEN n - m + 1 ELSE 0)
        /\ DOMAIN SubSeq(t, m, n) = 1 .. Len(SubSeq(t, m, n))
        /\ \A i \in 1 .. n - m + 1 : SubSeq(t, m, n)[i] = t[m + i - 1]
    BY <2>1, FieldCut
  <2>3. m <= n /\ n - m + 1 = 2 * MacLen
    BY <1>0, <2>1
  <2> QED
    BY <1>2, <2>1, <2>2, <2>3, Zenon
<1>4. \A i \in 1 .. 2 * MacLen : w[i] \in HexDigits
  BY <1>2, <1>3, Zenon DEF InHex
<1>5. ASSUME NEW i \in 1 .. 2 * MacLen PROVE f[2 + i] = w[i]
  <2>1. 2 + i \in 0 .. Len(t) - 1 /\ (2 + i) + 1 = 4 + i - 1
    BY <1>0
  <2>2. f[2 + i] = t[(2 + i) + 1]
    BY <2>1
  <2> QED
    BY <1>3, <2>1, <2>2
<1>6. ASSUME NEW k \in 3 .. 3 + 2 * MacLen - 1 PROVE f[k] \in HexDigits
  <2>1. k - 2 \in 1 .. 2 * MacLen /\ 2 + (k - 2) = k
    BY <1>0
  <2> QED
    BY <1>4, <1>5, <2>1
<1>7. AscToHex(f, 3, MacLen, "COMMA") =
        [bytes |-> [k \in 1 .. MacLen |->
                      16 * Value[f[3 + 2 * k - 2]] + Value[f[3 + 2 * k - 1]]],
         end   |-> 3 + 2 * MacLen]
  <2>1. "COMMA" \notin HexDigits
    BY DEF HexDigits, Digits
  <2> QED
    BY <1>0, <1>1, <1>6, <2>1, AscToHexPlain, SMTT(30)
<1>8. ASSUME NEW k \in 1 .. MacLen
      PROVE  16 * Value[f[3 + 2 * k - 2]] + Value[f[3 + 2 * k - 1]]
               = Value[w[2 * k - 1]] * 16 + Value[w[2 * k]]
  <2>1. /\ 2 * k - 1 \in 1 .. 2 * MacLen /\ 2 * k \in 1 .. 2 * MacLen
        /\ 3 + 2 * k - 2 = 2 + (2 * k - 1) /\ 3 + 2 * k - 1 = 2 + 2 * k
    BY <1>0
  <2>2. f[3 + 2 * k - 2] = w[2 * k - 1] /\ f[3 + 2 * k - 1] = w[2 * k]
    BY <1>5, <2>1, Zenon
  <2>3. Value[w[2 * k - 1]] \in 0 .. 15
    BY <1>4, <2>1, ValueRange, Zenon
  <2>4. PICK v \in Int : v = Value[w[2 * k - 1]]
    BY <2>3
  <2>5. 16 * v = v * 16
    OBVIOUS
  <2> QED
    BY <2>2, <2>4, <2>5, Zenon
<1>9. MacOf(f) = [k \in 1 .. MacLen |-> Value[w[2 * k - 1]] * 16 + Value[w[2 * k]]]
  <2>1. MacOf(f) = [k \in 1 .. MacLen |->
                      16 * Value[f[3 + 2 * k - 2]] + Value[f[3 + 2 * k - 1]]]
    <3>1. PICK r : r = [k \in 1 .. MacLen |->
                          16 * Value[f[3 + 2 * k - 2]] + Value[f[3 + 2 * k - 1]]]
      OBVIOUS
    <3>2. AscToHex(f, 3, MacLen, "COMMA") = [bytes |-> r, end |-> 3 + 2 * MacLen]
      BY <1>7, <3>1, Zenon
    <3>3. MacOf(f) = r
      BY <3>2 DEF MacOf
    <3> QED
      BY <3>1, <3>3, Zenon
  <2> QED
    BY <1>8, <2>1
<1>10. MacEnd(f) = c - 1
  BY <1>0, <1>7, AscToHexIs, Zenon DEF MacEnd
<1> QED
  BY <1>2, <1>9, <1>10, Zenon

LEMMA WellFormedParsed ==
  ASSUME NEW b \in Buffers, NEW t \in Lines, EndsLine(t), WellFormed(t),
         NEW f, f = Filled(b, t)
  PROVE  /\ f[0] = "EQ" /\ Number(f) = DecimalOf(Field(t, 1))
         /\ Len(MacOf(f)) = MacLen /\ Parsed(f) = Says(t)
<1>0. /\ PassLen \in Nat /\ MacLen \in Nat \ {0} /\ BufLen \in Nat /\ BufLen > 3
      /\ Len(t) \in Nat /\ Len(t) >= 2
  BY CommandAssumption DEF Lines, EndsLine
<1>1. f \in Buffers /\ \A k \in 0 .. Len(t) - 1 : f[k] = t[k + 1]
  BY FilledHolds, Zenon
<1>2. f[0] = "EQ"
  <2>1. t[1] = "EQ"
    BY DEF WellFormed
  <2> QED
    BY <2>1, LineEnd, Zenon
<1>3. PICK c2, c3, c4 \in Nat :
           /\ c2 = 4 + 2 * MacLen /\ c2 < c3 /\ c3 - c2 - 1 \in 1 .. PassLen
           /\ c4 = c3 + 2 /\ Len(t) = c4 + 3
           /\ t[3] = "COMMA" /\ t[c2] = "COMMA" /\ t[c3] = "COMMA" /\ t[c4] = "COMMA"
           /\ Field(t, 1) = SubSeq(t, 2, 2)           /\ InDigits(SubSeq(t, 2, 2))
           /\ Field(t, 2) = SubSeq(t, 4, c2 - 1)      /\ InHex(SubSeq(t, 4, c2 - 1))
           /\ Field(t, 3) = SubSeq(t, c2 + 1, c3 - 1) /\ InDigits(SubSeq(t, c2 + 1, c3 - 1))
           /\ Field(t, 4) = SubSeq(t, c3 + 1, c3 + 1) /\ InDigits(SubSeq(t, c3 + 1, c3 + 1))
           /\ Field(t, 5) = SubSeq(t, c4 + 1, c4 + 1) /\ InDigits(SubSeq(t, c4 + 1, c4 + 1))
  BY WellFormedPlaces, Zenon
<1>places. c2 = 4 + 2 * MacLen /\ c2 < c3 /\ c3 - c2 - 1 \in 1 .. PassLen /\ c4 = c3 + 2 /\ Len(t) = c4 + 3
  BY <1>3, Zenon
<1>4. ASSUME NEW m \in Nat \ {0}, NEW n \in Nat, m <= n, n < Len(t), InDigits(SubSeq(t, m, n)),
             NEW maxLen \in Nat, n - m + 1 <= maxLen, t[n + 1] \notin Digits
      PROVE  ReadsField(f, t, m, n, maxLen)
  <2>1. Holds(f, t)
    BY <1>1, Zenon DEF Holds
  <2> QED
    BY <1>4, <2>1, ArgumentIs, Zenon
<1>5. MacEnd(f) = c2 - 1 /\ MacOf(f) = Says(t).mac
  <2>1. c2 \in Nat /\ c2 <= Len(t)
    BY <1>0, <1>places
  <2>2. /\ MacEnd(f) = c2 - 1
        /\ MacOf(f) = [k \in 1 .. MacLen |-> Value[SubSeq(t, 4, c2 - 1)[2 * k - 1]] * 16
                                             + Value[SubSeq(t, 4, c2 - 1)[2 * k]]]
    BY <1>1, <1>3, <2>1, MacIs, Zenon
  <2>3. SubSeq(t, 4, c2 - 1) = Field(t, 2)
    BY <1>3, Zenon
  <2>4. Says(t).mac = [k \in 1 .. MacLen |-> Value[Field(t, 2)[2 * k - 1]] * 16 + Value[Field(t, 2)[2 * k]]]
    BY DEF Says
  <2> QED
    BY <2>2, <2>3, <2>4, Zenon
<1>6. PassOf(f) = [val |-> DecimalOf(Field(t, 3)), end |-> c3 - 1]
  <2>1. PICK m \in Nat \ {0}, n \in Nat : m = c2 + 1 /\ n = c3 - 1
    BY <1>0, <1>places
  <2>2. m <= n /\ n < Len(t) /\ n - m + 1 <= PassLen /\ n + 1 = c3 /\ m - 1 = MacEnd(f) + 1
    BY <1>0, <1>places, <1>5, <2>1
  <2>3. t[n + 1] \notin Digits /\ InDigits(SubSeq(t, m, n)) /\ SubSeq(t, m, n) = Field(t, 3)
    BY <1>3, <2>1, <2>2, NoDigits, Zenon
  <2>4. AscToInt(f, m - 1, PassLen) = [val |-> DecimalOf(SubSeq(t, m, n)), end |-> n]
    BY <1>0, <1>4, <2>2, <2>3, Zenon DEF ReadsField
  <2> QED
    BY <2>1, <2>2, <2>3, <2>4, Zenon DEF PassOf
<1>7. SelectOf(f) = [val |-> DecimalOf(Field(t, 4)), end |-> c4 - 1]
  <2>1. PICK m \in Nat \ {0}, one \in Nat : m = c3 + 1 /\ one = 1
    BY <1>0, <1>places
  <2>2. m <= m /\ m < Len(t) /\ m - m + 1 <= one /\ m + 1 = c4 /\ m = c4 - 1 /\ m \in Nat
    BY <1>0, <1>places, <2>1
  <2>3. t[m + 1] \notin Digits /\ InDigits(SubSeq(t, m, m)) /\ SubSeq(t, m, m) = Field(t, 4)
    BY <1>3, <2>1, <2>2, NoDigits, Zenon
  <2>4. AscToInt(f, m - 1, one) = [val |-> DecimalOf(SubSeq(t, m, m)), end |-> m]
    BY <1>4, <2>2, <2>3, Zenon DEF ReadsField
  <2>5. m - 1 = PassOf(f).end + 1
    <3>1. PassOf(f).end = c3 - 1
      BY <1>6
    <3> QED
      BY <2>1, <3>1
  <2> QED
    BY <2>1, <2>2, <2>3, <2>4, <2>5, Zenon DEF SelectOf
<1>8. EnabledOf(f) = [val |-> DecimalOf(Field(t, 5)), end |-> c4 + 1]
  <2>1. PICK m \in Nat \ {0}, one \in Nat : m = c4 + 1 /\ one = 1
    BY <1>0, <1>places
  <2>2. m <= m /\ m < Len(t) /\ m - m + 1 <= one /\ m + 1 = Len(t) - 1 /\ m \in Nat
    BY <1>0, <1>places, <2>1
  <2>3. t[m + 1] \notin Digits /\ InDigits(SubSeq(t, m, m)) /\ SubSeq(t, m, m) = Field(t, 5)
    <3>1. t[Len(t) - 1] = "CR"
      BY DEF EndsLine
    <3> QED
      BY <1>3, <2>1, <2>2, <3>1, NoDigits, Zenon
  <2>4. AscToInt(f, m - 1, one) = [val |-> DecimalOf(SubSeq(t, m, m)), end |-> m]
    BY <1>4, <2>2, <2>3, Zenon DEF ReadsField
  <2>5. m - 1 = SelectOf(f).end + 1
    <3>1. SelectOf(f).end = c4 - 1
      BY <1>7
    <3> QED
      BY <2>1, <3>1
  <2> QED
    BY <2>1, <2>3, <2>4, <2>5, Zenon DEF EnabledOf
<1>9. Number(f) = DecimalOf(Field(t, 1))
  <2>1. PICK m \in Nat \ {0}, one \in Nat : m = 2 /\ one = 1
    BY <1>0, <1>places
  <2>2. m <= m /\ m < Len(t) /\ m - m + 1 <= one /\ m + 1 = 3 /\ m \in Nat
    BY <1>0, <1>places, <2>1
  <2>3. t[m + 1] \notin Digits /\ InDigits(SubSeq(t, m, m)) /\ SubSeq(t, m, m) = Field(t, 1)
    BY <1>3, <2>1, <2>2, NoDigits, Zenon
  <2>4. /\ \A k \in 0 .. m - m : f[m - 1 + k] \in Digits
        /\ f[m] \notin Digits
        /\ Decimal(f, m - 1, m - m + 1) = DecimalOf(SubSeq(t, m, m))
    BY <1>4, <2>2, <2>3, Zenon DEF ReadsField
  <2>5. m - 1 = 1 /\ m - m + 1 = 1 /\ 0 \in 0 .. m - m /\ m - 1 + 0 = 1
    BY <2>1
  <2>6. f[1] \in Digits /\ f[2] \notin Digits
    BY <2>1, <2>4, <2>5, Zenon
  <2>7. Decimal(f, 1, 1) = DecimalOf(Field(t, 1))
    BY <2>3, <2>4, <2>5, Zenon
  <2>8. RunLen(f, 1, BufLen - 1) = 1
    <3>1. PICK limit \in Nat : limit = BufLen - 1
      BY <1>0
    <3>2. one \in 0 .. limit /\ \A k \in 0 .. one - 1 : f[1 + k] \in Digits
      BY <1>0, <2>1, <2>6, <3>1
    <3>3. one < limit => f[1 + one] \notin Digits
      BY <2>1, <2>6
    <3>4. RunLen(f, 1, limit) = one
      BY <3>2, <3>3, RunLenIs
    <3> QED
      BY <2>1, <3>1, <3>4, Zenon
  <2> QED
    BY <2>7, <2>8, Zenon DEF Number, Atoi
<1>10. Len(MacOf(f)) = MacLen
  <2>1. MacOf(f) = [k \in 1 .. MacLen |-> Value[Field(t, 2)[2 * k - 1]] * 16 + Value[Field(t, 2)[2 * k]]]
    BY <1>5 DEF Says
  <2> QED
    BY <1>0, <2>1
<1>11. Parsed(f) = Says(t)
  <2>1. /\ PassOf(f).val = DecimalOf(Field(t, 3)) /\ SelectOf(f).val = DecimalOf(Field(t, 4))
        /\ EnabledOf(f).val = DecimalOf(Field(t, 5))
    BY <1>6, <1>7, <1>8
  <2>2. Says(t) = [mac |-> Says(t).mac, pass |-> DecimalOf(Field(t, 3)),
                   select |-> DecimalOf(Field(t, 4)), enabled |-> DecimalOf(Field(t, 5))]
    BY DEF Says
  <2> QED
    BY <1>5, <2>1, <2>2, ParsedIs, Zenon
<1> QED
  BY <1>2, <1>9, <1>10, <1>11

\* A well-formed AT+SETCONNECT sets the entry it names to what it says and no
\* other, or is refused for its number: whatever the buffer holds from the
\* commands before it, and for every length of the address, the passcode and
\* the buffer (at_cmd.c:448).
THEOREM SetsWhatItSays == Spec => SetAsWritten
<1> DEFINE AsWritten ==
             ran' = "setconnect" /\ WellFormed(text') =>
               LET num == DecimalOf(Field(text', 1))
               IN IF num < Conns
                  THEN answer' = "OK" /\ peers' = [peers EXCEPT ![num] = Says(text')]
                  ELSE answer' = "ERR" /\ peers' = peers
<1>1. ASSUME TypeOK, [Next]_vars PROVE [AsWritten]_vars
  <2>1. ASSUME NEW p \in Packages, Package(p[1], p[2]), ran' = "setconnect", WellFormed(text')
        PROVE  AsWritten
    <3>1. /\ text' = p[2] /\ buf' = Filled(buf, p[2])
          /\ EndsLine(p[2]) /\ SetConnect(buf')
      <4>1. "setconnect" # ""
        OBVIOUS
      <4> QED
        BY <2>1, <4>1, Zenon DEF Package
    <3>2. buf \in Buffers /\ p[2] \in Lines
      BY <1>1, <2>1, PackageLines DEF TypeOK, Buffers
    <3>3. PICK t \in Lines : t = p[2]
      BY <3>2
    <3>4. WellFormed(t)
      BY <2>1, <3>1, <3>3, Zenon
    <3>5. /\ buf'[0] = "EQ" /\ Number(buf') = DecimalOf(Field(t, 1))
          /\ Len(MacOf(buf')) = MacLen /\ Parsed(buf') = Says(t)
      BY <3>1, <3>2, <3>3, <3>4, WellFormedParsed, Zenon
    <3>6. PICK num : num = DecimalOf(Field(t, 1))
      OBVIOUS
    <3>7. IF num >= Conns
          THEN answer' = "ERR" /\ peers' = peers
          ELSE answer' = "OK" /\ peers' = [peers EXCEPT ![num] = Says(t)]
      BY <3>1, <3>5, <3>6, Zenon DEF SetConnect
    <3>8. num \in Nat /\ Conns \in Nat
      BY <3>5, <3>6, NumberType, CommandAssumption, Zenon
    <3>9. IF num < Conns
          THEN answer' = "OK" /\ peers' = [peers EXCEPT ![num] = Says(t)]
          ELSE answer' = "ERR" /\ peers' = peers
      <4>1. (num >= Conns) <=> ~(num < Conns)
        BY <3>8
      <4> QED
        BY <3>7, <4>1, Zenon
    <3> QED
      BY <3>1, <3>3, <3>6, <3>9, Zenon
  <2> QED
    BY <1>1, <2>1, Zenon DEF Next
<1>2. Spec => []TypeOK
  BY TypeCorrect
<1> QED
  BY <1>1, <1>2, PTL DEF Spec, SetAsWritten
=============================================================================

------------------------------- MODULE Command -------------------------------
(***************************************************************************)
(* What becomes of a package when the UART task takes it for complete: its *)
(* handler is looked up by the hash of the name, and AT+SETCONNECT (and in *)
(* the same way AT+SETAUTOCONNECT) reads its arguments out of the data     *)
(* buffer.  The buffer is kept from command to command: behind the package *)
(* and its terminator lies what longer ones have left.                     *)
(***************************************************************************)
EXTENDS AtText, Dispatch

CONSTANTS
  Packages,   \* <<name, data>> the host may send
  BufLen,     \* AT_UART_DATA_MAX_LEN
  Conns,      \* CENTRAL_MAX_CONNECTION
  MacLen,     \* bytes of an address, 6
  PassLen     \* digits of a passcode, 6

\* A package has at most the 510 characters of uart_interface.h:31.
ASSUME CommandAssumption ==
  /\ BufLen \in Nat /\ BufLen > 3 /\ Conns \in Nat \ {0}
  /\ MacLen \in Nat \ {0} /\ PassLen \in Nat \ {0}
  /\ \A p \in Packages : p[2] \in Seq(Chars) /\ Len(p[2]) <= BufLen - 2

VARIABLES
  lookup,    \* the lookups in the group of commands, fixed at the start
  name,      \* the last command's name
  text,      \* its data
  buf,       \* at_uart_data.data
  peers,     \* PeerAddrDef
  ran,       \* history: the handler run for it, "" if none
  answer     \* what the host was told

vars == <<lookup, name, text, buf, peers, ran, answer>>

Indexes == 0 .. BufLen - 1
Nobody  == [mac |-> <<>>, pass |-> 0, select |-> 0, enabled |-> 0]

Names == {p[1] : p \in Packages}

Items == [mac : [1 .. MacLen -> 0 .. 255], pass : Nat, select : 0 .. 99, enabled : 0 .. 99]

TypeOK ==
  /\ buf \in [Indexes -> Chars] /\ buf[BufLen - 1] = "NUL"
  /\ peers \in [0 .. Conns - 1 -> Items \cup {Nobody}]
  /\ ran \in AtCommands \cup {""}
  /\ answer \in {"", "OK", "ERR", "ERR:01", "ERR:02", "other"}

\* hash_match_group_init
Init ==
  /\ lookup = [n \in Names |-> Matches(n)]
  /\ name = "" /\ text = <<>> /\ ran = "" /\ answer = ""
  /\ buf = [i \in Indexes |-> "NUL"]
  /\ peers = [i \in 0 .. Conns - 1 |-> Nobody]

-----------------------------------------------------------------------------
\* Mutant: the line end is cut off and no terminator written.
FilledBare(b, t) == [i \in Indexes |-> IF i < Len(t) - 2 THEN t[i + 1] ELSE b[i]]

\* The package in the buffer b, and the terminator behind it.
Filled(b, t) ==
  [i \in Indexes |-> IF i < Len(t) THEN t[i + 1] ELSE IF i = Len(t) THEN "NUL" ELSE b[i]]

\* The arguments: each begins one character behind the end of the last.
Parsed(b) ==
  LET mac     == AscToHex(b, 3, MacLen, "COMMA")
      pass    == AscToInt(b, mac.end + 1, PassLen)
      select  == AscToInt(b, pass.end + 1, 1)
      enabled == AscToInt(b, select.end + 1, 1)
  IN [mac |-> mac.bytes, pass |-> pass.val, select |-> select.val, enabled |-> enabled.val]

Number(b)  == Atoi(b, 1, BufLen - 1)
MacOf(b)   == AscToHex(b, 3, MacLen, "COMMA").bytes

\* Mutant: the address goes into the table before it is known to be complete.
SetConnectEager(b) ==
  IF b[0] # "EQ" THEN answer' = "ERR:02" /\ UNCHANGED peers
  ELSE IF Number(b) >= Conns THEN answer' = "ERR" /\ UNCHANGED peers
  ELSE IF Len(MacOf(b)) # MacLen
  THEN answer' = "ERR" /\ peers' = [peers EXCEPT ![Number(b)].mac = MacOf(b)]
  ELSE answer' = "OK" /\ peers' = [peers EXCEPT ![Number(b)] = Parsed(b)]

\* AT+SETCONNECT
SetConnect(b) ==
  IF b[0] # "EQ" THEN answer' = "ERR:02" /\ UNCHANGED peers
  ELSE IF Number(b) >= Conns \/ Len(MacOf(b)) # MacLen
  THEN answer' = "ERR" /\ UNCHANGED peers
  ELSE answer' = "OK" /\ peers' = [peers EXCEPT ![Number(b)] = Parsed(b)]

EndsLine(t) == Len(t) >= 2 /\ t[Len(t) - 1] = "CR" /\ t[Len(t)] = "LF"

\* The receive time-out ends a package.  What the other handlers do is modelled
\* with the components they act on.
Package(n, t) ==
  \E b \in {Filled(buf, t)} :
    /\ name' = n /\ text' = t /\ buf' = b /\ UNCHANGED lookup
    /\ IF ~EndsLine(t) THEN ran' = "" /\ answer' = "ERR:02" /\ UNCHANGED peers
       ELSE IF lookup[n] = {} THEN ran' = "" /\ answer' = "ERR:01" /\ UNCHANGED peers
       ELSE /\ ran' \in lookup[n]
            /\ IF ran' = "setconnect" THEN SetConnect(b)
               ELSE answer' = "other" /\ UNCHANGED peers

Next == \E p \in Packages : Package(p[1], p[2])

Spec == Init /\ [][Next]_vars

-----------------------------------------------------------------------------
(* Properties *)

\* A line =a,b,c,... CR LF cut at its commas.
Commas(t)    == {i \in 1 .. Len(t) : t[i] = "COMMA"}
FieldsOf(t)  == Cardinality(Commas(t)) + 1
Comma(t, k)  == Nth(Commas(t), k)
Field(t, k) ==
  SubSeq(t, IF k = 1 THEN 2 ELSE Comma(t, k - 1) + 1,
            IF k = FieldsOf(t) THEN Len(t) - 2 ELSE Comma(t, k) - 1)

InDigits(f)  == \A i \in DOMAIN f : f[i] \in Digits
InHex(f)     == \A i \in DOMAIN f : f[i] \in HexDigits
DecimalOf(f) == Decimal(f, 1, Len(f))

\* The form the manual gives (readme.md:140).
WellFormed(t) ==
  /\ t[1] = "EQ" /\ FieldsOf(t) = 5
  /\ Len(Field(t, 2)) = 2 * MacLen /\ InHex(Field(t, 2))
  /\ Len(Field(t, 3)) \in 1 .. PassLen /\ InDigits(Field(t, 3))
  /\ \A k \in {1, 4, 5} : Len(Field(t, k)) = 1 /\ InDigits(Field(t, k))

Says(t) ==
  LET m == Field(t, 2)
  IN [mac     |-> [k \in 1 .. MacLen |-> Value[m[2 * k - 1]] * 16 + Value[m[2 * k]]],
      pass    |-> DecimalOf(Field(t, 3)),
      select  |-> DecimalOf(Field(t, 4)),
      enabled |-> DecimalOf(Field(t, 5))]

\* A well-formed AT+SETCONNECT sets the entry it names to what it says and no
\* other, or is refused for its number, whatever the commands before it have
\* left in the buffer (at_cmd.c:448).
SetAsWritten ==
  [][ran' = "setconnect" /\ WellFormed(text') =>
       LET num == DecimalOf(Field(text', 1))
       IN IF num < Conns
          THEN answer' = "OK" /\ peers' = [peers EXCEPT ![num] = Says(text')]
          ELSE answer' = "ERR" /\ peers' = peers]_vars

\* A command that is not answered with OK changes no entry.
RefusedKeeps == [][answer' # "OK" => peers' = peers]_vars

\* What the line is taken to say in a buffer that held nothing.
OnItsOwn(t) == Parsed(Filled([i \in Indexes |-> "NUL"], t))

Decides(t) ==
  peers' = [peers EXCEPT ![Number(Filled([i \in Indexes |-> "NUL"], t))] = OnItsOwn(t)]

\* A line that has a comma where its address begins (its fourth character,
\* data[3]) or further on, well-formed or not, is taken on its own: arguments it
\* leaves out are not read from what lies behind it.  The comma between number
\* and address is not enough: =0,0a CR LF is a line of LineAloneDecides.
LineDecides ==
  [][answer' = "OK" /\ (\E i \in Commas(text') : i > 3) => Decides(text')]_vars

\* Every line is: the terminator keeps the parser from what lies behind it
\* (the comment at uart_interface.c:161).
LineAloneDecides == [][answer' = "OK" => Decides(text')]_vars

\* A command runs its own handler in whatever case it is typed, and a name that
\* is no command's runs none unless it differs from one in its first letter
\* (simplehash.c:75, where that difference reads as none).
NameRuns ==
  /\ \A n \in AtCommands :
       EndsLine(text) /\ Len(name) = Len(n) /\ Differ(name, n) = {} => ran = n
  /\ ran # "" => Len(name) = Len(ran) /\ (Differ(name, ran) = {} \/ 1 \in Differ(name, ran))
=============================================================================

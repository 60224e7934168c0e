------------------------------ MODULE Dispatch ------------------------------
(***************************************************************************)
(* The lookup of a command by hash (hash-match.c, simplehash.c): the names *)
(* of at_cmd.c are in a linker section in an order the program does not    *)
(* choose, each with its hash.  A name is a string of letters; the lookup  *)
(* goes letter by letter.                                                  *)
(***************************************************************************)
EXTENDS Integers, Sequences

\* The exported names.
AtCommands == {
  "ver", "reset", "blemac", "rawmac", "startscan", "stopscan", "customread",
  "customwrite", "sppwrite", "disableconnect", "enableconnect", "setconnect",
  "getconnect", "setautoconnect", "getautoconnect", "disconnect", "setservice",
  "getservice", "setbaudrate", "getmtu"}

Letter(s, i) == SubSeq(s, i, i)
Lower == "abcdefghijklmnopqrstuvwxyz"
Upper == "ABCDEFGHIJKLMNOPQRSTUVWXYZ"

Place(c) == CHOOSE i \in 1 .. 26 : c \in {Letter(Lower, i), Letter(Upper, i)}

\* simplehash_lower_char_upper, as the code of the letter.
AsciiUpper(c) == 64 + Place(c)

Bit(x, k) == (x \div 2 ^ k) % 2

\* Exclusive or of 16 bits.
Xor16(x, y) ==
  LET upTo[k \in 0 .. 16] ==
        IF k = 0 THEN 0
        ELSE upTo[k - 1] + 2 ^ (k - 1) * ((Bit(x, k - 1) + Bit(y, k - 1)) % 2)
  IN upTo[16]

\* hash = (hash ^ 0x30393235) + data in 32 bits, as two halves.
HashStep(h, data) ==
  LET low  == Xor16(h[2], 12853) + data
      high == Xor16(h[1], 12345) + low \div 65536
  IN <<high % 65536, low % 65536>>

\* simplehash_upper_caculate32.  The value is kept as a set of one element,
\* which TLC computes before it goes on.
Hash(name) ==
  LET after[i \in 0 .. Len(name)] ==
        IF i = 0 THEN {<<0, 0>>}
        ELSE {HashStep(h, AsciiUpper(Letter(name, i))) : h \in after[i - 1]}
  IN after[Len(name)]

\* The letters at which two names of one length differ, case aside.
Differ(m, n) == {i \in 1 .. Len(m) : AsciiUpper(Letter(m, i)) # AsciiUpper(Letter(n, i))}

\* Mutant: the index of the last letter compared.
MemcmpLast(m, n) == IF Differ(m, n) = {} THEN Len(m) - 1 ELSE Len(m)

\* simplehash_lower_char_upper_memcmp gives the index of the first difference,
\* or 0: a difference at index 0 reads as none.
Memcmp(m, n) ==
  IF Differ(m, n) = {} THEN 0
  ELSE (CHOOSE i \in Differ(m, n) : \A j \in Differ(m, n) : i <= j) - 1

\* hash_match_group: the commands a name may be taken for.
Matches(name) ==
  {n \in AtCommands : Len(n) = Len(name) /\ Hash(n) = Hash(name) /\ Memcmp(name, n) = 0}

\* No two commands of one length have the same hash: checked once for the names
\* of at_cmd.c.
ASSUME HashesDistinct ==
  \A m, n \in AtCommands : Len(m) = Len(n) /\ Hash(m) = Hash(n) => m = n
=============================================================================

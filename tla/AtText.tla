------------------------------- MODULE AtText -------------------------------
(***************************************************************************)
(* The text conversions of mystdlib.c that the AT commands use.  They read *)
(* a buffer from an index on and say where they stopped; the code knows    *)
(* nothing of the buffer's length, and what lies beyond has no value here. *)
(* A character is a string; "NUL" is 0.                                    *)
(***************************************************************************)
EXTENDS Integers, Sequences, FiniteSets

\* "OTHER" stands for every character without a name.
Digits    == {"0", "1", "2", "3", "4", "5", "6", "7", "8", "9"}
HexDigits == Digits \cup {"a", "b", "c", "d", "e", "f", "A", "B", "C", "D", "E", "F"}
Chars     == HexDigits \cup {"COMMA", "EQ", "OTHER", "CR", "LF", "NUL"}

Value == [c \in HexDigits |->
  CASE c = "0" -> 0 [] c = "1" -> 1 [] c = "2" -> 2 [] c = "3" -> 3 [] c = "4" -> 4
    [] c = "5" -> 5 [] c = "6" -> 6 [] c = "7" -> 7 [] c = "8" -> 8 [] c = "9" -> 9
    [] c \in {"a", "A"} -> 10 [] c \in {"b", "B"} -> 11 [] c \in {"c", "C"} -> 12
    [] c \in {"d", "D"} -> 13 [] c \in {"e", "E"} -> 14 [] c \in {"f", "F"} -> 15]

\* The k-th of a set of numbers.
Nth(S, k) == CHOOSE j \in S : Cardinality({m \in S : m <= j}) = k

\* The hex digits of b from i on, before e.
HexIn(b, i, e) == {k \in i .. e - 1 : b[k] \in HexDigits}

\* AscToHex: hex digits in pairs, other characters skipped, up to 0, the exit
\* character or the last byte wanted.
HexStops(b, i, e, maxLen, exit) ==
  b[e] \in {"NUL", exit} \/ Cardinality(HexIn(b, i, e)) = 2 * maxLen

HexEnd(b, i, maxLen, exit) ==
  CHOOSE e \in DOMAIN b :
    /\ e >= i /\ HexStops(b, i, e, maxLen, exit)
    /\ \A k \in i .. e - 1 : ~HexStops(b, i, k, maxLen, exit)

AscToHex(b, i, maxLen, exit) ==
  LET e        == HexEnd(b, i, maxLen, exit)
      read     == HexIn(b, i, e)
      digit(k) == Value[b[Nth(read, k)]]
  IN [bytes |-> [k \in 1 .. Cardinality(read) \div 2 |-> 16 * digit(2 * k - 1) + digit(2 * k)],
      end   |-> e]

\* The number of digits from i on, as far as limit.
RunLen(b, i, limit) ==
  CHOOSE n \in 0 .. limit :
    /\ \A k \in 0 .. n - 1 : b[i + k] \in Digits
    /\ n < limit => b[i + n] \notin Digits

Decimal(b, i, n) ==
  LET upTo[k \in 0 .. n] == IF k = 0 THEN 0 ELSE 10 * upTo[k - 1] + Value[b[i + k - 1]]
  IN upTo[n]

\* Mutant: the limit counts the digit that exceeds it.
AscToIntShort(b, i, maxLen) ==
  LET n == RunLen(b, i, maxLen - 1)
  IN [val |-> Decimal(b, i, n), end |-> i + n]

\* AscToInt: the test comes after the digit, so that one more than max_len is
\* taken.
AscToInt(b, i, maxLen) ==
  LET n == RunLen(b, i, maxLen + 1)
  IN [val |-> Decimal(b, i, n), end |-> i + n]

\* atoi of the C library, for text without sign and spaces.
Atoi(b, i, limit) == Decimal(b, i, RunLen(b, i, limit))
=============================================================================

----------------------------- MODULE MCCommand -----------------------------
EXTENDS Command

End == <<"CR", "LF">>
Eq  == "EQ"
Sep == "COMMA"
Any == "OTHER"

\* Well-formed lines; the last number is too large.
GoodLines ==
  {<<Eq, "0", Sep, "0", "a", Sep>> \o rest \o End :
     rest \in {<<"1", Sep, "0", Sep, "0">>, <<"1", "2", Sep, "0", Sep, "1">>}}
  \cup {<<Eq, num, Sep, "f", "9", Sep, "2", Sep, "1", Sep, "0">> \o End : num \in {"0", "1"}}

\* Lines cut short, too long a password, an odd address, separators in it, empty
\* arguments, no "=".
BadLines ==
  {<<Eq, "0", Sep, "0", "a">> \o rest \o End :
     rest \in {<<>>, <<Sep>>, <<Sep, "1", Sep, "0">>,
              <<Sep, "1", "2", "1", "2", Sep, "0", Sep, "1">>,
              <<Sep, Sep, Sep>>}}
  \cup {<<Eq, "0", Sep, "a">> \o End, <<Eq, "0", Sep, "0", Any, "a", Sep, "1">> \o End,
        <<Eq>> \o End, <<Any>> \o End, End}

\* As long as data[] allows: the address at the very end; without a line end.
LongLines ==
  {<<Eq, "0", Sep, Any, Any, Any, Any, Any, Any, Any, Any, Any, "0", "A">> \o End,
   <<Eq, "0", Sep, "0", "a", Any, Any, Any, Any, Any, Any, Any, "1", "1", "1", "1">>}

\* Commands in capitals and mixed, and names that are nearly theirs.
TypedNames == {
  "ver", "VER", "vEr", "blemac", "DISABLECONNECT", "SETCONNECT", "SetBaudRate", "ve",
  "verr", "vfr", "wer", "wjr", "rawmab", "setconnecu", "tetconnect", "hetmtu"}

MCPackages ==
  {<<"setconnect", t>> : t \in GoodLines \cup BadLines \cup LongLines}
  \cup {<<n, End>> : n \in TypedNames}
=============================================================================

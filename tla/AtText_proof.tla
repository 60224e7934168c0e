---------------------------- MODULE AtText_proof ----------------------------
(* What the conversions of AtText return, for every buffer: where they     *)
(* stop, which characters decide their results, and the range of these.    *)
EXTENDS AtText, FiniteSetTheorems, WellFoundedInduction, TLAPS

(***************************************************************************)
(* Characters.                                                             *)
(***************************************************************************)

LEMMA DigitChars ==
  /\ Digits \subseteq HexDigits /\ HexDigits \subseteq Chars
  /\ "NUL" \notin HexDigits /\ "COMMA" \notin HexDigits
  /\ "CR" \notin HexDigits /\ "LF" \notin HexDigits
  BY DEF HexDigits, Digits, Chars

LEMMA ValueRange ==
  /\ \A c \in HexDigits : Value[c] \in 0 .. 15
  /\ \A c \in Digits : Value[c] \in 0 .. 9
  BY DEF Value, HexDigits, Digits

(***************************************************************************)
(* The k-th of a set of numbers.                                           *)
(***************************************************************************)

LEMMA Least ==
  ASSUME NEW S, S \subseteq Nat, S # {}
  PROVE  \E i \in S : \A j \in S : i <= j
<1>1. PICK i \in S : \A j \in S : ~(<<j, i>> \in OpToRel(<, Nat))
  BY NatLessThanWellFounded, WFMin, Zenon
<1>2. \A j \in S : ~(j < i)
  BY <1>1, Zenon DEF OpToRel
<1>3. i \in Nat
  OBVIOUS
<1> QED
  BY <1>2, <1>3

\* The elements up to a larger one are more.
LEMMA CountGrows ==
  ASSUME NEW S \in SUBSET Nat, IsFiniteSet(S), NEW i \in S, NEW j \in S, i < j
  PROVE  Cardinality({m \in S : m <= i}) < Cardinality({m \in S : m <= j})
<1> DEFINE A == {m \in S : m <= i}
           B == {m \in S : m <= j}
<1>0. i \in Nat /\ j \in Nat
  OBVIOUS
<1>1. A \in SUBSET B /\ j \in B /\ j \notin A /\ B \in SUBSET S
  <2>1. \A m \in S : m \in Nat
    OBVIOUS
  <2>2. \A m \in A : m \in B
    BY <1>0, <2>1
  <2>3. j \in B /\ j \notin A
    BY <1>0
  <2> QED
    BY <2>2, <2>3
<1>2. IsFiniteSet(B) /\ IsFiniteSet(A)
  BY <1>1, FS_Subset
<1>3. Cardinality(A) \in Nat /\ Cardinality(B) \in Nat
  BY <1>2, FS_CardinalityType
<1>4. Cardinality(A) <= Cardinality(B) /\ (Cardinality(B) = Cardinality(A) => B = A)
  BY <1>1, <1>2, FS_Subset
<1> QED
  BY <1>1, <1>3, <1>4

LEMMA NthIs ==
  ASSUME NEW S \in SUBSET Nat, IsFiniteSet(S), NEW j \in S, NEW k,
         Cardinality({m \in S : m <= j}) = k
  PROVE  Nth(S, k) = j
<1>1. \A x \in S : Cardinality({m \in S : m <= x}) = k => x = j
  <2> SUFFICES ASSUME NEW x \in S, Cardinality({m \in S : m <= x}) = k, x # j PROVE FALSE
    OBVIOUS
  <2>1. x < j \/ j < x
    OBVIOUS
  <2>2. \A y \in S : Cardinality({m \in S : m <= y}) \in Nat
    <3> TAKE y \in S
    <3>1. {m \in S : m <= y} \in SUBSET S
      OBVIOUS
    <3> QED
      BY <3>1, FS_Subset, FS_CardinalityType
  <2> QED
    BY <2>1, <2>2, CountGrows
<1>2. Nth(S, k) = CHOOSE x : x \in S /\ Cardinality({m \in S : m <= x}) = k
  BY Zenon DEF Nth
<1> QED
  BY <1>1, <1>2, Zenon

LEMMA NthExists ==
  ASSUME NEW S \in SUBSET Nat, IsFiniteSet(S), NEW k \in 1 .. Cardinality(S)
  PROVE  Nth(S, k) \in S /\ Cardinality({m \in S : m <= Nth(S, k)}) = k
<1> DEFINE Upto(x) == {m \in S : m <= x}
           Has(n) == \E x \in S : Cardinality(Upto(x)) = n
           bad == {n \in 1 .. Cardinality(S) : ~Has(n)}
<1>1. Cardinality(S) \in Nat
  BY FS_CardinalityType
<1>2. bad = {}
  <2> SUFFICES ASSUME bad # {} PROVE FALSE
    OBVIOUS
  <2>1. bad \subseteq Nat
    BY <1>1
  <2>2. PICK n \in bad : \A m \in bad : n <= m
    BY <2>1, Least
  <2>3. n \in Nat /\ 1 <= n /\ n <= Cardinality(S) /\ ~Has(n)
    BY <1>1, <2>2
  \* The elements up to the one before, and the smallest of the rest.
  <2>4. \E T \in SUBSET S : /\ Cardinality(T) = n - 1
                            /\ \A x \in T, y \in S \ T : x < y
    <3>1. CASE n = 1
      <4>1. {} \in SUBSET S /\ Cardinality({}) = n - 1
        BY <3>1, FS_EmptySet
      <4> QED
        BY <4>1
    <3>2. CASE n # 1
      <4>1. n - 1 \in 1 .. Cardinality(S) /\ ~(n <= n - 1)
        BY <1>1, <2>3, <3>2
      <4>2. n - 1 \notin bad
        BY <2>2, <4>1
      <4>3. Has(n - 1)
        BY <4>1, <4>2
      <4>4. PICK x \in S : Cardinality(Upto(x)) = n - 1
        BY <4>3
      <4>5. Upto(x) \in SUBSET S /\ \A u \in Upto(x), y \in S \ Upto(x) : u < y
        OBVIOUS
      <4> QED
        BY <4>4, <4>5
    <3> QED
      BY <3>1, <3>2
  <2>5. PICK T \in SUBSET S : /\ Cardinality(T) = n - 1
                              /\ \A x \in T, y \in S \ T : x < y
    BY <2>4
  <2>6. IsFiniteSet(T)
    BY FS_Subset
  <2>7. T # S
    BY <1>1, <2>3, <2>5
  <2>8. PICK y \in S \ T : \A z \in S \ T : y <= z
    <3>1. S \ T # {} /\ S \ T \subseteq Nat
      BY <2>5, <2>7
    <3> QED
      BY <3>1, Least
  <2>9. Upto(y) = T \cup {y}
    <3>1. \A m \in S : m \in Nat
      OBVIOUS
    <3>2. y \in S /\ y \in Nat
      BY <3>1
    <3>3. ASSUME NEW m \in S PROVE m <= y <=> m \in T \/ m = y
      <4>1. m \in T => m < y
        BY <2>5, <2>8
      <4>2. m \in S \ T => y <= m
        BY <2>8
      <4> QED
        BY <3>1, <3>2, <4>1, <4>2
    <3> QED
      BY <3>2, <3>3
  <2>10. Cardinality(Upto(y)) = n
    <3>1. Cardinality(T \cup {y}) = Cardinality(T) + 1
      BY <2>6, <2>8, FS_AddElement
    <3> QED
      BY <2>3, <2>5, <2>9, <3>1
  <2> QED
    BY <2>3, <2>8, <2>10
<1>3. PICK x \in S : Cardinality(Upto(x)) = k
  BY <1>2
<1>4. Nth(S, k) = x
  BY <1>3, NthIs
<1> QED
  BY <1>3, <1>4

(***************************************************************************)
(* AscToHex and AscToInt: where they stop.                                 *)
(***************************************************************************)

LEMMA HexEndIs ==
  ASSUME NEW b, DOMAIN b \subseteq Int, NEW i \in Int, NEW maxLen, NEW exit,
         NEW e \in DOMAIN b, e >= i, HexStops(b, i, e, maxLen, exit),
         \A k \in i .. e - 1 : ~HexStops(b, i, k, maxLen, exit)
  PROVE  HexEnd(b, i, maxLen, exit) = e
<1> DEFINE Stops(k) == HexStops(b, i, k, maxLen, exit)
           Ends(x) == /\ x \in DOMAIN b
                      /\ x >= i /\ Stops(x) /\ \A k \in i .. x - 1 : ~Stops(k)
<1>1. HexEnd(b, i, maxLen, exit) = CHOOSE x : Ends(x)
  BY Zenon DEF HexEnd
<1> HIDE DEF Stops
<1>2. Stops(e) /\ \A k \in i .. e - 1 : ~Stops(k)
  BY DEF Stops
<1>3. Ends(e)
  BY <1>2
<1>4. ASSUME NEW x, Ends(x) PROVE x = e
  <2>1. x \in Int /\ e \in Int /\ x >= i
    BY <1>4
  <2>2. ~(x < e)
    <3> SUFFICES ASSUME x < e PROVE FALSE
      OBVIOUS
    <3>1. x \in i .. e - 1
      BY <2>1
    <3> QED
      BY <1>2, <1>4, <3>1
  <2>3. ~(e < x)
    <3> SUFFICES ASSUME e < x PROVE FALSE
      OBVIOUS
    <3>1. e \in i .. x - 1
      BY <2>1
    <3> QED
      BY <1>2, <1>4, <3>1
  <2> QED
    BY <2>1, <2>2, <2>3
<1> HIDE DEF Ends
<1> QED
  BY <1>1, <1>3, <1>4, Zenon

\* A NUL behind the start stops it, at the latest.
LEMMA HexEndExists ==
  ASSUME NEW b, DOMAIN b \subseteq Nat, NEW i \in Nat, NEW maxLen, NEW exit,
         NEW z \in Nat, z >= i, i .. z \subseteq DOMAIN b,
         HexStops(b, i, z, maxLen, exit)
  PROVE  LET e == HexEnd(b, i, maxLen, exit)
         IN /\ e \in i .. z /\ HexStops(b, i, e, maxLen, exit)
            /\ \A k \in i .. e - 1 : ~HexStops(b, i, k, maxLen, exit)
<1> DEFINE Stops(k) == HexStops(b, i, k, maxLen, exit)
           S == {k \in i .. z : Stops(k)}
<1>1. z \in S
  OBVIOUS
<1> HIDE DEF Stops
<1>2. S \subseteq Nat
  OBVIOUS
<1>3. PICK e \in S : \A k \in S : e <= k
  BY <1>1, <1>2, Least
<1>4. e \in i .. z /\ Stops(e)
  BY <1>3
<1>5. ASSUME NEW k \in i .. e - 1 PROVE ~Stops(k)
  <2>1. k \in Int /\ e \in Int /\ k < e /\ i <= k /\ e <= z
    BY <1>4
  <2>2. k \in i .. z
    BY <2>1
  <2>3. k \in S => e <= k
    BY <1>3
  <2>4. k \notin S
    BY <2>1, <2>3
  <2> QED
    BY <2>2, <2>4
<1> USE DEF Stops
<1>6. HexEnd(b, i, maxLen, exit) = e
  <2>1. e \in DOMAIN b /\ e >= i /\ DOMAIN b \subseteq Int
    BY <1>4
  <2> QED
    BY <1>4, <1>5, <2>1, HexEndIs
<1> QED
  BY <1>4, <1>5, <1>6

LEMMA RunLenIs ==
  ASSUME NEW b, NEW i \in Int, NEW limit \in Nat, NEW n \in 0 .. limit,
         \A k \in 0 .. n - 1 : b[i + k] \in Digits,
         n < limit => b[i + n] \notin Digits
  PROVE  RunLen(b, i, limit) = n
<1> DEFINE D(k) == b[i + k] \in Digits
           Run(m) == m \in 0 .. limit /\ (\A k \in 0 .. m - 1 : D(k)) /\ (m < limit => ~D(m))
<1>1. RunLen(b, i, limit) = CHOOSE m : Run(m)
  BY Zenon DEF RunLen
<1> HIDE DEF D
<1>2. (\A k \in 0 .. n - 1 : D(k)) /\ (n < limit => ~D(n))
  BY DEF D
<1>3. Run(n)
  BY <1>2
<1>4. ASSUME NEW m, Run(m) PROVE m = n
  <2>1. m \in Int /\ n \in Int /\ 0 <= m /\ 0 <= n /\ m <= limit /\ n <= limit
    BY <1>4
  <2>2. ~(m < n)
    <3> SUFFICES ASSUME m < n PROVE FALSE
      OBVIOUS
    <3>1. m \in 0 .. n - 1 /\ m < limit
      BY <2>1
    <3> QED
      BY <1>2, <1>4, <3>1
  <2>3. ~(n < m)
    <3> SUFFICES ASSUME n < m PROVE FALSE
      OBVIOUS
    <3>1. n \in 0 .. m - 1 /\ n < limit
      BY <2>1
    <3> QED
      BY <1>2, <1>4, <3>1
  <2> QED
    BY <2>1, <2>2, <2>3
<1> HIDE DEF Run
<1> QED
  BY <1>1, <1>3, <1>4, Zenon

LEMMA RunLenExists ==
  ASSUME NEW b, NEW i \in Int, NEW limit \in Nat
  PROVE  LET n == RunLen(b, i, limit)
         IN /\ n \in 0 .. limit
            /\ \A k \in 0 .. n - 1 : b[i + k] \in Digits
            /\ n < limit => b[i + n] \notin Digits
<1> DEFINE D(k) == b[i + k] \in Digits
           S == {m \in 0 .. limit : m = limit \/ ~D(m)}
<1> HIDE DEF D
<1>1. limit \in S /\ S \subseteq Nat
  OBVIOUS
<1>2. PICK n \in S : \A k \in S : n <= k
  BY <1>1, Least
<1>3. n \in 0 .. limit /\ (n < limit => ~D(n))
  BY <1>2
<1>4. ASSUME NEW k \in 0 .. n - 1 PROVE D(k)
  <2>1. k \in 0 .. limit /\ k < n /\ k \in Int /\ n \in Int
    BY <1>3
  <2>2. k \in S => n <= k
    BY <1>2
  <2> QED
    BY <2>1, <2>2
<1> USE DEF D
<1>5. RunLen(b, i, limit) = n
  BY <1>3, <1>4, RunLenIs
<1> QED
  BY <1>3, <1>4, <1>5

(***************************************************************************)
(* Decimal is defined by recursion over the digits.  That the function     *)
(* exists is shown for every number of digits by the first for which it    *)
(* would not.                                                              *)
(***************************************************************************)

Upto(f, b, i, n) ==
  [k \in 0 .. n |-> IF k = 0 THEN 0 ELSE 10 * f[k - 1] + Value[b[i + k - 1]]]

LEMMA DecimalFunction ==
  ASSUME NEW b, NEW i \in Int, NEW n \in Nat
  PROVE  \E f : f = Upto(f, b, i, n)
<1> DEFINE Is(f, m) == f = Upto(f, b, i, m)
           bad == {m \in Nat : ~\E f : Is(f, m)}
<1>1. bad = {}
  <2> SUFFICES ASSUME bad # {} PROVE FALSE
    OBVIOUS
  <2>1. bad \subseteq Nat
    OBVIOUS
  <2>2. PICK m \in bad : \A k \in bad : m <= k
    BY <2>1, Least
  <2>3. m \in Nat /\ ~\E f : Is(f, m)
    BY <2>2
  <2>4. m # 0
    <3> DEFINE f0 == [k \in 0 .. 0 |-> 0]
    <3>1. Upto(f0, b, i, 0) = f0
      BY DEF Upto
    <3> QED
      BY <2>3, <3>1
  <2>5. m - 1 \in Nat /\ m - 1 \notin bad
    BY <2>2, <2>3, <2>4
  <2>6. PICK g : Is(g, m - 1)
    BY <2>5
  <2> DEFINE f == [k \in 0 .. m |-> IF k = m THEN 10 * g[m - 1] + Value[b[i + m - 1]] ELSE g[k]]
  <2>7. \A k \in 0 .. m - 1 :
          g[k] = IF k = 0 THEN 0 ELSE 10 * g[k - 1] + Value[b[i + k - 1]]
    BY <2>5, <2>6 DEF Upto
  <2>8. \A k \in 0 .. m - 1 : f[k] = g[k]
    BY <2>3
  <2>9. \A k \in 0 .. m : f[k] = Upto(f, b, i, m)[k]
    <3> SUFFICES ASSUME NEW k \in 0 .. m PROVE f[k] = Upto(f, b, i, m)[k]
      OBVIOUS
    <3> HIDE DEF f
    <3>1. Upto(f, b, i, m)[k] = IF k = 0 THEN 0 ELSE 10 * f[k - 1] + Value[b[i + k - 1]]
      BY DEF Upto
    <3>2. CASE k = m
      <4>1. m - 1 \in 0 .. m - 1
        BY <2>3, <2>4
      <4>2. f[m] = 10 * g[m - 1] + Value[b[i + m - 1]]
        BY <2>3 DEF f
      <4>3. f[m - 1] = g[m - 1]
        BY <2>8, <4>1
      <4> QED
        BY <2>4, <3>1, <3>2, <4>2, <4>3
    <3>3. CASE k # m /\ k # 0
      <4>1. k \in 0 .. m - 1 /\ k - 1 \in 0 .. m - 1
        BY <2>3, <3>3
      <4>2. f[k] = g[k] /\ f[k - 1] = g[k - 1]
        BY <2>8, <4>1
      <4> QED
        BY <2>7, <3>1, <3>3, <4>1, <4>2
    <3>4. CASE k # m /\ k = 0
      <4>1. k \in 0 .. m - 1
        BY <2>3, <3>4
      <4> QED
        BY <2>7, <2>8, <3>1, <3>4, <4>1
    <3> QED
      BY <3>2, <3>3, <3>4
  <2>10. Is(f, m)
    <3>1. DOMAIN f = 0 .. m /\ f = [k \in 0 .. m |-> f[k]]
      OBVIOUS
    <3>2. Upto(f, b, i, m) = [k \in 0 .. m |-> Upto(f, b, i, m)[k]]
      BY DEF Upto
    <3> HIDE DEF f
    <3> QED
      BY <2>9, <3>1, <3>2
  <2> HIDE DEF f
  <2> QED
    BY <2>3, <2>10
<1>2. n \notin bad
  BY <1>1
<1> QED
  BY <1>2

LEMMA DecimalUnfolds ==
  ASSUME NEW b, NEW i \in Int, NEW n \in Nat
  PROVE  \E f : /\ Decimal(b, i, n) = f[n]
                /\ f[0] = 0
                /\ \A k \in 1 .. n : f[k] = 10 * f[k - 1] + Value[b[i + k - 1]]
<1> DEFINE f == CHOOSE f : f = Upto(f, b, i, n)
<1>1. Decimal(b, i, n) = f[n]
  BY Zenon DEF Decimal, Upto
<1>2. f = Upto(f, b, i, n)
  <2>1. \E g : g = Upto(g, b, i, n)
    BY DecimalFunction
  <2> QED
    BY <2>1, Zenon
<1> HIDE DEF f
<1>3. \A k \in 0 .. n : f[k] = IF k = 0 THEN 0 ELSE 10 * f[k - 1] + Value[b[i + k - 1]]
  BY <1>2 DEF Upto
<1>4. f[0] = 0
  BY <1>3
<1>5. \A k \in 1 .. n : f[k] = 10 * f[k - 1] + Value[b[i + k - 1]]
  BY <1>3
<1> QED
  BY <1>1, <1>4, <1>5

LEMMA DecimalRange ==
  ASSUME NEW b, NEW i \in Int, NEW n \in Nat, \A k \in 0 .. n - 1 : b[i + k] \in Digits
  PROVE  Decimal(b, i, n) \in Nat /\ (n <= 2 => Decimal(b, i, n) \in 0 .. 99)
<1>1. PICK f : /\ Decimal(b, i, n) = f[n]
               /\ f[0] = 0
               /\ \A k \in 1 .. n : f[k] = 10 * f[k - 1] + Value[b[i + k - 1]]
  BY DecimalUnfolds
<1>2. ASSUME NEW k \in 1 .. n PROVE Value[b[i + k - 1]] \in 0 .. 9
  <2>1. k - 1 \in 0 .. n - 1 /\ i + k - 1 = i + (k - 1)
    OBVIOUS
  <2>2. b[i + k - 1] \in Digits
    BY <2>1
  <2> QED
    BY <2>2, ValueRange
<1> DEFINE bad == {k \in 0 .. n : f[k] \notin Nat}
<1>3. bad = {}
  <2> SUFFICES ASSUME bad # {} PROVE FALSE
    OBVIOUS
  <2>1. bad \subseteq Nat
    OBVIOUS
  <2>2. PICK m \in bad : \A k \in bad : m <= k
    BY <2>1, Least
  <2>3. m \in 1 .. n /\ f[m] \notin Nat
    BY <1>1, <2>2
  <2>4. f[m - 1] \in Nat
    <3>1. m - 1 \in 0 .. n /\ ~(m <= m - 1)
      BY <2>3
    <3> QED
      BY <2>2, <3>1
  <2>5. f[m] = 10 * f[m - 1] + Value[b[i + m - 1]] /\ Value[b[i + m - 1]] \in 0 .. 9
    BY <1>1, <1>2, <2>3
  <2> HIDE DEF bad
  <2> QED
    BY <2>3, <2>4, <2>5
<1>4. f[n] \in Nat
  BY <1>3
<1>5. n <= 2 => f[n] \in 0 .. 99
  <2>1. CASE n = 0
    BY <1>1, <2>1
  <2>2. CASE n = 1
    <3>1. f[1] = 10 * f[0] + Value[b[i + 1 - 1]] /\ Value[b[i + 1 - 1]] \in 0 .. 9
      BY <1>1, <1>2, <2>2
    <3> QED
      BY <1>1, <2>2, <3>1
  <2>3. CASE n = 2
    <3>1. f[1] = 10 * f[0] + Value[b[i + 1 - 1]] /\ Value[b[i + 1 - 1]] \in 0 .. 9
      BY <1>1, <1>2, <2>3
    <3>2. f[2] = 10 * f[2 - 1] + Value[b[i + 2 - 1]] /\ Value[b[i + 2 - 1]] \in 0 .. 9
      BY <1>1, <1>2, <2>3
    <3> QED
      BY <1>1, <2>3, <3>1, <3>2
  <2> QED
    BY <2>1, <2>2, <2>3
<1> QED
  BY <1>1, <1>4, <1>5

\* The value depends on the digits only.
LEMMA DecimalSame ==
  ASSUME NEW b, NEW c, NEW i \in Int, NEW j \in Int, NEW n \in Nat,
         \A k \in 0 .. n - 1 : b[i + k] = c[j + k]
  PROVE  Decimal(b, i, n) = Decimal(c, j, n)
<1>1. ASSUME NEW f PROVE Upto(f, b, i, n) = Upto(f, c, j, n)
  <2>1. ASSUME NEW k \in 0 .. n, k # 0 PROVE b[i + k - 1] = c[j + k - 1]
    <3>1. k - 1 \in 0 .. n - 1 /\ i + k - 1 = i + (k - 1) /\ j + k - 1 = j + (k - 1)
      BY <2>1
    <3> QED
      BY <3>1
  <2> QED
    BY <2>1 DEF Upto
<1>2. (CHOOSE f : f = Upto(f, b, i, n)) = (CHOOSE f : f = Upto(f, c, j, n))
  BY <1>1, Zenon
<1>3. /\ Decimal(b, i, n) = (CHOOSE f : f = Upto(f, b, i, n))[n]
      /\ Decimal(c, j, n) = (CHOOSE f : f = Upto(f, c, j, n))[n]
  BY Zenon DEF Decimal, Upto
<1> QED
  BY <1>2, <1>3, Zenon

(***************************************************************************)
(* What AscToInt and AscToHex return depends on nothing but the characters *)
(* up to the one that stops them.                                          *)
(***************************************************************************)

LEMMA AscToIntIs ==
  ASSUME NEW b, NEW i \in Int, NEW maxLen \in Nat, NEW n \in 0 .. maxLen + 1,
         \A k \in 0 .. n - 1 : b[i + k] \in Digits,
         n < maxLen + 1 => b[i + n] \notin Digits
  PROVE  AscToInt(b, i, maxLen) = [val |-> Decimal(b, i, n), end |-> i + n]
<1>1. RunLen(b, i, maxLen + 1) = n
  <2>1. maxLen + 1 \in Nat
    OBVIOUS
  <2> QED
    BY <2>1, RunLenIs
<1> QED
  BY <1>1, Zenon DEF AscToInt

LEMMA AscToIntExists ==
  ASSUME NEW b, NEW i \in Int, NEW maxLen \in Nat
  PROVE  \E n \in 0 .. maxLen + 1 :
           /\ \A k \in 0 .. n - 1 : b[i + k] \in Digits
           /\ n < maxLen + 1 => b[i + n] \notin Digits
           /\ AscToInt(b, i, maxLen) = [val |-> Decimal(b, i, n), end |-> i + n]
<1>1. maxLen + 1 \in Nat
  OBVIOUS
<1> DEFINE n == RunLen(b, i, maxLen + 1)
<1>2. /\ n \in 0 .. maxLen + 1
      /\ \A k \in 0 .. n - 1 : b[i + k] \in Digits
      /\ n < maxLen + 1 => b[i + n] \notin Digits
  BY <1>1, RunLenExists
<1>3. AscToInt(b, i, maxLen) = [val |-> Decimal(b, i, n), end |-> i + n]
  BY Zenon DEF AscToInt
<1> QED
  BY <1>2, <1>3

LEMMA AscToIntRange ==
  ASSUME NEW b, NEW i \in Int, NEW maxLen \in Nat
  PROVE  /\ AscToInt(b, i, maxLen).val \in Nat
         /\ maxLen <= 1 => AscToInt(b, i, maxLen).val \in 0 .. 99
         /\ AscToInt(b, i, maxLen).end \in i .. i + maxLen + 1
<1>1. PICK n \in 0 .. maxLen + 1 :
           /\ \A k \in 0 .. n - 1 : b[i + k] \in Digits
           /\ AscToInt(b, i, maxLen) = [val |-> Decimal(b, i, n), end |-> i + n]
  BY AscToIntExists
<1>2. Decimal(b, i, n) \in Nat /\ (n <= 2 => Decimal(b, i, n) \in 0 .. 99)
  BY <1>1, DecimalRange
<1> QED
  BY <1>1, <1>2

\* A character that is no digit stops it.
LEMMA AscToIntStops ==
  ASSUME NEW b, NEW i \in Int, NEW maxLen \in Nat, NEW z \in Int, i <= z, b[z] \notin Digits
  PROVE  AscToInt(b, i, maxLen).end \in i .. z
<1>1. PICK n \in 0 .. maxLen + 1 :
           /\ \A k \in 0 .. n - 1 : b[i + k] \in Digits
           /\ AscToInt(b, i, maxLen) = [val |-> Decimal(b, i, n), end |-> i + n]
  BY AscToIntExists
<1>2. i + n <= z
  <2> SUFFICES ASSUME i + n > z PROVE FALSE
    OBVIOUS
  <2>1. z - i \in 0 .. n - 1 /\ i + (z - i) = z
    OBVIOUS
  <2> QED
    BY <1>1, <2>1
<1> QED
  BY <1>1, <1>2

LEMMA AscToIntSame ==
  ASSUME NEW b, NEW c, NEW i \in Int, NEW maxLen \in Nat,
         \A k \in i .. AscToInt(b, i, maxLen).end : b[k] = c[k]
  PROVE  AscToInt(c, i, maxLen) = AscToInt(b, i, maxLen)
<1>1. PICK n \in 0 .. maxLen + 1 :
           /\ \A k \in 0 .. n - 1 : b[i + k] \in Digits
           /\ n < maxLen + 1 => b[i + n] \notin Digits
           /\ AscToInt(b, i, maxLen) = [val |-> Decimal(b, i, n), end |-> i + n]
  BY AscToIntExists
<1>2. ASSUME NEW k \in 0 .. n PROVE b[i + k] = c[i + k]
  <2>1. AscToInt(b, i, maxLen).end = i + n
    BY <1>1
  <2>2. i + k \in i .. i + n
    OBVIOUS
  <2> QED
    BY <2>1, <2>2
<1>3. \A k \in 0 .. n - 1 : k \in 0 .. n
  OBVIOUS
<1>4. AscToInt(c, i, maxLen) = [val |-> Decimal(c, i, n), end |-> i + n]
  <2>1. \A k \in 0 .. n - 1 : c[i + k] \in Digits
    BY <1>1, <1>2, <1>3
  <2>2. n < maxLen + 1 => c[i + n] \notin Digits
    BY <1>1, <1>2
  <2> QED
    BY <2>1, <2>2, AscToIntIs
<1>5. Decimal(b, i, n) = Decimal(c, i, n)
  <2>1. \A k \in 0 .. n - 1 : b[i + k] = c[i + k]
    BY <1>2, <1>3
  <2> QED
    BY <2>1, DecimalSame
<1> QED
  BY <1>1, <1>4, <1>5

LEMMA HexInFinite ==
  ASSUME NEW b, NEW i \in Nat, NEW e \in Int
  PROVE  /\ HexIn(b, i, e) \in SUBSET Nat /\ HexIn(b, i, e) \subseteq i .. e - 1
         /\ IsFiniteSet(HexIn(b, i, e)) /\ Cardinality(HexIn(b, i, e)) \in Nat
<1>1. IsFiniteSet(i .. e - 1)
  BY FS_Interval
<1>2. HexIn(b, i, e) \in SUBSET (i .. e - 1)
  BY DEF HexIn
<1>3. IsFiniteSet(HexIn(b, i, e))
  BY <1>1, <1>2, FS_Subset
<1>4. HexIn(b, i, e) \in SUBSET Nat
  BY <1>2
<1> QED
  BY <1>2, <1>3, <1>4, FS_CardinalityType

LEMMA AscToHexIs ==
  ASSUME NEW b, NEW i, NEW maxLen, NEW exit
  PROVE  LET e    == HexEnd(b, i, maxLen, exit)
             read == HexIn(b, i, e)
         IN AscToHex(b, i, maxLen, exit) =
              [bytes |-> [k \in 1 .. Cardinality(read) \div 2 |->
                            16 * Value[b[Nth(read, 2 * k - 1)]] + Value[b[Nth(read, 2 * k)]]],
               end   |-> e]
BY Zenon DEF AscToHex

LEMMA FunctionIsSeq ==
  ASSUME NEW S, NEW n \in Nat, NEW r \in [1 .. n -> S]
  PROVE  r \in Seq(S) /\ Len(r) = n
OBVIOUS

LEMMA HalfOf ==
  ASSUME NEW n \in Nat, NEW k \in 1 .. n \div 2
  PROVE  2 * k - 1 \in 1 .. n /\ 2 * k \in 1 .. n /\ k \in Nat /\ n \div 2 \in Nat
OBVIOUS

LEMMA AscToHexRange ==
  ASSUME NEW b, DOMAIN b \subseteq Nat, NEW i \in Nat, NEW maxLen, NEW exit,
         HexEnd(b, i, maxLen, exit) \in Int
  PROVE  LET r == AscToHex(b, i, maxLen, exit).bytes
         IN r \in Seq(0 .. 255) /\ r \in [1 .. Len(r) -> 0 .. 255]
<1> DEFINE e == HexEnd(b, i, maxLen, exit)
           read == HexIn(b, i, e)
           n == Cardinality(read)
           byte(k) == 16 * Value[b[Nth(read, 2 * k - 1)]] + Value[b[Nth(read, 2 * k)]]
           r == [k \in 1 .. n \div 2 |-> byte(k)]
<1>1. /\ read \in SUBSET Nat /\ IsFiniteSet(read) /\ n \in Nat
  BY HexInFinite
<1>2. ASSUME NEW k \in 1 .. n \div 2 PROVE byte(k) \in 0 .. 255
  <2>1. 2 * k - 1 \in 1 .. n /\ 2 * k \in 1 .. n
    BY <1>1, HalfOf
  <2> HIDE DEF n
  <2>2. Nth(read, 2 * k - 1) \in read /\ Nth(read, 2 * k) \in read
    BY <1>1, <2>1, NthExists DEF n
  <2>3. \A x \in read : b[x] \in HexDigits
    BY DEF HexIn
  <2>4. Value[b[Nth(read, 2 * k - 1)]] \in 0 .. 15 /\ Value[b[Nth(read, 2 * k)]] \in 0 .. 15
    BY <2>2, <2>3, ValueRange
  <2> QED
    BY <2>4
<1>3. AscToHex(b, i, maxLen, exit).bytes = r
  BY AscToHexIs
<1> HIDE DEF n, byte
<1>4. PICK h \in Nat : h = n \div 2
  BY <1>1
<1>5. r \in [1 .. h -> 0 .. 255]
  BY <1>2, <1>4
<1> HIDE DEF r
<1>6. r \in Seq(0 .. 255) /\ Len(r) = h
  BY <1>5, FunctionIsSeq
<1> QED
  BY <1>3, <1>5, <1>6

LEMMA AscToHexSame ==
  ASSUME NEW b, NEW c, DOMAIN b \subseteq Nat, DOMAIN c \subseteq Nat,
         NEW i \in Nat, NEW maxLen, NEW exit,
         NEW e \in DOMAIN c, e >= i, HexEnd(b, i, maxLen, exit) = e,
         HexStops(b, i, e, maxLen, exit),
         \A k \in i .. e - 1 : ~HexStops(b, i, k, maxLen, exit),
         \A k \in i .. e : b[k] = c[k]
  PROVE  AscToHex(c, i, maxLen, exit) = AscToHex(b, i, maxLen, exit)
<1>0. e \in Nat /\ DOMAIN c \subseteq Int
  OBVIOUS
<1>1. \A k \in i .. e : b[k] = c[k]
  OBVIOUS
<1>2. ASSUME NEW x \in i .. e PROVE HexIn(c, i, x) = HexIn(b, i, x)
  <2>1. x \in Int /\ e \in Int /\ x <= e /\ \A k \in i .. e - 1 : b[k] = c[k]
    BY <1>0, <1>1
  <2> QED
    BY <2>1 DEF HexIn
<1>3. ASSUME NEW x \in i .. e
      PROVE  HexStops(c, i, x, maxLen, exit) <=> HexStops(b, i, x, maxLen, exit)
  BY <1>1, <1>2, Zenon DEF HexStops
<1>4. e \in i .. e /\ \A k \in i .. e - 1 : k \in i .. e
  BY <1>0
<1>5. HexStops(c, i, e, maxLen, exit) /\ \A k \in i .. e - 1 : ~HexStops(c, i, k, maxLen, exit)
  BY <1>3, <1>4, Zenon
<1>6. HexEnd(c, i, maxLen, exit) = e
  BY <1>0, <1>5, HexEndIs
<1> DEFINE read == HexIn(b, i, e)
           n == Cardinality(read)
<1>7. HexIn(c, i, e) = read
  BY <1>2, <1>4
<1>8. read \in SUBSET Nat /\ read \subseteq i .. e - 1 /\ IsFiniteSet(read) /\ n \in Nat
  BY <1>0, HexInFinite
<1>9. ASSUME NEW k \in 1 .. n \div 2
      PROVE  /\ c[Nth(read, 2 * k - 1)] = b[Nth(read, 2 * k - 1)]
             /\ c[Nth(read, 2 * k)] = b[Nth(read, 2 * k)]
  <2>1. 2 * k - 1 \in 1 .. n /\ 2 * k \in 1 .. n
    BY <1>8, HalfOf
  <2>2. Nth(read, 2 * k - 1) \in read /\ Nth(read, 2 * k) \in read
    BY <1>8, <2>1, NthExists
  <2> QED
    BY <1>1, <1>4, <1>8, <2>2
<1>10. AscToHex(b, i, maxLen, exit) =
         [bytes |-> [k \in 1 .. n \div 2 |->
                       16 * Value[b[Nth(read, 2 * k - 1)]] + Value[b[Nth(read, 2 * k)]]],
          end   |-> e]
  BY AscToHexIs
<1>11. AscToHex(c, i, maxLen, exit) =
         [bytes |-> [k \in 1 .. n \div 2 |->
                       16 * Value[c[Nth(read, 2 * k - 1)]] + Value[c[Nth(read, 2 * k)]]],
          end   |-> e]
  BY <1>6, <1>7, AscToHexIs
<1> HIDE DEF read, n
<1> QED
  BY <1>9, <1>10, <1>11

\* On an address of its length and nothing else it reads the pairs.
LEMMA AscToHexPlain ==
  ASSUME NEW b, DOMAIN b \subseteq Nat, NEW i \in Nat, NEW m \in Nat \ {0}, NEW exit,
         exit \notin HexDigits, i + 2 * m \in DOMAIN b,
         \A k \in i .. i + 2 * m - 1 : b[k] \in HexDigits
  PROVE  AscToHex(b, i, m, exit) =
           [bytes |-> [k \in 1 .. m |->
                         16 * Value[b[i + 2 * k - 2]] + Value[b[i + 2 * k - 1]]],
            end   |-> i + 2 * m]
<1> DEFINE e == i + 2 * m
<1>1. ASSUME NEW x \in i .. e PROVE HexIn(b, i, x) = i .. x - 1 /\ Cardinality(HexIn(b, i, x)) = x - i
  <2>1. HexIn(b, i, x) = i .. x - 1
    BY DEF HexIn
  <2>2. Cardinality(i .. x - 1) = x - i
    BY FS_Interval
  <2> QED
    BY <2>1, <2>2
<1>2. HexStops(b, i, e, m, exit)
  BY <1>1 DEF HexStops
<1>3. ASSUME NEW k \in i .. e - 1 PROVE ~HexStops(b, i, k, m, exit)
  <2>0. b[k] \in HexDigits
    OBVIOUS
  <2>1. b[k] \notin {"NUL", exit}
    BY <2>0, DigitChars
  <2>2. Cardinality(HexIn(b, i, k)) # 2 * m
    BY <1>1
  <2> QED
    BY <2>1, <2>2 DEF HexStops
<1>4. HexEnd(b, i, m, exit) = e
  <2>1. DOMAIN b \subseteq Int /\ i \in Int /\ e \in DOMAIN b /\ e >= i
    OBVIOUS
  <2> HIDE DEF e
  <2> QED
    BY <1>2, <1>3, <2>1, HexEndIs
<1> DEFINE read == HexIn(b, i, e)
<1>5. read = i .. e - 1 /\ Cardinality(read) = 2 * m
  BY <1>1
<1>6. ASSUME NEW k \in 1 .. 2 * m PROVE Nth(read, k) = i + k - 1
  <2>1. read \in SUBSET Nat /\ IsFiniteSet(read)
    <3>1. e \in Int
      OBVIOUS
    <3> QED
      BY <3>1, HexInFinite
  <2>2. i + k - 1 \in read /\ {x \in read : x <= i + k - 1} = i .. i + k - 1
    BY <1>5
  <2>3. Cardinality(i .. i + k - 1) = k
    BY FS_Interval
  <2> HIDE DEF read
  <2> QED
    BY <2>1, <2>2, <2>3, NthIs
<1>7. Cardinality(read) \div 2 = m
  BY <1>5
<1>8. ASSUME NEW k \in 1 .. m
      PROVE  Nth(read, 2 * k - 1) = i + 2 * k - 2 /\ Nth(read, 2 * k) = i + 2 * k - 1
  <2>1. 2 * k - 1 \in 1 .. 2 * m /\ 2 * k \in 1 .. 2 * m
    OBVIOUS
  <2> QED
    BY <1>6, <2>1
<1>9. AscToHex(b, i, m, exit) =
         [bytes |-> [k \in 1 .. Cardinality(read) \div 2 |->
                       16 * Value[b[Nth(read, 2 * k - 1)]] + Value[b[Nth(read, 2 * k)]]],
          end   |-> e]
  BY <1>4, AscToHexIs
<1> HIDE DEF read
<1> QED
  BY <1>7, <1>8, <1>9
=============================================================================

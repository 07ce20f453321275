--------------------------- MODULE BencodeProofs ---------------------------
(***************************************************************************)
(* Theorems about Bencode, for sources of any bytes and any length.        *)
(***************************************************************************)
EXTENDS Bencode, WellFoundedInduction, SequenceTheorems, TLAPS

-----------------------------------------------------------------------------

(* Induction and recursion on the natural numbers *)

\* A set of natural numbers has a least one.
LEMMA Least ==
  ASSUME NEW S \in SUBSET Nat, S # {}
  PROVE  \E n \in S : \A m \in S : n <= m
<1>1. \E R : IsWellFoundedOn(R, Nat) /\ \A a, b \in Nat : a < b => <<a, b>> \in R
  BY NatLessThanWellFounded DEF OpToRel
<1>2. PICK R : IsWellFoundedOn(R, Nat) /\ \A a, b \in Nat : a < b => <<a, b>> \in R
  BY <1>1
<1>3. PICK n \in S : \A m \in S : ~(<<m, n>> \in R)
  <2>1. S \subseteq Nat /\ S # {} /\ IsWellFoundedOn(R, Nat)
    BY <1>2
  <2>. QED
    BY <2>1, WFMin
<1>4. ASSUME NEW m \in S PROVE n <= m
  <2>1. m \in Nat /\ n \in Nat
    OBVIOUS
  <2>2. ~(m < n)
    BY <1>2, <1>3, <2>1
  <2>. QED
    BY <2>1, <2>2
<1>. QED
  BY <1>4

\* Whatever holds of 0, and of n + 1 if of n, holds up to N.
LEMMA UpTo ==
  ASSUME NEW N \in Nat, NEW S, 0 \in S, \A n \in 0 .. (N - 1) : n \in S => n + 1 \in S
  PROVE  \A n \in 0 .. N : n \in S
<1>. DEFINE T == {n \in 0 .. N : n \notin S}
<1>. SUFFICES ASSUME T # {} PROVE FALSE
  OBVIOUS
<1>1. T \in SUBSET Nat
  OBVIOUS
<1>2. PICK n \in T : \A m \in T : n <= m
  BY <1>1, Least
<1>3. n \in 0 .. N /\ n \notin S /\ n # 0
  OBVIOUS
<1>4. n - 1 \in 0 .. (N - 1) /\ n - 1 \in 0 .. N /\ ~(n <= n - 1) /\ (n - 1) + 1 = n
  BY <1>3
<1>5. n - 1 \in S
  BY <1>2, <1>4
<1>. QED
  BY <1>3, <1>4, <1>5

\* f is defined by its value at 0 and a step, up to N.
Recursive(f, N, v, step) == f[0] = v /\ \A k \in 1 .. N : f[k] = step[<<f[k - 1], k>>]

\* Such a function exists.
LEMMA Recursion ==
  ASSUME NEW N \in Nat, NEW V, NEW v \in V, NEW step \in [V \X (1 .. N) -> V]
  PROVE  \E f \in [0 .. N -> V] : Recursive(f, N, v, step)
<1>. DEFINE Defined(n, f) == f[0] = v /\ \A k \in 1 .. n : f[k] = step[<<f[k - 1], k>>]
            S == {n \in 0 .. N : \E f \in [0 .. n -> V] : Defined(n, f)}
<1>1. 0 \in S
  <2>1. PICK f : f = [k \in 0 .. 0 |-> v]
    OBVIOUS
  <2>2. f \in [0 .. 0 -> V] /\ f[0] = v /\ 0 \in 0 .. N
    BY <2>1
  <2>3. \A k \in 1 .. 0 : FALSE
    OBVIOUS
  <2>4. Defined(0, f)
    BY <2>2, <2>3
  <2>. QED
    BY <2>2, <2>4
<1>2. ASSUME NEW n \in 0 .. (N - 1), n \in S PROVE n + 1 \in S
  <2>1. PICK f \in [0 .. n -> V] : Defined(n, f)
    BY <1>2
  <2>2. /\ n \in Nat /\ n \in 0 .. n /\ n + 1 \in 1 .. N /\ n + 1 \in 0 .. N
        /\ 0 \in 0 .. n /\ n + 1 \in 0 .. (n + 1)
    OBVIOUS
  <2>. DEFINE w == step[<<f[n], n + 1>>]
  <2>3. w \in V
    BY <2>2
  <2>. HIDE DEF w
  <2>. DEFINE g == [k \in 0 .. (n + 1) |-> IF k <= n THEN f[k] ELSE w]
  <2>4. \A k \in 0 .. (n + 1) : (k \in 0 .. n /\ k <= n) \/ (k = n + 1 /\ ~(k <= n))
    BY <2>2
  <2>5. g \in [0 .. (n + 1) -> V]
    <3>1. ASSUME NEW k \in 0 .. (n + 1) PROVE (IF k <= n THEN f[k] ELSE w) \in V
      BY <2>3, <2>4
    <3>. QED
      BY <3>1
  <2>6. g[n + 1] = w
    BY <2>2, <2>4
  <2>7. ASSUME NEW k \in 0 .. n PROVE g[k] = f[k]
    <3>1. k \in 0 .. (n + 1) /\ k <= n
      BY <2>2
    <3>. QED
      BY <3>1
  <2>. HIDE DEF g
  <2>8. ASSUME NEW k \in 1 .. (n + 1) PROVE g[k] = step[<<g[k - 1], k>>]
    <3>1. k - 1 \in 0 .. n /\ ((k \in 1 .. n /\ k \in 0 .. n) \/ k = n + 1)
      BY <2>2
    <3>2. g[k - 1] = f[k - 1]
      BY <2>7, <3>1
    <3>3. CASE k \in 1 .. n /\ k \in 0 .. n
      <4>1. g[k] = f[k]
        BY <2>7, <3>3
      <4>2. f[k] = step[<<f[k - 1], k>>]
        BY <2>1, <3>3
      <4>. QED
        BY <3>2, <4>1, <4>2
    <3>4. CASE k = n + 1
      <4>1. k - 1 = n
        BY <2>2, <3>4
      <4>. QED
        BY <2>6, <3>2, <3>4, <4>1 DEF w
    <3>. QED
      BY <3>1, <3>3, <3>4
  <2>9. g[0] = v
    <3>1. g[0] = f[0]
      BY <2>2, <2>7
    <3>. QED
      BY <2>1, <3>1
  <2>10. Defined(n + 1, g)
    BY <2>8, <2>9
  <2>. QED
    BY <2>2, <2>5, <2>10
<1>. HIDE DEF S
<1>3. N \in S
  <2>1. N \in 0 .. N
    OBVIOUS
  <2>. QED
    BY <1>1, <1>2, <2>1, UpTo
<1>. QED
  BY <1>3 DEF S, Recursive

\* Whatever holds of a number up to N if it does of all above holds of all.
LEMMA Backward ==
  ASSUME NEW N \in Nat, NEW S, \A i \in 1 .. N : (\A j \in (i + 1) .. N : j \in S) => i \in S
  PROVE  \A i \in 1 .. N : i \in S
<1>. DEFINE T == {m \in Nat : m < N /\ N - m \notin S}
<1>. SUFFICES ASSUME NEW k \in 1 .. N, k \notin S PROVE FALSE
  OBVIOUS
<1>1. T \in SUBSET Nat /\ T # {}
  <2>1. N - k \in Nat /\ N - k < N /\ N - (N - k) = k
    OBVIOUS
  <2>. QED
    BY <2>1
<1>2. PICK m \in T : \A n \in T : m <= n
  BY <1>1, Least
<1>3. m \in Nat /\ N - m \in 1 .. N /\ N - m \notin S
  OBVIOUS
<1>4. ASSUME NEW j \in (N - m + 1) .. N PROVE j \in S
  <2>1. N - j \in Nat /\ N - j < N /\ N - j < m /\ N - (N - j) = j
    BY <1>3
  <2>2. N - j \notin T
    BY <1>2, <1>3, <2>1
  <2>. QED
    BY <2>1, <2>2
<1>5. N - m \in S
  BY <1>3, <1>4
<1>. QED
  BY <1>3, <1>5

-----------------------------------------------------------------------------
(* Digits and numbers *)

LEMMA DigitsAre == Digits = {"0", "1", "2", "3", "4", "5", "6", "7", "8", "9"}
<1>1. 1 .. 10 = {1, 2, 3, 4, 5, 6, 7, 8, 9, 10}
  OBVIOUS
<1>2. /\ Numerals[1] = "0" /\ Numerals[2] = "1" /\ Numerals[3] = "2" /\ Numerals[4] = "3"
      /\ Numerals[5] = "4" /\ Numerals[6] = "5" /\ Numerals[7] = "6" /\ Numerals[8] = "7"
      /\ Numerals[9] = "8" /\ Numerals[10] = "9"
  BY DEF Numerals
<1>3. ASSUME NEW c PROVE c \in Digits <=> \E d \in 1 .. 10 : c = Numerals[d]
  BY DEF Digits
<1>. QED
  BY <1>1, <1>2, <1>3

LEMMA OtherBytes ==
  /\ "i" \notin Digits /\ "e" \notin Digits /\ "l" \notin Digits /\ "d" \notin Digits
  /\ ":" \notin Digits /\ "+" \notin Digits /\ "-" \notin Digits /\ "" \notin Digits
  BY DigitsAre

LEMMA DigitType ==
  ASSUME NEW c \in Digits
  PROVE  Digit[c] \in 0 .. 9
<1>1. PICK k \in 1 .. 10 : c = Numerals[k]
  BY DEF Digits
<1>2. k - 1 \in 0 .. 9 /\ (k - 1) + 1 = k
  OBVIOUS
<1>3. \E d \in 0 .. 9 : Numerals[d + 1] = c
  BY <1>1, <1>2
<1>4. Digit[c] = CHOOSE d \in 0 .. 9 : Numerals[d + 1] = c
  BY DEF Digit
<1>. QED
  BY <1>3, <1>4

\* A number is read digit by digit.
LEMMA NumberSteps ==
  ASSUME NEW B, NEW s \in Seq(B), \A k \in 1 .. Len(s) : s[k] \in Digits
  PROVE  \E n \in [0 .. Len(s) -> Nat] :
            /\ Number(s) = n[Len(s)] /\ n[0] = 0
            /\ \A k \in 1 .. Len(s) : n[k] = 10 * n[k - 1] + Digit[s[k]]
<1>. DEFINE N == Len(s)
            P(f) == f = [k \in 0 .. N |-> IF k = 0 THEN 0 ELSE 10 * f[k - 1] + Digit[s[k]]]
            n == CHOOSE f : P(f)
<1>1. N \in Nat /\ Number(s) = n[N]
  BY DEF Number
<1>2. \A k \in 1 .. N : Digit[s[k]] \in Nat
  BY DigitType
<1>. HIDE DEF N
<1>3. \E f \in [0 .. N -> Nat] : P(f)
  <2>. DEFINE V == Nat
              v == 0
              step == [x \in V \X (1 .. N) |-> 10 * x[1] + Digit[s[x[2]]]]
  <2>1. N \in Nat /\ v \in V /\ step \in [V \X (1 .. N) -> V]
    <3>1. ASSUME NEW x \in Nat \X (1 .. N) PROVE 10 * x[1] + Digit[s[x[2]]] \in Nat
      BY <1>2
    <3>. QED
      BY <1>1, <3>1
  <2>2. \A m \in Nat, k \in 1 .. N : step[<<m, k>>] = 10 * m + Digit[s[k]]
    OBVIOUS
  <2>. HIDE DEF step, V, v
  <2>3. PICK f \in [0 .. N -> V] : Recursive(f, N, v, step)
    BY <2>1, Recursion
  <2>4. f \in [0 .. N -> Nat] /\ f[0] = 0 /\ \A k \in 1 .. N : f[k] = step[<<f[k - 1], k>>]
    BY <2>3 DEF Recursive, V, v
  <2>5. ASSUME NEW k \in 0 .. N, k # 0 PROVE f[k] = 10 * f[k - 1] + Digit[s[k]]
    <3>1. k \in 1 .. N /\ k - 1 \in 0 .. N
      BY <1>1, <2>5
    <3>. QED
      BY <2>2, <2>4, <3>1
  <2>6. P(f)
    BY <2>4, <2>5
  <2>. QED
    BY <2>4, <2>6
<1>4. P(n)
  <2>. HIDE DEF P
  <2>. QED
    BY <1>3
<1>5. n[0] = 0 /\ \A k \in 1 .. N : n[k] = 10 * n[k - 1] + Digit[s[k]]
  <2>. HIDE DEF n
  <2>. QED
    BY <1>1, <1>4
<1>6. n = [k \in 0 .. N |-> n[k]]
  <2>. HIDE DEF n
  <2>. QED
    BY <1>4
<1>. HIDE DEF n
<1>. DEFINE S == {k \in 0 .. N : n[k] \in Nat}
<1>7. 0 \in S
  BY <1>1, <1>5
<1>8. ASSUME NEW k \in 0 .. (N - 1), k \in S PROVE k + 1 \in S
  <2>1. k + 1 \in 1 .. N /\ (k + 1) - 1 = k /\ k + 1 \in 0 .. N
    BY <1>1
  <2>2. n[k + 1] = 10 * n[k] + Digit[s[k + 1]]
    BY <1>5, <2>1
  <2>. QED
    BY <1>2, <1>8, <2>1, <2>2
<1>. HIDE DEF S
<1>9. \A k \in 0 .. N : k \in S
  BY <1>1, <1>7, <1>8, UpTo
<1>10. n \in [0 .. N -> Nat]
  BY <1>6, <1>9 DEF S
<1>. QED
  BY <1>1, <1>5, <1>10 DEF N

LEMMA NumberType ==
  ASSUME NEW B, NEW s \in Seq(B), IsNumeral(s)
  PROVE  Number(s) \in Nat
<1>1. Len(s) \in Nat /\ \A k \in 1 .. Len(s) : s[k] \in Digits
  BY DEF IsNumeral
<1>2. PICK n \in [0 .. Len(s) -> Nat] : Number(s) = n[Len(s)]
  BY <1>1, NumberSteps
<1>. QED
  BY <1>1, <1>2

LEMMA EmptyNumber == Number(<<>>) = 0
<1>1. <<>> \in Seq(Nat) /\ Len(<<>>) = 0 /\ \A k \in 1 .. 0 : FALSE
  OBVIOUS
<1>. QED
  BY <1>1, NumberSteps

\* One digit more makes it ten times as large, and the digit.
LEMMA NextDigit ==
  ASSUME NEW B, NEW s \in Seq(B), NEW c \in B, c \in Digits,
         \A k \in 1 .. Len(s) : s[k] \in Digits
  PROVE  Number(Append(s, c)) = 10 * Number(s) + Digit[c]
<1>. DEFINE t == Append(s, c)
            N == Len(s)
<1>1. /\ N \in Nat /\ t \in Seq(B) /\ Len(t) = N + 1 /\ t[N + 1] = c
      /\ \A k \in 1 .. N : t[k] = s[k]
  OBVIOUS
<1>2. \A k \in 1 .. (N + 1) : k \in 1 .. N \/ k = N + 1
  BY <1>1
<1>. HIDE DEF t
<1>3. \A k \in 1 .. Len(t) : t[k] \in Digits
  BY <1>1, <1>2
<1>4. PICK n \in [0 .. N -> Nat] :
        /\ Number(s) = n[N] /\ n[0] = 0
        /\ \A k \in 1 .. N : n[k] = 10 * n[k - 1] + Digit[s[k]]
  BY NumberSteps
<1>5. PICK m \in [0 .. (N + 1) -> Nat] :
        /\ Number(t) = m[N + 1] /\ m[0] = 0
        /\ \A k \in 1 .. (N + 1) : m[k] = 10 * m[k - 1] + Digit[t[k]]
  <2>1. \E m \in [0 .. Len(t) -> Nat] :
          /\ Number(t) = m[Len(t)] /\ m[0] = 0
          /\ \A k \in 1 .. Len(t) : m[k] = 10 * m[k - 1] + Digit[t[k]]
    BY <1>1, <1>3, NumberSteps
  <2>. QED
    BY <1>1, <2>1
<1>. HIDE DEF N
<1>. DEFINE S == {k \in 0 .. N : m[k] = n[k]}
<1>6. 0 \in S
  BY <1>1, <1>4, <1>5
<1>7. ASSUME NEW k \in 0 .. (N - 1), k \in S PROVE k + 1 \in S
  <2>1. /\ k + 1 \in 1 .. N /\ k + 1 \in 1 .. (N + 1) /\ (k + 1) - 1 = k
        /\ k + 1 \in 0 .. N
    BY <1>1
  <2>2. n[k + 1] = 10 * n[k] + Digit[s[k + 1]]
    BY <1>4, <2>1
  <2>3. m[k + 1] = 10 * m[k] + Digit[t[k + 1]]
    BY <1>5, <2>1
  <2>. QED
    BY <1>1, <1>7, <2>1, <2>2, <2>3
<1>. HIDE DEF S
<1>8. N \in S
  <2>1. N \in 0 .. N
    BY <1>1
  <2>. QED
    BY <1>1, <1>6, <1>7, <2>1, UpTo
<1>9. N + 1 \in 1 .. (N + 1) /\ (N + 1) - 1 = N
  BY <1>1
<1>10. m[N + 1] = 10 * m[N] + Digit[c]
  BY <1>1, <1>5, <1>9
<1>. QED
  BY <1>4, <1>5, <1>8, <1>10 DEF S, t

\* The value of a digit.
LEMMA DigitIs ==
  ASSUME NEW d \in 0 .. 9
  PROVE  Numerals[d + 1] \in Digits /\ Digit[Numerals[d + 1]] = d
<1>. DEFINE c == Numerals[d + 1]
<1>1. d + 1 \in 1 .. 10
  OBVIOUS
<1>2. c \in Digits
  BY <1>1 DEF Digits
<1>3. ASSUME NEW e \in 0 .. 9, Numerals[e + 1] = c PROVE e = d
  <2>1. e \in {0, 1, 2, 3, 4, 5, 6, 7, 8, 9} /\ d \in {0, 1, 2, 3, 4, 5, 6, 7, 8, 9}
    OBVIOUS
  <2>. QED
    BY <1>3, <2>1 DEF Numerals
<1>. HIDE DEF c
<1>4. Digit[c] = CHOOSE e \in 0 .. 9 : Numerals[e + 1] = c
  BY <1>2 DEF Digit
<1>5. \E e \in 0 .. 9 : Numerals[e + 1] = c
  BY DEF c
<1>6. Digit[c] \in 0 .. 9 /\ Numerals[Digit[c] + 1] = c
  BY <1>4, <1>5
<1>7. Digit[c] = d
  BY <1>3, <1>6
<1>. QED
  BY <1>2, <1>7 DEF c

\* The first place from i on without a digit: it is one, and there is no other.
LEMMA AfterDigitsFacts ==
  ASSUME NEW B, NEW s \in Seq(B), NEW i \in 1 .. (Len(s) + 1)
  PROVE  LET j == AfterDigits(s, i)
         IN  /\ j \in i .. (Len(s) + 1) /\ ~HoldsDigit(s, j)
             /\ \A k \in i .. (j - 1) : HoldsDigit(s, k)
<1>. DEFINE T == {j \in i .. (Len(s) + 1) : ~HoldsDigit(s, j)}
<1>1. Len(s) \in Nat /\ T \in SUBSET Nat /\ Len(s) + 1 \in T
  BY DEF HoldsDigit
<1>2. PICK j \in T : \A k \in T : j <= k
  <2>1. T \in SUBSET Nat /\ T # {}
    BY <1>1
  <2>. QED
    BY <2>1, Least
<1>3. \A k \in i .. (j - 1) : HoldsDigit(s, k)
  <2>. SUFFICES ASSUME NEW k \in i .. (j - 1), ~HoldsDigit(s, k) PROVE FALSE
    OBVIOUS
  <2>1. k \in i .. (Len(s) + 1) /\ ~(j <= k)
    BY <1>1
  <2>. QED
    BY <1>2, <2>1
<1>. QED
  BY <1>3 DEF AfterDigits

LEMMA AfterDigitsIs ==
  ASSUME NEW B, NEW s \in Seq(B), NEW i \in 1 .. (Len(s) + 1),
         NEW j \in i .. (Len(s) + 1), ~HoldsDigit(s, j),
         \A k \in i .. (j - 1) : HoldsDigit(s, k)
  PROVE  AfterDigits(s, i) = j
<1>. DEFINE m == AfterDigits(s, i)
<1>1. /\ m \in i .. (Len(s) + 1) /\ ~HoldsDigit(s, m)
      /\ \A k \in i .. (m - 1) : HoldsDigit(s, k)
  BY AfterDigitsFacts
<1>. HIDE DEF m
<1>2. ~(m < j)
  <2>. SUFFICES ASSUME m < j PROVE FALSE
    OBVIOUS
  <2>1. m \in i .. (j - 1)
    BY <1>1
  <2>. QED
    BY <1>1, <2>1
<1>3. ~(j < m)
  <2>. SUFFICES ASSUME j < m PROVE FALSE
    OBVIOUS
  <2>1. j \in i .. (m - 1)
    BY <1>1
  <2>. QED
    BY <1>1, <2>1
<1>. QED
  BY <1>1, <1>2, <1>3 DEF m

LEMMA FindIs ==
  ASSUME NEW B, NEW s \in Seq(B), NEW c, NEW i \in 1 .. (Len(s) + 1),
         NEW j \in i .. (Len(s) + 1), j <= Len(s) => s[j] = c,
         \A k \in i .. (j - 1) : s[k] # c
  PROVE  Find(s, i, c) = j
<1>. DEFINE m == Find(s, i, c)
<1>1. /\ m \in i .. (Len(s) + 1) /\ (m <= Len(s) => s[m] = c)
      /\ \A k \in i .. (m - 1) : s[k] # c
  BY DEF Find
<1>. HIDE DEF m
<1>2. Len(s) \in Nat
  OBVIOUS
<1>3. ~(m < j)
  <2>. SUFFICES ASSUME m < j PROVE FALSE
    OBVIOUS
  <2>1. m \in i .. (j - 1) /\ m <= Len(s)
    BY <1>1, <1>2
  <2>. QED
    BY <1>1, <2>1
<1>4. ~(j < m)
  <2>. SUFFICES ASSUME j < m PROVE FALSE
    OBVIOUS
  <2>1. j \in i .. (m - 1) /\ j <= Len(s)
    BY <1>1, <1>2
  <2>. QED
    BY <1>1, <2>1
<1>. QED
  BY <1>1, <1>3, <1>4 DEF m

-----------------------------------------------------------------------------
(* Integers and strings *)

\* r is Error, or a value and a place from lo on.
Result(r, lo, s) == r.ok = FALSE \/ (r.ok = TRUE /\ r.at \in lo .. (Len(s) + 1))

\* The bytes from i up to before j are digits.
LEMMA Numeral ==
  ASSUME NEW B, NEW s \in Seq(B), NEW i \in 1 .. (Len(s) + 1), NEW j \in i .. (Len(s) + 1)
  PROVE  /\ SubSeq(s, i, j - 1) \in Seq(B) /\ Len(SubSeq(s, i, j - 1)) = j - i
         /\ \A k \in 1 .. (j - i) : SubSeq(s, i, j - 1)[k] = s[i + k - 1]
         /\ IsNumeral(SubSeq(s, i, j - 1)) <=>
               i < j /\ \A k \in i .. (j - 1) : HoldsDigit(s, k)
<1>. DEFINE t == SubSeq(s, i, j - 1)
<1>1. /\ t \in Seq(B) /\ Len(t) = j - i
      /\ \A k \in 1 .. (j - i) : t[k] = s[i + k - 1]
  OBVIOUS
<1>. HIDE DEF t
<1>2. t = <<>> <=> j = i
  BY <1>1
<1>3. ASSUME \A k \in i .. (j - 1) : HoldsDigit(s, k), NEW k \in 1 .. Len(t) PROVE t[k] \in Digits
  <2>1. k \in 1 .. (j - i) /\ i + k - 1 \in i .. (j - 1)
    BY <1>1
  <2>. QED
    BY <1>1, <1>3, <2>1 DEF HoldsDigit
<1>4. ASSUME \A k \in 1 .. Len(t) : t[k] \in Digits, NEW k \in i .. (j - 1) PROVE HoldsDigit(s, k)
  <2>1. k - i + 1 \in 1 .. (j - i) /\ k - i + 1 \in 1 .. Len(t) /\ i + (k - i + 1) - 1 = k
        /\ k <= Len(s)
    BY <1>1
  <2>. QED
    BY <1>1, <1>4, <2>1 DEF HoldsDigit
<1>5. IsNumeral(t) <=> i < j /\ \A k \in i .. (j - 1) : HoldsDigit(s, k)
  <2>1. i < j <=> j # i
    OBVIOUS
  <2>. QED
    BY <1>2, <1>3, <1>4, <2>1 DEF IsNumeral
<1>. QED
  BY <1>1, <1>5 DEF t

LEMMA IntegerResult ==
  ASSUME NEW B, NEW s \in Seq(B), NEW i \in 1 .. Len(s)
  PROVE  Result(parse_integer(s, i), i + 1, s)
<1>. DEFINE sign == IF Holds(s, i + 1, "+") \/ Holds(s, i + 1, "-") THEN s[i + 1] ELSE ""
            first == IF sign = "" THEN i + 1 ELSE i + 2
            after == AfterDigits(s, first)
            digits == SubSeq(s, first, after - 1)
            n == Number(digits)
<1>1. first \in 1 .. (Len(s) + 1) /\ first >= i + 1
  <2>1. sign = "" \/ i + 1 <= Len(s)
    BY DEF Holds
  <2>. HIDE DEF sign
  <2>2. Len(s) \in Nat
    OBVIOUS
  <2>3. sign = "" => first = i + 1
    OBVIOUS
  <2>4. sign # "" => first = i + 2
    OBVIOUS
  <2>5. first = i + 1 \/ (i + 1 <= Len(s) /\ first = i + 2)
    BY <2>1, <2>3, <2>4, Zenon
  <2>. HIDE DEF first
  <2>. QED
    BY <2>2, <2>5
<1>. HIDE DEF first
<1>2. after \in first .. (Len(s) + 1)
  BY <1>1, AfterDigitsFacts
<1>3. parse_integer(s, i) =
        IF /\ first < after /\ Holds(s, after, "e") /\ Canonical(sign, digits)
           /\ InRange(sign, n)
        THEN Ok([kind |-> "integer", n |-> IF sign = "-" THEN -n ELSE n], after + 1)
        ELSE Error
  BY DEF parse_integer, first
<1>. HIDE DEF sign, after, digits, n
<1>. QED
  BY <1>1, <1>2, <1>3 DEF Result, Ok, Error, Holds

LEMMA IntegerAgrees ==
  ASSUME NEW B, NEW s \in Seq(B), NEW i \in 1 .. Len(s), s[i] = "i",
         NEW j \in 1 .. (Len(s) + 1)
  PROVE  parse_integer(s, i).ok /\ parse_integer(s, i).at = j <=> IsInteger(s, i, j)
<1>. DEFINE sign == IF Holds(s, i + 1, "+") \/ Holds(s, i + 1, "-") THEN s[i + 1] ELSE ""
            first == IF sign = "" THEN i + 1 ELSE i + 2
            after == AfterDigits(s, first)
            digits == SubSeq(s, first, after - 1)
            n == Number(digits)
<1>1. first \in 1 .. (Len(s) + 1) /\ first \in {i + 1, i + 2} /\ Len(s) \in Nat
      /\ (first = i + 1 => sign = "") /\ (first = i + 2 => sign \in {"+", "-"} /\ sign = s[i + 1])
  <2>1. sign = "" \/ (sign = s[i + 1] /\ sign \in {"+", "-"} /\ i + 1 <= Len(s))
    BY DEF Holds
  <2>. HIDE DEF sign
  <2>2. i + 1 # i + 2 /\ Len(s) \in Nat
    OBVIOUS
  <2>3. sign = "" => first = i + 1
    OBVIOUS
  <2>4. sign # "" => first = i + 2
    OBVIOUS
  <2>5. first = i + 1 \/ (i + 1 <= Len(s) /\ first = i + 2)
    BY <2>1, <2>3, <2>4, Zenon
  <2>6. (first = i + 1 => sign = "") /\ (first = i + 2 => sign \in {"+", "-"} /\ sign = s[i + 1])
    BY <2>1, <2>2, <2>3, <2>4, Zenon
  <2>. HIDE DEF first
  <2>7. first \in 1 .. (Len(s) + 1) /\ first \in {i + 1, i + 2}
    BY <2>2, <2>5
  <2>. QED
    BY <2>2, <2>6, <2>7
<1>2. parse_integer(s, i) =
        IF /\ first < after /\ Holds(s, after, "e") /\ Canonical(sign, digits)
           /\ InRange(sign, n)
        THEN Ok([kind |-> "integer", n |-> IF sign = "-" THEN -n ELSE n], after + 1)
        ELSE Error
  BY DEF parse_integer
<1>. HIDE DEF first
<1>3. /\ after \in first .. (Len(s) + 1) /\ ~HoldsDigit(s, after)
      /\ \A k \in first .. (after - 1) : HoldsDigit(s, k)
  BY <1>1, AfterDigitsFacts
<1>4. ASSUME parse_integer(s, i).ok, parse_integer(s, i).at = j PROVE IsInteger(s, i, j)
  <2>1. /\ first < after /\ Holds(s, after, "e") /\ Canonical(sign, digits)
        /\ InRange(sign, n) /\ j = after + 1
    <3>. HIDE DEF sign, after, digits, n
    <3>. QED
      BY <1>2, <1>4 DEF Ok, Error
  <2>2. IsNumeral(digits)
    <3>1. after \in first .. (Len(s) + 1)
      BY <1>3
    <3>. HIDE DEF after
    <3>. QED
      BY <1>1, <1>3, <2>1, <3>1, Numeral
  <2>3. digits = SubSeq(s, first, j - 2) /\ j - 1 = after /\ first < j - 1
    <3>1. after \in Int /\ j = after + 1 /\ first < after /\ first \in Int
      <4>1. after \in first .. (Len(s) + 1) /\ first \in 1 .. (Len(s) + 1)
        BY <1>1, <1>3
      <4>2. first < after /\ j = after + 1
        BY <2>1
      <4>. HIDE DEF after
      <4>. QED
        BY <4>1, <4>2
    <3>. HIDE DEF after
    <3>2. after - 1 = j - 2 /\ j - 1 = after /\ first < j - 1
      BY <3>1
    <3>. QED
      BY <3>2
  <2>4. s[j - 1] = "e"
    BY <2>1, <2>3 DEF Holds
  <2>5. (sign = "-" => digits[1] # "0") /\ (sign = "" => digits[1] # "0" \/ Len(digits) = 1)
    <3>. HIDE DEF sign, digits
    <3>. QED
      BY <2>1 DEF Canonical
  <2>6. sign = IF first = i + 1 THEN "" ELSE s[i + 1]
    BY <1>1
  <2>. HIDE DEF sign, after
  <2>. QED
    BY <1>1, <2>1, <2>2, <2>3, <2>4, <2>5, <2>6 DEF IsInteger
<1>5. ASSUME IsInteger(s, i, j) PROVE parse_integer(s, i).ok /\ parse_integer(s, i).at = j
  <2>. DEFINE Sign(d) == IF d = i + 1 THEN "" ELSE s[i + 1]
              ds(d) == SubSeq(s, d, j - 2)
  <2>1. PICK d \in {i + 1, i + 2} :
           /\ d < j - 1 /\ s[j - 1] = "e"
           /\ d = i + 2 => Sign(d) \in {"+", "-"}
           /\ IsNumeral(ds(d))
           /\ InRange(Sign(d), Number(ds(d)))
           /\ Sign(d) = "-" => ds(d)[1] # "0"
           /\ Sign(d) = "" => ds(d)[1] # "0" \/ Len(ds(d)) = 1
    BY <1>5 DEF IsInteger
  <2>2. /\ d < j - 1 /\ s[j - 1] = "e" /\ j - 1 \in 1 .. Len(s) /\ (j - 1) - 1 = j - 2
        /\ d \in 1 .. (Len(s) + 1) /\ j - 1 \in d .. (Len(s) + 1)
    <3>1. (d = i + 1 \/ d = i + 2) /\ d < j - 1 /\ s[j - 1] = "e"
      BY <2>1
    <3>2. Len(s) \in Nat
      OBVIOUS
    <3>. HIDE DEF Sign, ds
    <3>. QED
      BY <3>1, <3>2
  <2>3. \A k \in d .. (j - 2) : HoldsDigit(s, k)
    <3>1. IsNumeral(SubSeq(s, d, (j - 1) - 1))
      BY <2>1, <2>2
    <3>2. \A k \in d .. ((j - 1) - 1) : HoldsDigit(s, k)
      BY <2>2, <3>1, Numeral
    <3>. QED
      BY <2>2, <3>2
  <2>4. ~HoldsDigit(s, j - 1)
    BY <2>2, OtherBytes DEF HoldsDigit
  <2>5. first = d
    <3>1. CASE d = i + 1
      <4>1. i + 1 \in d .. (j - 2)
        BY <2>2, <3>1
      <4>2. HoldsDigit(s, i + 1)
        BY <2>3, <4>1
      <4>3. sign = ""
        BY <4>2, OtherBytes DEF Holds, HoldsDigit
      <4>. QED
        BY <3>1, <4>3 DEF first
    <3>2. CASE d = i + 2
      <4>1. s[i + 1] \in {"+", "-"} /\ i + 1 <= Len(s)
        <5>1. d # i + 1
          BY <3>2
        <5>2. Sign(d) = s[i + 1]
          BY <5>1
        <5>3. i + 1 <= Len(s)
          BY <2>2, <3>2
        <5>. QED
          BY <2>1, <3>2, <5>2, <5>3
      <4>2. sign = s[i + 1] /\ sign # ""
        BY <4>1 DEF Holds
      <4>. QED
        BY <3>2, <4>2 DEF first
    <3>. QED
      BY <2>1, <3>1, <3>2
  <2>6. after = j - 1
    <3>1. \A k \in d .. ((j - 1) - 1) : HoldsDigit(s, k)
      BY <2>2, <2>3
    <3>2. AfterDigits(s, d) = j - 1
      BY <2>2, <2>4, <3>1, AfterDigitsIs
    <3>. QED
      BY <2>5, <3>2
  <2>7. digits = SubSeq(s, d, j - 2) /\ sign = (IF d = i + 1 THEN "" ELSE s[i + 1])
    <3>1. digits = SubSeq(s, d, j - 2)
      BY <2>2, <2>5, <2>6
    <3>2. first = i + 1 => sign = ""
      BY <1>1
    <3>3. first # i + 1 => sign = s[i + 1]
      BY <1>1
    <3>. QED
      BY <2>5, <3>1, <3>2, <3>3
  <2>8. /\ InRange(sign, n) /\ (sign = "-" => digits[1] # "0")
        /\ (sign = "" => digits[1] # "0" \/ Len(digits) = 1)
    <3>1. digits = ds(d) /\ sign = Sign(d)
      BY <2>7
    <3>. HIDE DEF digits, sign, ds, Sign
    <3>. QED
      BY <2>1, <3>1
  <2>9. Canonical(sign, digits)
    <3>1. sign \in {"", "+", "-"}
      BY <1>1
    <3>. HIDE DEF sign, digits
    <3>. QED
      BY <2>8, <3>1 DEF Canonical
  <2>10. first < after /\ Holds(s, after, "e") /\ after + 1 = j
    BY <2>2, <2>5, <2>6 DEF Holds
  <2>. HIDE DEF sign, digits, after, n
  <2>11. parse_integer(s, i)
           = Ok([kind |-> "integer", n |-> IF sign = "-" THEN -n ELSE n], after + 1)
    BY <1>2, <2>8, <2>9, <2>10
  <2>. QED
    BY <2>10, <2>11 DEF Ok
<1>. QED
  BY <1>4, <1>5

LEMMA BytesResult ==
  ASSUME NEW B, NEW s \in Seq(B), NEW i \in 1 .. (Len(s) + 1)
  PROVE  Result(parse_bytes(s, i), i + 1, s)
<1>. DEFINE colon == AfterDigits(s, i)
            n == Number(SubSeq(s, i, colon - 1))
<1>1. /\ colon \in i .. (Len(s) + 1) /\ ~HoldsDigit(s, colon)
      /\ \A k \in i .. (colon - 1) : HoldsDigit(s, k)
  BY AfterDigitsFacts
<1>2. parse_bytes(s, i) =
        IF i < colon /\ Holds(s, colon, ":") /\ n <= MaxLength /\ colon + n <= Len(s)
        THEN Ok([kind |-> "bytes", bytes |-> SubSeq(s, colon + 1, colon + n)], colon + n + 1)
        ELSE Error
  BY DEF parse_bytes
<1>. HIDE DEF colon
<1>3. i < colon => n \in Nat
  <2>. SUFFICES ASSUME i < colon PROVE n \in Nat
    OBVIOUS
  <2>1. SubSeq(s, i, colon - 1) \in Seq(B) /\ IsNumeral(SubSeq(s, i, colon - 1))
    BY <1>1, Numeral
  <2>. QED
    BY <2>1, NumberType
<1>. HIDE DEF n
<1>. QED
  BY <1>1, <1>2, <1>3 DEF Result, Ok, Error

LEMMA BytesAgrees ==
  ASSUME NEW B, NEW s \in Seq(B), MaxLength \in Nat, Len(s) <= MaxLength,
         NEW i \in 1 .. (Len(s) + 1), NEW j \in 1 .. (Len(s) + 1)
  PROVE  parse_bytes(s, i).ok /\ parse_bytes(s, i).at = j <=> IsBytes(s, i, j)
<1>. DEFINE colon == AfterDigits(s, i)
            n == Number(SubSeq(s, i, colon - 1))
<1>1. /\ colon \in i .. (Len(s) + 1) /\ ~HoldsDigit(s, colon)
      /\ \A k \in i .. (colon - 1) : HoldsDigit(s, k)
  BY AfterDigitsFacts
<1>2. parse_bytes(s, i) =
        IF i < colon /\ Holds(s, colon, ":") /\ n <= MaxLength /\ colon + n <= Len(s)
        THEN Ok([kind |-> "bytes", bytes |-> SubSeq(s, colon + 1, colon + n)], colon + n + 1)
        ELSE Error
  BY DEF parse_bytes
<1>3. ASSUME parse_bytes(s, i).ok, parse_bytes(s, i).at = j PROVE IsBytes(s, i, j)
  <2>1. i < colon /\ Holds(s, colon, ":") /\ colon + n <= Len(s) /\ j = colon + n + 1
    <3>. HIDE DEF colon, n
    <3>. QED
      BY <1>2, <1>3 DEF Ok, Error
  <2>. HIDE DEF colon
  <2>2. SubSeq(s, i, colon - 1) \in Seq(B) /\ IsNumeral(SubSeq(s, i, colon - 1))
    BY <1>1, <2>1, Numeral
  <2>3. n \in Nat
    BY <2>2, NumberType
  <2>4. colon \in (i + 1) .. (j - 1) /\ n = j - 1 - colon /\ s[colon] = ":"
    <3>. HIDE DEF n
    <3>. QED
      BY <1>1, <2>1, <2>3 DEF Holds
  <2>. QED
    BY <2>2, <2>4 DEF IsBytes
<1>4. ASSUME IsBytes(s, i, j) PROVE parse_bytes(s, i).ok /\ parse_bytes(s, i).at = j
  <2>1. PICK k \in (i + 1) .. (j - 1) :
           /\ s[k] = ":" /\ IsNumeral(SubSeq(s, i, k - 1))
           /\ Number(SubSeq(s, i, k - 1)) = j - 1 - k
    BY <1>4 DEF IsBytes
  <2>2. k \in i .. (Len(s) + 1) /\ k <= Len(s) /\ i < k
    OBVIOUS
  <2>3. ~HoldsDigit(s, k)
    BY <2>1, OtherBytes DEF HoldsDigit
  <2>4. \A m \in i .. (k - 1) : HoldsDigit(s, m)
    BY <2>1, <2>2, Numeral
  <2>5. colon = k
    BY <2>2, <2>3, <2>4, AfterDigitsIs
  <2>6. n = j - 1 - k /\ n <= MaxLength /\ colon + n <= Len(s) /\ colon + n + 1 = j
    BY <2>1, <2>2, <2>5
  <2>7. Holds(s, colon, ":")
    BY <2>1, <2>2, <2>5 DEF Holds
  <2>8. i < colon
    BY <2>2, <2>5
  <2>. HIDE DEF colon, n
  <2>. QED
    BY <1>2, <2>6, <2>7, <2>8 DEF Ok
<1>. QED
  BY <1>3, <1>4

-----------------------------------------------------------------------------
(* The parser as a function of the place *)

Kinds == {"value", "items", "pairs", "values"}

Places(s) == 1 .. (Len(s) + 1)

\* f does at i what the parser does there.
Steps(f, s, i) ==
  /\ f[<<"value", i>>] = parse_value(f, s, i)
  /\ f[<<"items", i>>] = Items(f, s, i)
  /\ f[<<"pairs", i>>] = Pairs(f, s, i)
  /\ f[<<"values", i>>] = Values(f, s, i)

\* And goes on.
Results(f, s, i) ==
  /\ Result(f[<<"value", i>>], i + 1, s)
  /\ Result(f[<<"items", i>>], i + 1, s)
  /\ Result(f[<<"pairs", i>>], i + 1, s)
  /\ Result(f[<<"values", i>>], i, s)

Same(f, g, i) == \A kind \in Kinds : f[<<kind, i>>] = g[<<kind, i>>]

\* A value is what the parser makes of later places.
LEMMA ValueSame ==
  ASSUME NEW B, NEW s \in Seq(B), NEW i \in Places(s), NEW f, NEW g,
         \A j \in (i + 1) .. (Len(s) + 1) : Same(f, g, j)
  PROVE  parse_value(f, s, i) = parse_value(g, s, i)
<1>1. ASSUME i <= Len(s) PROVE f[<<"items", i + 1>>] = g[<<"items", i + 1>>]
                               /\ f[<<"pairs", i + 1>>] = g[<<"pairs", i + 1>>]
  <2>1. i + 1 \in (i + 1) .. (Len(s) + 1)
    BY <1>1 DEF Places
  <2>2. Same(f, g, i + 1)
    BY <2>1
  <2>. QED
    BY <2>2 DEF Same, Kinds
<1>2. (Holds(s, i, "l") \/ Holds(s, i, "d")) => i <= Len(s)
  BY DEF Holds
<1>3. Holds(s, i, "l") => parse_list(f, s, i) = parse_list(g, s, i)
  BY <1>1, <1>2 DEF parse_list
<1>4. Holds(s, i, "d") => parse_dict(f, s, i) = parse_dict(g, s, i)
  BY <1>1, <1>2 DEF parse_dict
<1>. QED
  BY <1>3, <1>4 DEF parse_value

\* The rest is what it makes of the value here and of later places.
LEMMA RestSame ==
  ASSUME NEW B, NEW s \in Seq(B), NEW i \in Places(s), NEW f, NEW g,
         \A j \in (i + 1) .. (Len(s) + 1) : Same(f, g, j) /\ Results(f, s, j),
         f[<<"value", i>>] = g[<<"value", i>>], Result(f[<<"value", i>>], i + 1, s)
  PROVE  /\ Items(f, s, i) = Items(g, s, i)
         /\ Pairs(f, s, i) = Pairs(g, s, i)
         /\ Values(f, s, i) = Values(g, s, i)
<1>1. Len(s) \in Nat /\ i \in Nat
  BY DEF Places
<1>2. ASSUME NEW j \in (i + 1) .. (Len(s) + 1)
      PROVE  /\ f[<<"value", j>>] = g[<<"value", j>>]
             /\ f[<<"items", j>>] = g[<<"items", j>>]
             /\ f[<<"pairs", j>>] = g[<<"pairs", j>>]
             /\ f[<<"values", j>>] = g[<<"values", j>>]
             /\ Result(f[<<"value", j>>], j + 1, s)
  <2>1. Same(f, g, j) /\ Results(f, s, j)
    OBVIOUS
  <2>. QED
    BY <2>1 DEF Same, Kinds, Results
<1>3. LET v == f[<<"value", i>>] IN v.ok => v.at \in (i + 1) .. (Len(s) + 1)
  BY DEF Result
<1>4. Items(f, s, i) = Items(g, s, i)
  BY <1>2, <1>3 DEF Items
<1>5. Values(f, s, i) = Values(g, s, i)
  BY <1>2, <1>3 DEF Values
<1>6. Pairs(f, s, i) = Pairs(g, s, i)
  <2>. DEFINE k == parse_bytes(s, i)
              v == f[<<"value", k.at>>]
              w == g[<<"value", k.at>>]
  <2>1. k.ok => k.at \in (i + 1) .. (Len(s) + 1)
    <3>1. Result(k, i + 1, s)
      BY BytesResult DEF Places
    <3>. QED
      BY <3>1 DEF Result
  <2>2. k.ok => v = w /\ Result(v, k.at + 1, s)
    BY <1>2, <2>1
  <2>3. k.ok /\ v.ok => v.at \in (i + 1) .. (Len(s) + 1)
    <3>. HIDE DEF k, v
    <3>1. k.ok /\ v.ok => k.at \in (i + 1) .. (Len(s) + 1) /\ v.at \in (k.at + 1) .. (Len(s) + 1)
      BY <2>1, <2>2 DEF Result
    <3>. QED
      BY <1>1, <3>1
  <2>4. k.ok /\ v.ok => f[<<"pairs", v.at>>] = g[<<"pairs", v.at>>]
    BY <1>2, <2>3
  <2>. QED
    BY <2>2, <2>4 DEF Pairs
<1>. QED
  BY <1>4, <1>5, <1>6

LEMMA ValueResult ==
  ASSUME NEW B, NEW s \in Seq(B), NEW i \in Places(s), NEW f,
         \A j \in (i + 1) .. (Len(s) + 1) : Results(f, s, j)
  PROVE  Result(parse_value(f, s, i), i + 1, s)
<1>1. Len(s) \in Nat /\ i \in Nat /\ i \in 1 .. (Len(s) + 1)
  BY DEF Places
<1>2. ASSUME NEW j \in (i + 1) .. (Len(s) + 1)
      PROVE  /\ Result(f[<<"value", j>>], j + 1, s) /\ Result(f[<<"items", j>>], j + 1, s)
             /\ Result(f[<<"pairs", j>>], j + 1, s) /\ Result(f[<<"values", j>>], j, s)
  BY DEF Results
<1>3. Result(Error, i + 1, s)
  BY DEF Result, Error
<1>4. ASSUME NEW v, NEW j \in (i + 1) .. (Len(s) + 1) PROVE Result(Ok(v, j), i + 1, s)
  BY <1>4 DEF Result, Ok
<1>5. Result(parse_bytes(s, i), i + 1, s)
  BY <1>1, BytesResult
<1>6. Holds(s, i, "i") => Result(parse_integer(s, i), i + 1, s)
  <2>. SUFFICES ASSUME Holds(s, i, "i") PROVE Result(parse_integer(s, i), i + 1, s)
    OBVIOUS
  <2>1. i \in 1 .. Len(s)
    BY <1>1 DEF Holds
  <2>. QED
    BY <2>1, IntegerResult
<1>7. Holds(s, i, "l") => Result(parse_list(f, s, i), i + 1, s)
  <2>. SUFFICES ASSUME Holds(s, i, "l") PROVE Result(parse_list(f, s, i), i + 1, s)
    OBVIOUS
  <2>. DEFINE r == f[<<"items", i + 1>>]
  <2>1. i + 1 \in (i + 1) .. (Len(s) + 1)
    BY <1>1 DEF Holds
  <2>2. Result(r, i + 1 + 1, s)
    BY <1>2, <2>1
  <2>3. r.ok => r.at \in (i + 1) .. (Len(s) + 1)
    <3>. HIDE DEF r
    <3>. QED
      BY <1>1, <2>2 DEF Result
  <2>. QED
    BY <1>3, <1>4, <2>3 DEF parse_list
<1>8. Holds(s, i, "d") => Result(parse_dict(f, s, i), i + 1, s)
  <2>. SUFFICES ASSUME Holds(s, i, "d") PROVE Result(parse_dict(f, s, i), i + 1, s)
    OBVIOUS
  <2>. DEFINE r == f[<<"pairs", i + 1>>]
  <2>1. i + 1 \in (i + 1) .. (Len(s) + 1)
    BY <1>1 DEF Holds
  <2>2. Result(r, i + 1 + 1, s)
    BY <1>2, <2>1
  <2>3. r.ok => r.at \in (i + 1) .. (Len(s) + 1)
    <3>. HIDE DEF r
    <3>. QED
      BY <1>1, <2>2 DEF Result
  <2>. QED
    BY <1>3, <1>4, <2>3 DEF parse_dict
<1>. QED
  BY <1>3, <1>5, <1>6, <1>7, <1>8 DEF parse_value

LEMMA StepsResults ==
  ASSUME NEW B, NEW s \in Seq(B), NEW i \in Places(s), NEW f, Steps(f, s, i),
         \A j \in (i + 1) .. (Len(s) + 1) : Results(f, s, j)
  PROVE  Results(f, s, i)
<1>1. Len(s) \in Nat /\ i \in Nat /\ i \in 1 .. (Len(s) + 1)
  BY DEF Places
<1>2. ASSUME NEW j \in (i + 1) .. (Len(s) + 1)
      PROVE  /\ Result(f[<<"value", j>>], j + 1, s) /\ Result(f[<<"items", j>>], j + 1, s)
             /\ Result(f[<<"pairs", j>>], j + 1, s) /\ Result(f[<<"values", j>>], j, s)
  BY DEF Results
<1>3. \A r, m, n : Result(r, n, s) /\ m \in Nat /\ n \in Nat /\ m <= n => Result(r, m, s)
  BY <1>1 DEF Result
<1>4. Result(Error, i + 1, s) /\ Result(Error, i, s)
  BY DEF Result, Error
<1>5. ASSUME NEW v, NEW j \in (i + 1) .. (Len(s) + 1) PROVE Result(Ok(v, j), i + 1, s)
  BY <1>5 DEF Result, Ok
<1>6. Result(f[<<"value", i>>], i + 1, s)
  BY ValueResult DEF Steps
<1>. DEFINE v == f[<<"value", i>>]
<1>7. v.ok => v.at \in (i + 1) .. (Len(s) + 1)
  BY <1>6 DEF Result
<1>8. Holds(s, i, "e") => i + 1 \in (i + 1) .. (Len(s) + 1)
  BY <1>1 DEF Holds
<1>9. Result(f[<<"items", i>>], i + 1, s)
  <2>. DEFINE r == f[<<"items", v.at>>]
  <2>1. v.ok => Result(Before(v.value, r), i + 1, s)
    <3>1. v.ok => Result(r, v.at + 1, s)
      BY <1>2, <1>7
    <3>2. v.ok /\ r.ok => r.at \in (i + 1) .. (Len(s) + 1)
      <4>. HIDE DEF v, r
      <4>. QED
        BY <1>1, <1>7, <3>1 DEF Result
    <3>. QED
      BY <1>4, <1>5, <3>2 DEF Before
  <2>2. f[<<"items", i>>] = IF Holds(s, i, "e") THEN Ok(<<>>, i + 1)
                            ELSE IF v.ok THEN Before(v.value, r) ELSE Error
    BY DEF Steps, Items
  <2>3. Holds(s, i, "e") => Result(Ok(<<>>, i + 1), i + 1, s)
    BY <1>5, <1>8
  <2>. QED
    BY <1>4, <2>1, <2>2, <2>3
<1>10. Result(f[<<"pairs", i>>], i + 1, s)
  <2>. DEFINE k == parse_bytes(s, i)
              w == f[<<"value", k.at>>]
              r == f[<<"pairs", w.at>>]
  <2>1. k.ok => k.at \in (i + 1) .. (Len(s) + 1)
    <3>1. Result(k, i + 1, s)
      BY <1>1, BytesResult
    <3>. QED
      BY <3>1 DEF Result
  <2>2. k.ok => Result(w, k.at + 1, s)
    BY <1>2, <2>1
  <2>3. k.ok /\ w.ok => w.at \in (i + 1) .. (Len(s) + 1)
    <3>. HIDE DEF k, w
    <3>1. k.ok /\ w.ok => k.at \in (i + 1) .. (Len(s) + 1) /\ w.at \in (k.at + 1) .. (Len(s) + 1)
      BY <2>1, <2>2 DEF Result
    <3>. QED
      BY <1>1, <3>1
  <2>4. k.ok /\ w.ok => Result(r, w.at + 1, s)
    BY <1>2, <2>3
  <2>5. k.ok /\ w.ok /\ r.ok => r.at \in (i + 1) .. (Len(s) + 1)
    <3>. HIDE DEF k, w, r
    <3>. QED
      BY <1>1, <2>3, <2>4 DEF Result
  <2>6. k.ok /\ w.ok => Result(Under(k.value.bytes, w.value, r), i + 1, s)
    BY <1>4, <1>5, <2>5 DEF Under
  <2>7. f[<<"pairs", i>>] = IF Holds(s, i, "e") THEN Ok(<<>>, i + 1)
                            ELSE IF ~k.ok THEN Error
                            ELSE IF w.ok THEN Under(k.value.bytes, w.value, r) ELSE Error
    BY DEF Steps, Pairs
  <2>8. Holds(s, i, "e") => Result(Ok(<<>>, i + 1), i + 1, s)
    BY <1>5, <1>8
  <2>. QED
    BY <1>4, <2>6, <2>7, <2>8
<1>11. Result(f[<<"values", i>>], i, s)
  <2>. DEFINE r == f[<<"values", v.at>>]
  <2>1. v.ok => Result(Before(v.value, r), i + 1, s)
    <3>1. v.ok => Result(r, v.at, s)
      BY <1>2, <1>7
    <3>2. v.ok /\ r.ok => r.at \in (i + 1) .. (Len(s) + 1)
      <4>. HIDE DEF v, r
      <4>. QED
        BY <1>1, <1>7, <3>1 DEF Result
    <3>. QED
      BY <1>4, <1>5, <3>2 DEF Before
  <2>2. f[<<"values", i>>] = IF v.ok THEN Before(v.value, r)
                             ELSE IF i = Len(s) + 1 THEN Ok(<<>>, i) ELSE Error
    BY DEF Steps, Values
  <2>3. Result(Ok(<<>>, i), i, s)
    BY <1>1 DEF Result, Ok
  <2>4. v.ok => Result(Before(v.value, r), i, s)
    <3>. DEFINE b == Before(v.value, r)
    <3>1. v.ok => Result(b, i + 1, s)
      BY <2>1
    <3>2. i \in Nat /\ i + 1 \in Nat /\ i <= i + 1
      BY <1>1
    <3>. HIDE DEF v, b
    <3>3. v.ok => Result(b, i, s)
      BY <1>3, <3>1, <3>2
    <3>. QED
      BY <3>3 DEF b
  <2>. QED
    BY <1>4, <2>2, <2>3, <2>4
<1>. QED
  BY <1>6, <1>9, <1>10, <1>11 DEF Results

\* Such a function exists.
LEMMA ParserExists ==
  ASSUME NEW B, NEW s \in Seq(B)
  PROVE  \E f : \A i \in Places(s) : Steps(f, s, i) /\ Results(f, s, i)
<1>. DEFINE N == Len(s) + 1
            From(f, i) == \A j \in i .. N : Steps(f, s, j) /\ Results(f, s, j)
            S == {i \in 1 .. N : \E f : From(f, i)}
<1>1. N \in Nat /\ N >= 1 /\ Places(s) = 1 .. N /\ Len(s) + 1 = N
  BY DEF Places
<1>2. ASSUME NEW i \in 1 .. N, \A j \in (i + 1) .. N : j \in S PROVE i \in S
  <2>1. \E f : From(f, i + 1)
    <3>1. CASE i = N
      <4>1. \A j \in (i + 1) .. N : FALSE
        BY <3>1, <1>1
      <4>. QED
        BY <4>1
    <3>2. CASE i < N
      <4>1. i + 1 \in (i + 1) .. N
        BY <1>1, <3>2
      <4>2. i + 1 \in S
        BY <1>2, <4>1
      <4>. QED
        BY <4>2
    <3>. QED
      BY <1>1, <3>1, <3>2
  <2>2. PICK f : From(f, i + 1)
    BY <2>1
  <2>. DEFINE h == [p \in Kinds \X (1 .. N) |-> IF p = <<"value", i>> THEN parse_value(f, s, i)
                                                 ELSE f[p]]
              g == [p \in Kinds \X (1 .. N) |->
                      IF p = <<"items", i>> THEN Items(h, s, i)
                      ELSE IF p = <<"pairs", i>> THEN Pairs(h, s, i)
                      ELSE IF p = <<"values", i>> THEN Values(h, s, i)
                      ELSE h[p]]
  <2>3. ASSUME NEW kind \in Kinds, NEW j \in (i + 1) .. N
        PROVE  h[<<kind, j>>] = f[<<kind, j>>] /\ g[<<kind, j>>] = f[<<kind, j>>]
    <3>1. <<kind, j>> \in Kinds \X (1 .. N) /\ j # i
      BY <1>1
    <3>. QED
      BY <3>1
  <2>4. /\ h[<<"value", i>>] = parse_value(f, s, i)
        /\ g[<<"value", i>>] = h[<<"value", i>>]
        /\ g[<<"items", i>>] = Items(h, s, i)
        /\ g[<<"pairs", i>>] = Pairs(h, s, i)
        /\ g[<<"values", i>>] = Values(h, s, i)
    <3>1. /\ <<"value", i>> \in Kinds \X (1 .. N) /\ <<"items", i>> \in Kinds \X (1 .. N)
          /\ <<"pairs", i>> \in Kinds \X (1 .. N) /\ <<"values", i>> \in Kinds \X (1 .. N)
      BY DEF Kinds
    <3>. QED
      BY <3>1
  <2>. HIDE DEF h, g
  <2>5. ASSUME NEW j \in (i + 1) .. N
        PROVE  Same(f, g, j) /\ Same(h, g, j) /\ Results(f, s, j) /\ Results(h, s, j)
    <3>1. Same(f, g, j) /\ Same(h, g, j) /\ Same(f, h, j)
      BY <2>3 DEF Same
    <3>2. Results(f, s, j)
      BY <2>2
    <3>. QED
      BY <3>1, <3>2 DEF Results, Same, Kinds
  <2>6. i \in Places(s)
    BY <1>1
  <2>7. g[<<"value", i>>] = parse_value(g, s, i)
    <3>1. parse_value(f, s, i) = parse_value(g, s, i)
      BY <1>1, <2>5, <2>6, ValueSame
    <3>. QED
      BY <2>4, <3>1
  <2>8. Result(h[<<"value", i>>], i + 1, s)
    <3>1. \A j \in (i + 1) .. (Len(s) + 1) : Results(f, s, j)
      BY <2>5
    <3>. QED
      BY <2>4, <2>6, <3>1, ValueResult
  <2>9. /\ Items(h, s, i) = Items(g, s, i) /\ Pairs(h, s, i) = Pairs(g, s, i)
        /\ Values(h, s, i) = Values(g, s, i)
    <3>1. \A j \in (i + 1) .. (Len(s) + 1) : Same(h, g, j) /\ Results(h, s, j)
      BY <2>5
    <3>2. h[<<"value", i>>] = g[<<"value", i>>]
      BY <2>4
    <3>. QED
      BY <2>6, <2>8, <3>1, <3>2, RestSame
  <2>10. Steps(g, s, i)
    BY <2>4, <2>7, <2>9 DEF Steps
  <2>11. \A j \in (i + 1) .. N : Steps(g, s, j) /\ Results(g, s, j)
    <3>. SUFFICES ASSUME NEW j \in (i + 1) .. N PROVE Steps(g, s, j) /\ Results(g, s, j)
      OBVIOUS
    <3>1. \A m \in (j + 1) .. (Len(s) + 1) : Same(f, g, m) /\ Results(f, s, m)
      <4>1. \A m \in (j + 1) .. N : m \in (i + 1) .. N
        BY <1>1
      <4>. QED
        BY <1>1, <2>5, <4>1
    <3>2. j \in Places(s) /\ Steps(f, s, j) /\ Results(f, s, j) /\ Same(f, g, j)
      <4>1. j \in 1 .. N
        BY <1>1
      <4>. QED
        BY <1>1, <2>2, <2>5, <4>1
    <3>3. parse_value(f, s, j) = parse_value(g, s, j)
      BY <3>1, <3>2, ValueSame
    <3>4. f[<<"value", j>>] = g[<<"value", j>>] /\ Result(f[<<"value", j>>], j + 1, s)
      BY <3>2 DEF Same, Kinds, Results
    <3>5. /\ Items(f, s, j) = Items(g, s, j) /\ Pairs(f, s, j) = Pairs(g, s, j)
          /\ Values(f, s, j) = Values(g, s, j)
      BY <3>1, <3>2, <3>4, RestSame
    <3>. QED
      BY <3>2, <3>3, <3>5 DEF Steps, Results, Same, Kinds
  <2>12. Results(g, s, i)
    <3>1. \A j \in (i + 1) .. (Len(s) + 1) : Results(g, s, j)
      BY <1>1, <2>11
    <3>. QED
      BY <2>6, <2>10, <3>1, StepsResults
  <2>13. From(g, i)
    <3>1. \A j \in i .. N : j = i \/ j \in (i + 1) .. N
      BY <1>1
    <3>. QED
      BY <2>10, <2>11, <2>12, <3>1
  <2>. QED
    BY <2>13
<1>. HIDE DEF S
<1>3. 1 \in S
  <2>1. \A i \in 1 .. N : i \in S
    BY <1>1, <1>2, Backward
  <2>. QED
    BY <1>1, <2>1
<1>. QED
  BY <1>1, <1>3 DEF S

\* Parser is one.
LEMMA ParserIs ==
  ASSUME NEW B, NEW s \in Seq(B), NEW i \in Places(s)
  PROVE  Steps(Parser(s), s, i) /\ Results(Parser(s), s, i)
<1>. DEFINE N == Len(s) + 1
            D == Kinds \X (1 .. N)
            P(f) == f = [p \in D |-> CASE p[1] = "value" -> parse_value(f, s, p[2])
                                       [] p[1] = "items" -> Items(f, s, p[2])
                                       [] p[1] = "pairs" -> Pairs(f, s, p[2])
                                       [] p[1] = "values" -> Values(f, s, p[2])]
<1>1. N \in Nat /\ Places(s) = 1 .. N /\ Len(s) + 1 = N
  BY DEF Places
<1>2. Parser(s) = CHOOSE f : P(f)
  BY DEF Parser, Kinds
<1>3. \E f : P(f)
  <2>1. PICK f : \A j \in Places(s) : Steps(f, s, j) /\ Results(f, s, j)
    BY ParserExists
  <2>. DEFINE g == [p \in D |-> f[p]]
  <2>2. \A j \in 1 .. N : Same(f, g, j)
    BY DEF Same
  <2>. HIDE DEF g
  <2>3. ASSUME NEW j \in 1 .. N PROVE Steps(g, s, j)
    <3>1. j \in Places(s) /\ Steps(f, s, j) /\ Results(f, s, j) /\ Same(f, g, j)
      BY <1>1, <2>1, <2>2
    <3>2. \A m \in (j + 1) .. (Len(s) + 1) : Same(f, g, m) /\ Results(f, s, m)
      <4>1. \A m \in (j + 1) .. N : m \in 1 .. N
        BY <1>1
      <4>. QED
        BY <1>1, <2>1, <2>2, <4>1
    <3>3. parse_value(f, s, j) = parse_value(g, s, j)
      BY <3>1, <3>2, ValueSame
    <3>4. f[<<"value", j>>] = g[<<"value", j>>] /\ Result(f[<<"value", j>>], j + 1, s)
      BY <3>1 DEF Same, Kinds, Results
    <3>5. /\ Items(f, s, j) = Items(g, s, j) /\ Pairs(f, s, j) = Pairs(g, s, j)
          /\ Values(f, s, j) = Values(g, s, j)
      BY <3>1, <3>2, <3>4, RestSame
    <3>. QED
      BY <3>1, <3>3, <3>5 DEF Steps, Same, Kinds
  <2>4. ASSUME NEW p \in D
        PROVE  g[p] = CASE p[1] = "value" -> parse_value(g, s, p[2])
                        [] p[1] = "items" -> Items(g, s, p[2])
                        [] p[1] = "pairs" -> Pairs(g, s, p[2])
                        [] p[1] = "values" -> Values(g, s, p[2])
    <3>1. PICK kind \in Kinds, j \in 1 .. N : p = <<kind, j>>
      OBVIOUS
    <3>2. Steps(g, s, j)
      BY <2>3
    <3>. QED
      BY <3>1, <3>2 DEF Steps, Kinds
  <2>5. P(g)
    <3>1. g = [p \in D |-> g[p]]
      BY DEF g
    <3>. HIDE DEF D
    <3>. QED
      BY <2>4, <3>1
  <2>. QED
    BY <2>5
<1>4. P(Parser(s))
  <2>. HIDE DEF P
  <2>. QED
    BY <1>2, <1>3
<1>5. ASSUME NEW j \in 1 .. N PROVE Steps(Parser(s), s, j)
  <2>. DEFINE f == Parser(s)
  <2>1. /\ <<"value", j>> \in D /\ <<"items", j>> \in D
        /\ <<"pairs", j>> \in D /\ <<"values", j>> \in D
    BY DEF Kinds
  <2>2. P(f)
    BY <1>4
  <2>. HIDE DEF f, D
  <2>3. \A p \in D : f[p] = CASE p[1] = "value" -> parse_value(f, s, p[2])
                              [] p[1] = "items" -> Items(f, s, p[2])
                              [] p[1] = "pairs" -> Pairs(f, s, p[2])
                              [] p[1] = "values" -> Values(f, s, p[2])
    BY <2>2
  <2>. QED
    BY <2>1, <2>3 DEF Steps, f
<1>. DEFINE T == {j \in 1 .. N : Results(Parser(s), s, j)}
<1>6. ASSUME NEW j \in 1 .. N, \A m \in (j + 1) .. N : m \in T PROVE j \in T
  BY <1>1, <1>5, <1>6, StepsResults
<1>. HIDE DEF T
<1>7. \A j \in 1 .. N : j \in T
  BY <1>1, <1>6, Backward
<1>. QED
  BY <1>1, <1>5, <1>7 DEF T

-----------------------------------------------------------------------------
(* The grammar as a function of the places *)

Phrases == {"value", "values", "pairs"}

\* is says of what begins at i what the grammar says.
Rules(is, s, i) ==
  \A j \in Places(s) :
    /\ is[<<"value", i, j>>] = IsValue(is, s, i, j)
    /\ is[<<"values", i, j>>] = IsValues(is, i, j)
    /\ is[<<"pairs", i, j>>] = IsPairs(is, s, i, j)

Alike(f, g, s, i) == \A kind \in Phrases, j \in Places(s) : f[<<kind, i, j>>] = g[<<kind, i, j>>]

ValuesAlike(f, g, s, i) == \A j \in Places(s) : f[<<"value", i, j>>] = g[<<"value", i, j>>]

LEMMA AlikeRules ==
  ASSUME NEW B, NEW s \in Seq(B), NEW i \in Places(s), NEW j \in Places(s), NEW f, NEW g,
         \A m \in (i + 1) .. (Len(s) + 1) : Alike(f, g, s, m)
  PROVE  /\ IsValue(f, s, i, j) = IsValue(g, s, i, j)
         /\ ValuesAlike(f, g, s, i) => IsValues(f, i, j) = IsValues(g, i, j)
         /\ IsPairs(f, s, i, j) = IsPairs(g, s, i, j)
<1>1. Len(s) \in Nat /\ i \in 1 .. (Len(s) + 1) /\ j \in 1 .. (Len(s) + 1)
  BY DEF Places
<1>2. ASSUME NEW k \in (i + 1) .. (Len(s) + 1), NEW m \in Places(s)
      PROVE  /\ f[<<"value", k, m>>] = g[<<"value", k, m>>]
             /\ f[<<"values", k, m>>] = g[<<"values", k, m>>]
             /\ f[<<"pairs", k, m>>] = g[<<"pairs", k, m>>]
  <2>1. Alike(f, g, s, k)
    OBVIOUS
  <2>. QED
    BY <2>1 DEF Alike, Phrases
<1>3. \A k \in (i + 1) .. j : k \in (i + 1) .. (Len(s) + 1) /\ k \in Places(s)
  BY <1>1 DEF Places
<1>4. IsValue(f, s, i, j) = IsValue(g, s, i, j)
  <2>1. CASE i + 1 < j
    <3>1. i + 1 \in (i + 1) .. (Len(s) + 1) /\ j - 1 \in Places(s)
      BY <1>1, <2>1 DEF Places
    <3>2. /\ f[<<"values", i + 1, j - 1>>] = g[<<"values", i + 1, j - 1>>]
          /\ f[<<"pairs", i + 1, j - 1>>] = g[<<"pairs", i + 1, j - 1>>]
      BY <1>2, <3>1
    <3>. QED
      BY <3>2 DEF IsValue
  <2>2. CASE ~(i + 1 < j)
    <3>1. ~Enclosed(s, i, j, "l") /\ ~Enclosed(s, i, j, "d")
      BY <2>2 DEF Enclosed
    <3>. QED
      BY <3>1 DEF IsValue
  <2>. QED
    BY <2>1, <2>2
<1>5. ASSUME ValuesAlike(f, g, s, i)
      PROVE  IsValues(f, i, j) = IsValues(g, i, j)
  <2>1. ASSUME NEW k \in (i + 1) .. j
        PROVE  /\ f[<<"value", i, k>>] = g[<<"value", i, k>>]
               /\ f[<<"values", k, j>>] = g[<<"values", k, j>>]
    BY <1>2, <1>3, <1>5 DEF ValuesAlike
  <2>2. (\E k \in (i + 1) .. j : f[<<"value", i, k>>] /\ f[<<"values", k, j>>])
          = (\E k \in (i + 1) .. j : g[<<"value", i, k>>] /\ g[<<"values", k, j>>])
    BY <2>1
  <2>. QED
    BY <2>2 DEF IsValues
<1>6. IsPairs(f, s, i, j) = IsPairs(g, s, i, j)
  <2>1. ASSUME NEW k \in (i + 1) .. j, NEW m \in (k + 1) .. j
        PROVE  /\ f[<<"value", k, m>>] = g[<<"value", k, m>>]
               /\ f[<<"pairs", m, j>>] = g[<<"pairs", m, j>>]
    <3>1. m \in (i + 1) .. j
      BY <1>1
    <3>. QED
      BY <1>2, <1>3, <3>1
  <2>2. (\E k \in (i + 1) .. j : \E m \in (k + 1) .. j :
           IsBytes(s, i, k) /\ f[<<"value", k, m>>] /\ f[<<"pairs", m, j>>])
        = (\E k \in (i + 1) .. j : \E m \in (k + 1) .. j :
             IsBytes(s, i, k) /\ g[<<"value", k, m>>] /\ g[<<"pairs", m, j>>])
    BY <2>1
  <2>. QED
    BY <2>2 DEF IsPairs
<1>. QED
  BY <1>4, <1>5, <1>6

LEMMA GrammarExists ==
  ASSUME NEW B, NEW s \in Seq(B)
  PROVE  \E f : \A i \in Places(s) : Rules(f, s, i)
<1>. DEFINE N == Len(s) + 1
            D == Phrases \X (1 .. N) \X (1 .. N)
            From(f, i) == \A j \in i .. N : Rules(f, s, j)
            S == {i \in 1 .. N : \E f : From(f, i)}
<1>1. N \in Nat /\ N >= 1 /\ Places(s) = 1 .. N /\ Len(s) + 1 = N
  BY DEF Places
<1>2. ASSUME NEW i \in 1 .. N, \A j \in (i + 1) .. N : j \in S PROVE i \in S
  <2>1. \E f : From(f, i + 1)
    <3>1. CASE i = N
      <4>1. \A j \in (i + 1) .. N : FALSE
        BY <3>1, <1>1
      <4>. QED
        BY <4>1
    <3>2. CASE i < N
      <4>1. i + 1 \in (i + 1) .. N
        BY <1>1, <3>2
      <4>2. i + 1 \in S
        BY <1>2, <4>1
      <4>. QED
        BY <4>2
    <3>. QED
      BY <1>1, <3>1, <3>2
  <2>2. PICK f : From(f, i + 1)
    BY <2>1
  <2>. DEFINE h == [x \in D |-> IF x[1] = "value" /\ x[2] = i THEN IsValue(f, s, i, x[3])
                                ELSE f[x]]
              g == [x \in D |->
                      IF x[1] = "values" /\ x[2] = i THEN IsValues(h, i, x[3])
                      ELSE IF x[1] = "pairs" /\ x[2] = i THEN IsPairs(h, s, i, x[3])
                      ELSE h[x]]
  <2>3. ASSUME NEW kind \in Phrases, NEW j \in (i + 1) .. N, NEW k \in 1 .. N
        PROVE  h[<<kind, j, k>>] = f[<<kind, j, k>>] /\ g[<<kind, j, k>>] = f[<<kind, j, k>>]
    <3>1. <<kind, j, k>> \in D /\ j # i
      BY <1>1
    <3>. QED
      BY <3>1
  <2>4. ASSUME NEW k \in 1 .. N
        PROVE  /\ h[<<"value", i, k>>] = IsValue(f, s, i, k)
               /\ g[<<"value", i, k>>] = h[<<"value", i, k>>]
               /\ g[<<"values", i, k>>] = IsValues(h, i, k)
               /\ g[<<"pairs", i, k>>] = IsPairs(h, s, i, k)
    <3>1. /\ <<"value", i, k>> \in D /\ <<"values", i, k>> \in D /\ <<"pairs", i, k>> \in D
      BY DEF Phrases
    <3>. QED
      BY <3>1
  <2>. HIDE DEF h, g, D
  <2>5. ASSUME NEW j \in (i + 1) .. N
        PROVE  Alike(f, g, s, j) /\ Alike(h, g, s, j)
    BY <1>1, <2>3 DEF Alike
  <2>6. i \in Places(s)
    BY <1>1
  <2>7. Rules(g, s, i)
    <3>1. ASSUME NEW j \in Places(s)
          PROVE  /\ g[<<"value", i, j>>] = IsValue(g, s, i, j)
                 /\ g[<<"values", i, j>>] = IsValues(g, i, j)
                 /\ g[<<"pairs", i, j>>] = IsPairs(g, s, i, j)
      <4>1. \A m \in (i + 1) .. (Len(s) + 1) : Alike(f, g, s, m)
        BY <2>5
      <4>2. IsValue(f, s, i, j) = IsValue(g, s, i, j)
        BY <2>6, <4>1, AlikeRules
      <4>3. \A m \in (i + 1) .. (Len(s) + 1) : Alike(h, g, s, m)
        BY <2>5
      <4>4. ValuesAlike(h, g, s, i)
        BY <1>1, <2>4 DEF ValuesAlike
      <4>5. IsValues(h, i, j) = IsValues(g, i, j) /\ IsPairs(h, s, i, j) = IsPairs(g, s, i, j)
        BY <2>6, <4>3, <4>4, AlikeRules
      <4>. QED
        BY <1>1, <2>4, <4>2, <4>5
    <3>. QED
      BY <3>1 DEF Rules
  <2>8. \A j \in (i + 1) .. N : Rules(g, s, j)
    <3>. SUFFICES ASSUME NEW j \in (i + 1) .. N, NEW k \in Places(s)
                  PROVE  /\ g[<<"value", j, k>>] = IsValue(g, s, j, k)
                         /\ g[<<"values", j, k>>] = IsValues(g, j, k)
                         /\ g[<<"pairs", j, k>>] = IsPairs(g, s, j, k)
      BY DEF Rules
    <3>1. \A m \in (j + 1) .. (Len(s) + 1) : Alike(f, g, s, m)
      <4>1. \A m \in (j + 1) .. N : m \in (i + 1) .. N
        BY <1>1
      <4>. QED
        BY <1>1, <2>5, <4>1
    <3>2. j \in Places(s) /\ Rules(f, s, j) /\ Alike(f, g, s, j)
      <4>1. j \in 1 .. N
        BY <1>1
      <4>. QED
        BY <1>1, <2>2, <2>5, <4>1
    <3>3. ValuesAlike(f, g, s, j)
      BY <3>2 DEF Alike, Phrases, ValuesAlike
    <3>4. /\ IsValue(f, s, j, k) = IsValue(g, s, j, k)
          /\ IsValues(f, j, k) = IsValues(g, j, k)
          /\ IsPairs(f, s, j, k) = IsPairs(g, s, j, k)
      BY <3>1, <3>2, <3>3, AlikeRules
    <3>5. /\ f[<<"value", j, k>>] = g[<<"value", j, k>>]
          /\ f[<<"values", j, k>>] = g[<<"values", j, k>>]
          /\ f[<<"pairs", j, k>>] = g[<<"pairs", j, k>>]
      BY <3>2 DEF Alike, Phrases
    <3>. QED
      BY <3>2, <3>4, <3>5 DEF Rules
  <2>9. From(g, i)
    <3>1. \A j \in i .. N : j = i \/ j \in (i + 1) .. N
      BY <1>1
    <3>. QED
      BY <2>7, <2>8, <3>1
  <2>. QED
    BY <2>9
<1>. HIDE DEF S
<1>3. 1 \in S
  <2>1. \A i \in 1 .. N : i \in S
    BY <1>1, <1>2, Backward
  <2>. QED
    BY <1>1, <2>1
<1>. QED
  BY <1>1, <1>3 DEF S

LEMMA GrammarIs ==
  ASSUME NEW B, NEW s \in Seq(B), NEW i \in Places(s)
  PROVE  Rules(Grammar(s), s, i)
<1>. DEFINE N == Len(s) + 1
            D == Phrases \X (1 .. N) \X (1 .. N)
            P(is) == is = [x \in D |-> CASE x[1] = "value" -> IsValue(is, s, x[2], x[3])
                                         [] x[1] = "values" -> IsValues(is, x[2], x[3])
                                         [] x[1] = "pairs" -> IsPairs(is, s, x[2], x[3])]
<1>1. N \in Nat /\ Places(s) = 1 .. N /\ Len(s) + 1 = N
  BY DEF Places
<1>2. Grammar(s) = CHOOSE is : P(is)
  BY DEF Grammar, Phrases
<1>3. \E is : P(is)
  <2>1. PICK f : \A j \in Places(s) : Rules(f, s, j)
    BY GrammarExists
  <2>. DEFINE g == [x \in D |-> f[x]]
  <2>2. \A j \in 1 .. N : Alike(f, g, s, j)
    BY <1>1 DEF Alike
  <2>. HIDE DEF g
  <2>3. ASSUME NEW j \in 1 .. N, NEW k \in 1 .. N
        PROVE  /\ g[<<"value", j, k>>] = IsValue(g, s, j, k)
               /\ g[<<"values", j, k>>] = IsValues(g, j, k)
               /\ g[<<"pairs", j, k>>] = IsPairs(g, s, j, k)
    <3>1. j \in Places(s) /\ k \in Places(s) /\ Rules(f, s, j) /\ Alike(f, g, s, j)
      BY <1>1, <2>1, <2>2
    <3>2. \A m \in (j + 1) .. (Len(s) + 1) : Alike(f, g, s, m)
      <4>1. \A m \in (j + 1) .. N : m \in 1 .. N
        BY <1>1
      <4>. QED
        BY <1>1, <2>2, <4>1
    <3>3. ValuesAlike(f, g, s, j)
      BY <3>1 DEF Alike, Phrases, ValuesAlike
    <3>4. /\ IsValue(f, s, j, k) = IsValue(g, s, j, k)
          /\ IsValues(f, j, k) = IsValues(g, j, k)
          /\ IsPairs(f, s, j, k) = IsPairs(g, s, j, k)
      BY <3>1, <3>2, <3>3, AlikeRules
    <3>5. /\ f[<<"value", j, k>>] = g[<<"value", j, k>>]
          /\ f[<<"values", j, k>>] = g[<<"values", j, k>>]
          /\ f[<<"pairs", j, k>>] = g[<<"pairs", j, k>>]
      BY <3>1 DEF Alike, Phrases
    <3>. QED
      BY <3>1, <3>4, <3>5 DEF Rules
  <2>4. ASSUME NEW x \in D
        PROVE  g[x] = CASE x[1] = "value" -> IsValue(g, s, x[2], x[3])
                        [] x[1] = "values" -> IsValues(g, x[2], x[3])
                        [] x[1] = "pairs" -> IsPairs(g, s, x[2], x[3])
    <3>1. PICK kind \in Phrases, j \in 1 .. N, k \in 1 .. N : x = <<kind, j, k>>
      OBVIOUS
    <3>2. /\ g[<<"value", j, k>>] = IsValue(g, s, j, k)
          /\ g[<<"values", j, k>>] = IsValues(g, j, k)
          /\ g[<<"pairs", j, k>>] = IsPairs(g, s, j, k)
      BY <2>3
    <3>. QED
      BY <3>1, <3>2 DEF Phrases
  <2>5. P(g)
    <3>1. g = [x \in D |-> g[x]]
      BY DEF g
    <3>. HIDE DEF D
    <3>. QED
      BY <2>4, <3>1
  <2>. QED
    BY <2>5
<1>4. P(Grammar(s))
  <2>. HIDE DEF P
  <2>. QED
    BY <1>2, <1>3
<1>. DEFINE f == Grammar(s)
<1>5. P(f)
  BY <1>4
<1>6. ASSUME NEW j \in Places(s)
      PROVE  /\ f[<<"value", i, j>>] = IsValue(f, s, i, j)
             /\ f[<<"values", i, j>>] = IsValues(f, i, j)
             /\ f[<<"pairs", i, j>>] = IsPairs(f, s, i, j)
  <2>1. /\ <<"value", i, j>> \in D /\ <<"values", i, j>> \in D /\ <<"pairs", i, j>> \in D
    BY <1>1 DEF Phrases
  <2>. HIDE DEF f, D
  <2>2. \A x \in D : f[x] = CASE x[1] = "value" -> IsValue(f, s, x[2], x[3])
                              [] x[1] = "values" -> IsValues(f, x[2], x[3])
                              [] x[1] = "pairs" -> IsPairs(f, s, x[2], x[3])
    BY <1>5
  <2>. QED
    BY <2>1, <2>2
<1>. QED
  BY <1>6 DEF Rules

-----------------------------------------------------------------------------
(* The parser and the grammar *)

Reads(r, j) == r.ok /\ r.at = j

\* What the parser f reads at i is what the grammar g lets stand there.
Agree(f, g, s, i) ==
  /\ \A j \in Places(s) :
       /\ Reads(f[<<"value", i>>], j) <=> g[<<"value", i, j>>]
       /\ Reads(f[<<"items", i>>], j) <=> i < j /\ s[j - 1] = "e" /\ g[<<"values", i, j - 1>>]
       /\ Reads(f[<<"pairs", i>>], j) <=> i < j /\ s[j - 1] = "e" /\ g[<<"pairs", i, j - 1>>]
  /\ f[<<"values", i>>].ok <=> g[<<"values", i, Len(s) + 1>>]

LEMMA BytesStart ==
  ASSUME NEW B, NEW s \in Seq(B), NEW i \in Places(s), NEW j \in Places(s), IsBytes(s, i, j)
  PROVE  HoldsDigit(s, i) /\ i < j
<1>1. PICK k \in (i + 1) .. (j - 1) : IsNumeral(SubSeq(s, i, k - 1))
  BY DEF IsBytes
<1>2. Len(s) \in Nat /\ i \in 1 .. (Len(s) + 1) /\ k \in i .. (Len(s) + 1) /\ i < j
  BY DEF Places
<1>3. i \in i .. (k - 1)
  BY <1>2
<1>4. HoldsDigit(s, i)
  BY <1>1, <1>2, <1>3, Numeral
<1>. QED
  BY <1>2, <1>4

LEMMA IntegerStart ==
  ASSUME NEW B, NEW s \in Seq(B), NEW i \in Places(s), NEW j \in Places(s), IsInteger(s, i, j)
  PROVE  Holds(s, i, "i") /\ i < j
<1>1. s[i] = "i" /\ \E first \in {i + 1, i + 2} : first < j - 1
  BY DEF IsInteger
<1>2. i < j /\ i <= Len(s)
  <2>1. PICK first \in {i + 1, i + 2} : first < j - 1
    BY <1>1
  <2>2. Len(s) \in Nat /\ i \in 1 .. (Len(s) + 1) /\ j \in 1 .. (Len(s) + 1)
    BY DEF Places
  <2>. QED
    BY <2>1, <2>2
<1>. QED
  BY <1>1, <1>2 DEF Holds

LEMMA EnclosedStart ==
  ASSUME NEW B, NEW s \in Seq(B), NEW i \in Places(s), NEW j \in Places(s), NEW open,
         Enclosed(s, i, j, open)
  PROVE  Holds(s, i, open) /\ i < j
<1>1. s[i] = open /\ i + 1 < j
  BY DEF Enclosed
<1>2. i < j /\ i <= Len(s)
  BY <1>1 DEF Places
<1>. QED
  BY <1>1, <1>2 DEF Holds

\* A value begins with one of these bytes.
Starts(s, i) ==
  HoldsDigit(s, i) \/ Holds(s, i, "i") \/ Holds(s, i, "l") \/ Holds(s, i, "d")

LEMMA ValueStarts ==
  ASSUME NEW B, NEW s \in Seq(B), NEW i \in Places(s), NEW j \in Places(s), NEW g,
         IsValue(g, s, i, j)
  PROVE  Starts(s, i) /\ i < j
<1>1. CASE IsInteger(s, i, j)
  BY <1>1, IntegerStart DEF Starts
<1>2. CASE IsBytes(s, i, j)
  BY <1>2, BytesStart DEF Starts
<1>3. CASE Enclosed(s, i, j, "l")
  BY <1>3, EnclosedStart DEF Starts
<1>4. CASE Enclosed(s, i, j, "d")
  BY <1>4, EnclosedStart DEF Starts
<1>. QED
  BY <1>1, <1>2, <1>3, <1>4 DEF IsValue

LEMMA ValueAgrees ==
  ASSUME NEW B, NEW s \in Seq(B), MaxLength \in Nat, Len(s) <= MaxLength,
         NEW i \in Places(s), NEW j \in Places(s), NEW f, NEW g,
         \A m \in (i + 1) .. (Len(s) + 1) : Agree(f, g, s, m)
  PROVE  Reads(parse_value(f, s, i), j) <=> IsValue(g, s, i, j)
<1>1. Len(s) \in Nat /\ i \in 1 .. (Len(s) + 1) /\ j \in 1 .. (Len(s) + 1)
  BY DEF Places
<1>2. CASE HoldsDigit(s, i)
  <2>1. ~Holds(s, i, "i") /\ ~Holds(s, i, "l") /\ ~Holds(s, i, "d")
    BY <1>2, OtherBytes DEF HoldsDigit, Holds
  <2>2. ~IsInteger(s, i, j) /\ ~Enclosed(s, i, j, "l") /\ ~Enclosed(s, i, j, "d")
    BY <2>1, IntegerStart, EnclosedStart
  <2>3. parse_value(f, s, i) = parse_bytes(s, i)
    BY <1>2 DEF parse_value
  <2>4. Reads(parse_bytes(s, i), j) <=> IsBytes(s, i, j)
    BY <1>1, BytesAgrees DEF Reads
  <2>. QED
    BY <2>2, <2>3, <2>4 DEF IsValue
<1>3. CASE Holds(s, i, "i")
  <2>1. ~HoldsDigit(s, i) /\ ~Holds(s, i, "l") /\ ~Holds(s, i, "d")
    BY <1>3, OtherBytes DEF HoldsDigit, Holds
  <2>2. ~IsBytes(s, i, j) /\ ~Enclosed(s, i, j, "l") /\ ~Enclosed(s, i, j, "d")
    BY <2>1, BytesStart, EnclosedStart
  <2>3. parse_value(f, s, i) = parse_integer(s, i)
    BY <1>3, <2>1 DEF parse_value
  <2>4. i \in 1 .. Len(s) /\ s[i] = "i"
    BY <1>1, <1>3 DEF Holds
  <2>5. Reads(parse_integer(s, i), j) <=> IsInteger(s, i, j)
    BY <1>1, <2>4, IntegerAgrees DEF Reads
  <2>. QED
    BY <2>2, <2>3, <2>5 DEF IsValue
<1>4. CASE Holds(s, i, "l")
  <2>1. ~HoldsDigit(s, i) /\ ~Holds(s, i, "i") /\ ~Holds(s, i, "d")
    BY <1>4, OtherBytes DEF HoldsDigit, Holds
  <2>2. ~IsBytes(s, i, j) /\ ~IsInteger(s, i, j) /\ ~Enclosed(s, i, j, "d")
    BY <2>1, BytesStart, IntegerStart, EnclosedStart
  <2>3. parse_value(f, s, i) = parse_list(f, s, i)
    BY <1>4, <2>1 DEF parse_value
  <2>4. i + 1 \in (i + 1) .. (Len(s) + 1)
    BY <1>1, <1>4 DEF Holds
  <2>5. Agree(f, g, s, i + 1)
    BY <2>4
  <2>6. Reads(f[<<"items", i + 1>>], j)
          <=> i + 1 < j /\ s[j - 1] = "e" /\ g[<<"values", i + 1, j - 1>>]
    BY <2>5 DEF Agree
  <2>7. Reads(parse_list(f, s, i), j) <=> Reads(f[<<"items", i + 1>>], j)
    BY DEF parse_list, Reads, Ok, Error
  <2>8. s[i] = "l"
    BY <1>4 DEF Holds
  <2>. QED
    BY <2>2, <2>3, <2>6, <2>7, <2>8 DEF IsValue, Enclosed
<1>5. CASE Holds(s, i, "d")
  <2>1. ~HoldsDigit(s, i) /\ ~Holds(s, i, "i") /\ ~Holds(s, i, "l")
    BY <1>5, OtherBytes DEF HoldsDigit, Holds
  <2>2. ~IsBytes(s, i, j) /\ ~IsInteger(s, i, j) /\ ~Enclosed(s, i, j, "l")
    BY <2>1, BytesStart, IntegerStart, EnclosedStart
  <2>3. parse_value(f, s, i) = parse_dict(f, s, i)
    BY <1>5, <2>1 DEF parse_value
  <2>4. i + 1 \in (i + 1) .. (Len(s) + 1)
    BY <1>1, <1>5 DEF Holds
  <2>5. Agree(f, g, s, i + 1)
    BY <2>4
  <2>6. Reads(f[<<"pairs", i + 1>>], j)
          <=> i + 1 < j /\ s[j - 1] = "e" /\ g[<<"pairs", i + 1, j - 1>>]
    BY <2>5 DEF Agree
  <2>7. Reads(parse_dict(f, s, i), j) <=> Reads(f[<<"pairs", i + 1>>], j)
    BY DEF parse_dict, Reads, Ok, Error
  <2>8. s[i] = "d"
    BY <1>5 DEF Holds
  <2>. QED
    BY <2>2, <2>3, <2>6, <2>7, <2>8 DEF IsValue, Enclosed
<1>6. CASE ~Starts(s, i)
  <2>1. parse_value(f, s, i) = Error
    BY <1>6 DEF parse_value, Starts
  <2>2. ~IsValue(g, s, i, j)
    BY <1>6, ValueStarts
  <2>. QED
    BY <2>1, <2>2 DEF Reads, Error
<1>. QED
  BY <1>2, <1>3, <1>4, <1>5, <1>6 DEF Starts

\* Behind a value the rest agrees because it does at the value's end.
LEMMA RestAgrees ==
  ASSUME NEW B, NEW s \in Seq(B), MaxLength \in Nat, Len(s) <= MaxLength,
         NEW i \in Places(s), NEW f, NEW g, Results(f, s, i), Rules(g, s, i),
         \A m \in Places(s) : Reads(f[<<"value", i>>], m) <=> g[<<"value", i, m>>],
         \A m \in (i + 1) .. (Len(s) + 1) : Agree(f, g, s, m) /\ Results(f, s, m)
  PROVE  /\ \A j \in Places(s) :
              /\ Reads(Items(f, s, i), j) <=> i < j /\ s[j - 1] = "e" /\ IsValues(g, i, j - 1)
              /\ Reads(Pairs(f, s, i), j) <=> i < j /\ s[j - 1] = "e" /\ IsPairs(g, s, i, j - 1)
         /\ Values(f, s, i).ok <=> IsValues(g, i, Len(s) + 1)
<1>. DEFINE N == Len(s) + 1
            v == f[<<"value", i>>]
            rest(m) == f[<<"items", m>>]
            Value(m) == g[<<"value", i, m>>]
            Of(m, j) == g[<<"values", m, j>>]
            Closes(j) == s[j - 1] = "e"
<1>1. Len(s) \in Nat /\ i \in 1 .. N /\ Places(s) = 1 .. N /\ N \in Nat /\ Len(s) + 1 = N
  BY DEF Places
<1>2. Result(v, i + 1, s)
  BY DEF Results
<1>3. v.ok \in BOOLEAN /\ (v.ok => v.at \in (i + 1) .. N)
  BY <1>2 DEF Result
<1>4. \A m \in 1 .. N : Value(m) <=> v.ok /\ v.at = m
  BY <1>1 DEF Reads
<1>5. Holds(s, i, "e") => ~v.ok
  <2>. SUFFICES ASSUME Holds(s, i, "e"), v.ok PROVE FALSE
    OBVIOUS
  <2>1. v.at \in 1 .. N
    <3>. HIDE DEF v
    <3>. QED
      BY <1>1, <1>3
  <2>2. v.at \in Places(s) /\ Value(v.at)
    BY <1>1, <1>4, <2>1
  <2>3. IsValue(g, s, i, v.at)
    BY <2>2 DEF Rules
  <2>4. Starts(s, i)
    BY <2>2, <2>3, ValueStarts
  <2>. QED
    BY <2>4, OtherBytes DEF Starts, Holds, HoldsDigit
<1>6. i <= Len(s) /\ Closes(i + 1) <=> Holds(s, i, "e")
  <2>1. (i + 1) - 1 = i
    BY <1>1
  <2>. QED
    BY <2>1 DEF Holds
<1>7. ASSUME NEW j \in Places(s)
      PROVE  Reads(Items(f, s, i), j) <=> i < j /\ s[j - 1] = "e" /\ IsValues(g, i, j - 1)
  <2>1. ASSUME v.ok
        PROVE  Reads(rest(v.at), j) <=> v.at < j /\ Closes(j) /\ Of(v.at, j - 1)
    <3>1. Agree(f, g, s, v.at)
      BY <1>3, <2>1
    <3>. QED
      BY <3>1 DEF Agree
  <2>2. Items(f, s, i) = IF Holds(s, i, "e") THEN Ok(<<>>, i + 1)
                         ELSE IF v.ok THEN Before(v.value, rest(v.at)) ELSE Error
    BY DEF Items
  <2>3. Reads(Before(v.value, rest(v.at)), j) <=> Reads(rest(v.at), j)
    <3>. HIDE DEF v, rest
    <3>. QED
      BY DEF Before, Reads, Ok, Error
  <2>4. IsValues(g, i, j - 1) <=> i = j - 1 \/ \E k \in (i + 1) .. (j - 1) : Value(k) /\ Of(k, j - 1)
    BY DEF IsValues
  <2>. HIDE DEF v, rest, Value, Of
  <2>5. CASE Holds(s, i, "e")
    <3>1. Reads(Items(f, s, i), j) <=> j = i + 1
      BY <2>2, <2>5 DEF Reads, Ok
    <3>2. ~v.ok
      BY <1>5, <2>5
    <3>3. \A k \in (i + 1) .. (j - 1) : ~Value(k)
      <4>1. \A k \in (i + 1) .. (j - 1) : k \in 1 .. N
        BY <1>1
      <4>. QED
        BY <1>4, <3>2, <4>1
    <3>4. IsValues(g, i, j - 1) <=> j = i + 1
      <4>1. i = j - 1 <=> j = i + 1
        BY <1>1
      <4>. QED
        BY <2>4, <3>3, <4>1
    <3>5. j = i + 1 => i < j /\ Closes(j)
      BY <1>1, <1>6, <2>5
    <3>. QED
      BY <3>1, <3>4, <3>5
  <2>6. CASE ~Holds(s, i, "e")
    <3>1. Reads(Items(f, s, i), j) <=> v.ok /\ v.at < j /\ Closes(j) /\ Of(v.at, j - 1)
      <4>1. ~v.ok => ~Reads(Items(f, s, i), j)
        BY <2>2, <2>6 DEF Reads, Error
      <4>. QED
        BY <2>1, <2>2, <2>3, <2>6, <4>1
    <3>2. ASSUME i < j, Closes(j)
          PROVE  IsValues(g, i, j - 1) <=> v.ok /\ v.at < j /\ Of(v.at, j - 1)
      <4>1. i # j - 1
        <5>. SUFFICES ASSUME i = j - 1 PROVE FALSE
          OBVIOUS
        <5>1. j = i + 1 /\ i <= Len(s)
          BY <1>1
        <5>. QED
          BY <1>6, <2>6, <3>2, <5>1
      <4>2. \A k \in (i + 1) .. (j - 1) : Value(k) <=> v.ok /\ v.at = k
        <5>1. \A k \in (i + 1) .. (j - 1) : k \in 1 .. N
          BY <1>1
        <5>. QED
          BY <1>4, <5>1
      <4>3. v.ok => (v.at < j <=> v.at \in (i + 1) .. (j - 1))
        BY <1>1, <1>3
      <4>. QED
        BY <2>4, <4>1, <4>2, <4>3
    <3>3. v.ok /\ v.at < j => i < j
      BY <1>1, <1>3
    <3>. QED
      BY <3>1, <3>2, <3>3
  <2>. QED
    BY <2>5, <2>6
<1>8. ASSUME NEW j \in Places(s)
      PROVE  Reads(Pairs(f, s, i), j) <=> i < j /\ s[j - 1] = "e" /\ IsPairs(g, s, i, j - 1)
  <2>. DEFINE p == parse_bytes(s, i)
              w == f[<<"value", p.at>>]
              r == f[<<"pairs", w.at>>]
              Val(k, m) == g[<<"value", k, m>>]
              Prs(m) == g[<<"pairs", m, j - 1>>]
  <2>1. p.ok \in BOOLEAN /\ (p.ok => p.at \in (i + 1) .. N)
    <3>1. Result(p, i + 1, s)
      BY <1>1, BytesResult
    <3>. HIDE DEF p
    <3>. QED
      BY <3>1 DEF Result
  <2>2. p.ok => Result(w, p.at + 1, s) /\ \A m \in 1 .. N : Val(p.at, m) <=> w.ok /\ w.at = m
    <3>1. p.ok => Agree(f, g, s, p.at) /\ Results(f, s, p.at)
      BY <2>1
    <3>2. p.ok => \A m \in 1 .. N : Reads(w, m) <=> Val(p.at, m)
      BY <1>1, <3>1 DEF Agree
    <3>3. p.ok => Result(w, p.at + 1, s)
      BY <3>1 DEF Results
    <3>. HIDE DEF p, w, Val
    <3>. QED
      BY <3>2, <3>3 DEF Reads
  <2>3. p.ok /\ w.ok => w.at \in (p.at + 1) .. N
    <3>. HIDE DEF p, w
    <3>. QED
      BY <2>2 DEF Result
  <2>4. p.ok /\ w.ok => w.at \in (i + 1) .. N
    <3>. HIDE DEF p, w
    <3>. QED
      BY <1>1, <2>1, <2>3
  <2>5. p.ok /\ w.ok => (Reads(r, j) <=> w.at < j /\ Closes(j) /\ Prs(w.at))
    <3>1. p.ok /\ w.ok => Agree(f, g, s, w.at)
      BY <2>4
    <3>. QED
      BY <3>1 DEF Agree
  <2>6. Pairs(f, s, i) = IF Holds(s, i, "e") THEN Ok(<<>>, i + 1)
                         ELSE IF ~p.ok THEN Error
                         ELSE IF w.ok THEN Under(p.value.bytes, w.value, r) ELSE Error
    BY DEF Pairs
  <2>7. Reads(Under(p.value.bytes, w.value, r), j) <=> Reads(r, j)
    <3>. HIDE DEF p, w, r
    <3>. QED
      BY DEF Under, Reads, Ok, Error
  <2>8. \A k \in 1 .. N : IsBytes(s, i, k) <=> p.ok /\ p.at = k
    BY <1>1, BytesAgrees
  <2>9. IsPairs(g, s, i, j - 1)
          <=> \/ i = j - 1
              \/ \E k \in (i + 1) .. (j - 1) : \E m \in (k + 1) .. (j - 1) :
                    IsBytes(s, i, k) /\ Val(k, m) /\ Prs(m)
    BY DEF IsPairs
  <2>10. Holds(s, i, "e") => ~p.ok
    <3>. SUFFICES ASSUME Holds(s, i, "e"), p.ok PROVE FALSE
      OBVIOUS
    <3>1. p.at \in Places(s)
      <4>. HIDE DEF p
      <4>. QED
        BY <1>1, <2>1
    <3>2. IsBytes(s, i, p.at)
      BY <1>1, <2>8, <3>1
    <3>3. HoldsDigit(s, i)
      BY <3>1, <3>2, BytesStart
    <3>. QED
      BY <3>3, OtherBytes DEF Holds, HoldsDigit
  <2>. HIDE DEF p, w, r, Val, Prs
  <2>11. CASE Holds(s, i, "e")
    <3>1. Reads(Pairs(f, s, i), j) <=> j = i + 1
      BY <2>6, <2>11 DEF Reads, Ok
    <3>2. \A k \in (i + 1) .. (j - 1) : ~IsBytes(s, i, k)
      <4>1. \A k \in (i + 1) .. (j - 1) : k \in 1 .. N
        BY <1>1
      <4>. QED
        BY <2>8, <2>10, <2>11, <4>1
    <3>3. IsPairs(g, s, i, j - 1) <=> j = i + 1
      <4>1. i = j - 1 <=> j = i + 1
        BY <1>1
      <4>. QED
        BY <2>9, <3>2, <4>1
    <3>4. j = i + 1 => i < j /\ Closes(j)
      BY <1>1, <1>6, <2>11
    <3>. QED
      BY <3>1, <3>3, <3>4
  <2>12. CASE ~Holds(s, i, "e")
    <3>1. Reads(Pairs(f, s, i), j)
            <=> p.ok /\ w.ok /\ w.at < j /\ Closes(j) /\ Prs(w.at)
      <4>1. ~(p.ok /\ w.ok) => ~Reads(Pairs(f, s, i), j)
        BY <2>6, <2>12 DEF Reads, Error
      <4>. QED
        BY <2>5, <2>6, <2>7, <2>12, <4>1
    <3>2. ASSUME i < j, Closes(j)
          PROVE  IsPairs(g, s, i, j - 1) <=> p.ok /\ w.ok /\ w.at < j /\ Prs(w.at)
      <4>1. i # j - 1
        <5>. SUFFICES ASSUME i = j - 1 PROVE FALSE
          OBVIOUS
        <5>1. j = i + 1 /\ i <= Len(s)
          BY <1>1
        <5>. QED
          BY <1>6, <2>12, <3>2, <5>1
      <4>2. ASSUME NEW k \in (i + 1) .. (j - 1), NEW m \in (k + 1) .. (j - 1),
                   IsBytes(s, i, k), Val(k, m), Prs(m)
            PROVE  p.ok /\ w.ok /\ w.at < j /\ Prs(w.at)
        <5>1. k \in 1 .. N /\ m \in 1 .. N /\ m < j
          BY <1>1
        <5>2. p.ok /\ p.at = k
          BY <2>8, <4>2, <5>1
        <5>3. w.ok /\ w.at = m
          BY <2>2, <4>2, <5>1, <5>2
        <5>. QED
          BY <4>2, <5>1, <5>2, <5>3
      <4>3. ASSUME p.ok, w.ok, w.at < j, Prs(w.at)
            PROVE  \E k \in (i + 1) .. (j - 1) : \E m \in (k + 1) .. (j - 1) :
                     IsBytes(s, i, k) /\ Val(k, m) /\ Prs(m)
        <5>1. /\ p.at \in (i + 1) .. (j - 1) /\ w.at \in (p.at + 1) .. (j - 1)
              /\ p.at \in 1 .. N /\ w.at \in 1 .. N
          BY <1>1, <2>1, <2>3, <2>4, <4>3
        <5>2. IsBytes(s, i, p.at) /\ Val(p.at, w.at)
          BY <2>2, <2>8, <4>3, <5>1
        <5>. QED
          BY <4>3, <5>1, <5>2
      <4>. QED
        BY <2>9, <4>1, <4>2, <4>3
    <3>3. p.ok /\ w.ok /\ w.at < j => i < j
      BY <1>1, <2>4
    <3>. QED
      BY <3>1, <3>2, <3>3
  <2>. QED
    BY <2>11, <2>12
<1>9. Values(f, s, i).ok <=> IsValues(g, i, Len(s) + 1)
  <2>. DEFINE r == f[<<"values", v.at>>]
  <2>1. v.ok => (r.ok <=> Of(v.at, N))
    <3>1. v.ok => Agree(f, g, s, v.at)
      BY <1>3
    <3>. QED
      BY <3>1 DEF Agree
  <2>2. Values(f, s, i) = IF v.ok THEN Before(v.value, r)
                          ELSE IF i = Len(s) + 1 THEN Ok(<<>>, i) ELSE Error
    BY DEF Values
  <2>3. Before(v.value, r).ok <=> r.ok
    <3>. HIDE DEF v, r
    <3>. QED
      BY DEF Before, Ok, Error
  <2>4. IsValues(g, i, N) <=> i = N \/ \E k \in (i + 1) .. N : Value(k) /\ Of(k, N)
    BY DEF IsValues
  <2>5. \A k \in (i + 1) .. N : Value(k) <=> v.ok /\ v.at = k
    <3>. HIDE DEF v, Value
    <3>1. \A k \in (i + 1) .. N : k \in 1 .. N
      BY <1>1
    <3>. QED
      BY <1>4, <3>1
  <2>. HIDE DEF v, r, Value, Of
  <2>6. CASE v.ok
    <3>1. v.at \in (i + 1) .. N /\ i # N
      BY <1>1, <1>3, <2>6
    <3>2. IsValues(g, i, N) <=> Of(v.at, N)
      BY <2>4, <2>5, <2>6, <3>1
    <3>. QED
      BY <2>1, <2>2, <2>3, <2>6, <3>2
  <2>7. CASE ~v.ok
    <3>1. IsValues(g, i, N) <=> i = N
      BY <2>4, <2>5, <2>7
    <3>2. Values(f, s, i).ok <=> i = N
      BY <2>2, <2>7 DEF Ok, Error
    <3>. QED
      BY <3>1, <3>2
  <2>. QED
    BY <2>6, <2>7
<1>. QED
  BY <1>7, <1>8, <1>9

\* The parser reads what the grammar allows, wherever it begins.
LEMMA ParserAgrees ==
  ASSUME NEW B, NEW s \in Seq(B), MaxLength \in Nat, Len(s) <= MaxLength
  PROVE  \A i \in Places(s) : Agree(Parser(s), Grammar(s), s, i)
<1>. DEFINE N == Len(s) + 1
            f == Parser(s)
            g == Grammar(s)
            S == {i \in 1 .. N : Agree(f, g, s, i)}
<1>1. N \in Nat /\ Places(s) = 1 .. N /\ Len(s) + 1 = N
  BY DEF Places
<1>2. ASSUME NEW i \in Places(s) PROVE Steps(f, s, i) /\ Results(f, s, i) /\ Rules(g, s, i)
  BY ParserIs, GrammarIs
<1>. HIDE DEF f, g
<1>3. ASSUME NEW i \in 1 .. N, \A m \in (i + 1) .. N : m \in S PROVE i \in S
  <2>1. i \in Places(s) /\ \A m \in (i + 1) .. (Len(s) + 1) : m \in Places(s)
    BY <1>1
  <2>2. \A m \in (i + 1) .. (Len(s) + 1) : Agree(f, g, s, m) /\ Results(f, s, m)
    BY <1>1, <1>2, <1>3, <2>1
  <2>3. Steps(f, s, i) /\ Results(f, s, i) /\ Rules(g, s, i)
    BY <1>2, <2>1
  <2>4. \A j \in Places(s) : Reads(f[<<"value", i>>], j) <=> g[<<"value", i, j>>]
    <3>. SUFFICES ASSUME NEW j \in Places(s)
                  PROVE  Reads(f[<<"value", i>>], j) <=> g[<<"value", i, j>>]
      OBVIOUS
    <3>1. Reads(parse_value(f, s, i), j) <=> IsValue(g, s, i, j)
      BY <2>1, <2>2, ValueAgrees
    <3>. QED
      BY <2>3, <3>1 DEF Steps, Rules
  <2>5. /\ \A j \in Places(s) :
             /\ Reads(Items(f, s, i), j) <=> i < j /\ s[j - 1] = "e" /\ IsValues(g, i, j - 1)
             /\ Reads(Pairs(f, s, i), j) <=> i < j /\ s[j - 1] = "e" /\ IsPairs(g, s, i, j - 1)
        /\ Values(f, s, i).ok <=> IsValues(g, i, Len(s) + 1)
    BY <2>1, <2>2, <2>3, <2>4, RestAgrees
  <2>6. \A j \in Places(s) : i < j => j - 1 \in Places(s)
    BY <1>1
  <2>7. Len(s) + 1 \in Places(s)
    BY <1>1
  <2>8. Agree(f, g, s, i)
    BY <2>3, <2>4, <2>5, <2>6, <2>7 DEF Agree, Steps, Rules
  <2>. QED
    BY <2>8
<1>. HIDE DEF S
<1>4. \A i \in 1 .. N : i \in S
  BY <1>1, <1>3, Backward
<1>. QED
  BY <1>1, <1>4 DEF S, f, g

\* The parser accepts the sequences of values of the grammar and nothing else, for sources
\* of any bytes and any length, nested in any way (src/bencode_parser/parser.rs:174-186).
THEOREM ParsesGrammarHolds ==
  ASSUME NEW Byte, source \in Seq(Byte), MaxLength \in Nat, Len(source) <= MaxLength
  PROVE  ParsesGrammar
<1>1. 1 \in Places(source)
  BY DEF Places
<1>2. Agree(Parser(source), Grammar(source), source, 1)
  BY <1>1, ParserAgrees
<1>. QED
  BY <1>2 DEF Agree, ParsesGrammar, parse

-----------------------------------------------------------------------------
(* The scanner as a function of the place and the depth *)

\* f does at i what the scanner does there.
Scans(f, s, i) == \A d \in Int : f[<<i, d>>] = Scan(f, s, i, d)

Level(f, g, i) == \A d \in Int : f[<<i, d>>] = g[<<i, d>>]

LEMMA FindFacts ==
  ASSUME NEW B, NEW s \in Seq(B), NEW i \in 1 .. (Len(s) + 1), NEW c
  PROVE  /\ Find(s, i, c) \in i .. (Len(s) + 1)
         /\ Find(s, i, c) <= Len(s) => s[Find(s, i, c)] = c
         /\ \A k \in i .. (Find(s, i, c) - 1) : s[k] # c
<1>. DEFINE T == {j \in i .. (Len(s) + 1) : j <= Len(s) => s[j] = c}
<1>1. Len(s) \in Nat /\ T \in SUBSET Nat /\ Len(s) + 1 \in T
  OBVIOUS
<1>2. PICK j \in T : \A k \in T : j <= k
  <2>1. T \in SUBSET Nat /\ T # {}
    BY <1>1
  <2>. QED
    BY <2>1, Least
<1>3. \A k \in i .. (j - 1) : s[k] # c
  <2>. SUFFICES ASSUME NEW k \in i .. (j - 1), s[k] = c PROVE FALSE
    OBVIOUS
  <2>1. k \in i .. (Len(s) + 1) /\ ~(j <= k)
    BY <1>1
  <2>. QED
    BY <1>2, <2>1
<1>. QED
  BY <1>2, <1>3 DEF Find

\* What the scanner does is what it does at later places.
LEMMA ScanSame ==
  ASSUME NEW B, NEW s \in Seq(B), NEW i \in 1 .. Len(s), NEW d \in Int, NEW f, NEW g,
         \A m \in (i + 1) .. Len(s) : Level(f, g, m)
  PROVE  Scan(f, s, i, d) = Scan(g, s, i, d)
<1>1. Len(s) \in Nat /\ i \in Nat /\ i \in 1 .. (Len(s) + 1)
  OBVIOUS
<1>2. ASSUME NEW m \in Int, m > i, NEW e \in Int
      PROVE  Loop(f, s, m, e) = Loop(g, s, m, e) /\ Ended(f, s, m, e) = Ended(g, s, m, e)
  <2>1. Loop(f, s, m, e) = Loop(g, s, m, e)
    <3>1. CASE m <= Len(s)
      <4>1. m \in (i + 1) .. Len(s)
        BY <1>1, <1>2, <3>1
      <4>. QED
        BY <4>1 DEF Loop, Level
    <3>2. CASE ~(m <= Len(s))
      BY <3>2 DEF Loop
    <3>. QED
      BY <3>1, <3>2
  <2>. QED
    BY <2>1 DEF Ended
<1>3. d + 1 \in Int /\ d - 1 \in Int /\ i + 1 \in Int /\ i + 1 > i
  BY <1>1
<1>4. ScanString(f, s, i, d) = ScanString(g, s, i, d)
  <2>. DEFINE colon == Find(s, i, ":")
              length == SubSeq(s, i, colon - 1)
              next == Skip(colon, Number(length))
  <2>1. colon \in i .. (Len(s) + 1)
    BY <1>1, FindFacts
  <2>2. IsNumeral(length) => next \in Int /\ next > i
    <3>. SUFFICES ASSUME IsNumeral(length) PROVE next \in Int /\ next > i
      OBVIOUS
    <3>1. length \in Seq(B)
      <4>. HIDE DEF colon
      <4>. QED
        BY <1>1, <2>1, Numeral
    <3>2. Number(length) \in Nat
      BY <3>1, NumberType
    <3>. HIDE DEF colon, length
    <3>. QED
      BY <1>1, <2>1, <3>2 DEF Skip
  <2>3. IsNumeral(length) => Ended(f, s, next, d) = Ended(g, s, next, d)
    <3>. HIDE DEF next, length
    <3>. QED
      BY <1>2, <2>2
  <2>. QED
    BY <2>3 DEF ScanString
<1>5. Ended(f, s, Find(s, i, "e") + 1, d) = Ended(g, s, Find(s, i, "e") + 1, d)
  <2>. DEFINE m == Find(s, i, "e")
  <2>1. m \in i .. (Len(s) + 1)
    BY <1>1, FindFacts
  <2>. HIDE DEF m
  <2>2. m + 1 \in Int /\ m + 1 > i
    BY <1>1, <2>1
  <2>3. Ended(f, s, m + 1, d) = Ended(g, s, m + 1, d)
    BY <1>2, <2>2
  <2>. QED
    BY <2>3 DEF m
<1>6. /\ Loop(f, s, i + 1, d + 1) = Loop(g, s, i + 1, d + 1)
      /\ Ended(f, s, i + 1, d - 1) = Ended(g, s, i + 1, d - 1)
  BY <1>2, <1>3
<1>. QED
  BY <1>4, <1>5, <1>6 DEF Scan

LEMMA ScannerExists ==
  ASSUME NEW B, NEW s \in Seq(B)
  PROVE  \E f : \A i \in 1 .. Len(s) : Scans(f, s, i)
<1>. DEFINE N == Len(s) + 1
            D == (1 .. Len(s)) \X Int
            From(f, i) == \A j \in i .. Len(s) : Scans(f, s, j)
            S == {i \in 1 .. N : \E f : From(f, i)}
<1>1. N \in Nat /\ N >= 1 /\ Len(s) \in Nat /\ Len(s) + 1 = N
  OBVIOUS
<1>2. ASSUME NEW i \in 1 .. N, \A j \in (i + 1) .. N : j \in S PROVE i \in S
  <2>1. CASE i = N
    <3>1. \A j \in i .. Len(s) : FALSE
      BY <2>1, <1>1
    <3>2. \A f : From(f, i)
      BY <3>1
    <3>. QED
      BY <3>2
  <2>2. CASE i < N
    <3>1. i + 1 \in (i + 1) .. N /\ i \in 1 .. Len(s)
      BY <1>1, <2>2
    <3>2. i + 1 \in S
      BY <1>2, <3>1
    <3>3. PICK f : From(f, i + 1)
      BY <3>2
    <3>. DEFINE g == [p \in D |-> IF p[1] = i THEN Scan(f, s, i, p[2]) ELSE f[p]]
    <3>4. ASSUME NEW j \in (i + 1) .. Len(s) PROVE Level(f, g, j)
      <4>1. j \in 1 .. Len(s) /\ j # i
        BY <1>1
      <4>. QED
        BY <4>1 DEF Level
    <3>5. ASSUME NEW d \in Int PROVE g[<<i, d>>] = Scan(f, s, i, d)
      BY <3>1
    <3>. HIDE DEF g, D
    <3>6. Scans(g, s, i)
      <4>. SUFFICES ASSUME NEW d \in Int PROVE g[<<i, d>>] = Scan(g, s, i, d)
        BY DEF Scans
      <4>1. \A m \in (i + 1) .. Len(s) : Level(f, g, m)
        BY <3>4
      <4>2. Scan(f, s, i, d) = Scan(g, s, i, d)
        BY <3>1, <4>1, ScanSame
      <4>. QED
        BY <3>5, <4>2
    <3>7. ASSUME NEW j \in (i + 1) .. Len(s) PROVE Scans(g, s, j)
      <4>. SUFFICES ASSUME NEW d \in Int PROVE g[<<j, d>>] = Scan(g, s, j, d)
        BY DEF Scans
      <4>1. j \in 1 .. Len(s) /\ \A m \in (j + 1) .. Len(s) : m \in (i + 1) .. Len(s)
        BY <1>1
      <4>2. \A m \in (j + 1) .. Len(s) : Level(f, g, m)
        BY <3>4, <4>1
      <4>3. Scan(f, s, j, d) = Scan(g, s, j, d)
        BY <4>1, <4>2, ScanSame
      <4>. QED
        BY <3>3, <3>4, <4>3 DEF Scans, Level
    <3>8. \A j \in i .. Len(s) : j = i \/ j \in (i + 1) .. Len(s)
      BY <1>1
    <3>9. From(g, i)
      BY <3>6, <3>7, <3>8
    <3>. QED
      BY <3>9
  <2>. QED
    BY <1>1, <2>1, <2>2
<1>. HIDE DEF S
<1>3. 1 \in S
  <2>1. \A i \in 1 .. N : i \in S
    BY <1>1, <1>2, Backward
  <2>. QED
    BY <1>1, <2>1
<1>. QED
  BY <1>3 DEF S

LEMMA ScannerIs ==
  ASSUME NEW B, NEW s \in Seq(B), NEW i \in 1 .. Len(s)
  PROVE  Scans(Scanner(s), s, i)
<1>. DEFINE D == (1 .. Len(s)) \X Int
            P(f) == f = [p \in D |-> Scan(f, s, p[1], p[2])]
<1>1. Len(s) \in Nat
  OBVIOUS
<1>2. Scanner(s) = CHOOSE f : P(f)
  BY DEF Scanner
<1>3. \E f : P(f)
  <2>1. PICK f : \A j \in 1 .. Len(s) : Scans(f, s, j)
    BY ScannerExists
  <2>. DEFINE g == [p \in D |-> f[p]]
  <2>2. \A j \in 1 .. Len(s) : Level(f, g, j)
    BY DEF Level
  <2>. HIDE DEF g
  <2>3. ASSUME NEW j \in 1 .. Len(s), NEW d \in Int PROVE g[<<j, d>>] = Scan(g, s, j, d)
    <3>1. \A m \in (j + 1) .. Len(s) : m \in 1 .. Len(s)
      BY <1>1
    <3>2. \A m \in (j + 1) .. Len(s) : Level(f, g, m)
      BY <2>2, <3>1
    <3>3. Scan(f, s, j, d) = Scan(g, s, j, d)
      BY <3>2, ScanSame
    <3>. QED
      BY <2>1, <2>2, <3>3 DEF Scans, Level
  <2>4. ASSUME NEW p \in D PROVE g[p] = Scan(g, s, p[1], p[2])
    <3>1. PICK j \in 1 .. Len(s), d \in Int : p = <<j, d>>
      OBVIOUS
    <3>. QED
      BY <2>3, <3>1
  <2>5. P(g)
    <3>1. g = [p \in D |-> g[p]]
      BY DEF g
    <3>. HIDE DEF D
    <3>. QED
      BY <2>4, <3>1
  <2>. QED
    BY <2>5
<1>4. P(Scanner(s))
  <2>. HIDE DEF P
  <2>. QED
    BY <1>2, <1>3
<1>. DEFINE f == Scanner(s)
<1>5. P(f)
  BY <1>4
<1>6. ASSUME NEW d \in Int PROVE f[<<i, d>>] = Scan(f, s, i, d)
  <2>1. <<i, d>> \in D
    OBVIOUS
  <2>. HIDE DEF f, D
  <2>2. \A p \in D : f[p] = Scan(f, s, p[1], p[2])
    BY <1>5
  <2>. QED
    BY <2>1, <2>2
<1>. QED
  BY <1>6 DEF Scans

-----------------------------------------------------------------------------
(* The scanner and the grammar *)

\* What the grammar lets stand at i the scanner f steps over, as deep as it is.
StepsOver(f, g, s, i) ==
  \A j \in Places(s), d \in Nat :
    /\ g[<<"value", i, j>>] => Loop(f, s, i, d) = Ended(f, s, j, d)
    /\ d > 0 /\ (g[<<"values", i, j>>] \/ g[<<"pairs", i, j>>])
          => Loop(f, s, i, d) = Loop(f, s, j, d)

LEMMA BytesScanned ==
  ASSUME NEW B, NEW s \in Seq(B), MaxLength \in Nat, Len(s) <= MaxLength,
         NEW i \in Places(s), NEW j \in Places(s), NEW d \in Nat, NEW f,
         IsBytes(s, i, j), Scans(f, s, i)
  PROVE  Loop(f, s, i, d) = Ended(f, s, j, d)
<1>. DEFINE length(k) == SubSeq(s, i, k - 1)
<1>1. Len(s) \in Nat /\ i \in 1 .. (Len(s) + 1) /\ j \in 1 .. (Len(s) + 1)
  BY DEF Places
<1>2. HoldsDigit(s, i) /\ i <= Len(s)
  BY BytesStart DEF HoldsDigit
<1>3. PICK k \in (i + 1) .. (j - 1) :
         s[k] = ":" /\ IsNumeral(length(k)) /\ Number(length(k)) = j - 1 - k
  BY DEF IsBytes
<1>4. k \in i .. (Len(s) + 1) /\ k <= Len(s)
  BY <1>1
<1>5. \A m \in i .. (k - 1) : s[m] # ":"
  <2>1. \A m \in i .. (k - 1) : HoldsDigit(s, m)
    BY <1>1, <1>3, <1>4, Numeral
  <2>. QED
    BY <2>1, OtherBytes DEF HoldsDigit
<1>6. Find(s, i, ":") = k
  BY <1>1, <1>3, <1>4, <1>5, FindIs
<1>7. Number(length(k)) <= MaxLength /\ Skip(k, Number(length(k))) = j
  <2>. DEFINE n == Number(length(k))
  <2>1. n = j - 1 - k
    BY <1>3
  <2>. HIDE DEF n
  <2>2. n <= MaxLength /\ k + n + 1 = j
    BY <1>1, <1>4, <2>1
  <2>. QED
    BY <2>2 DEF Skip, n
<1>8. ScanString(f, s, i, d) = Ended(f, s, j, d)
  BY <1>3, <1>4, <1>6, <1>7 DEF ScanString
<1>9. Scan(f, s, i, d) = ScanString(f, s, i, d)
  <2>1. ~Holds(s, i, "i") /\ ~Holds(s, i, "l") /\ ~Holds(s, i, "d") /\ ~Holds(s, i, "e")
    BY <1>2, OtherBytes DEF HoldsDigit, Holds
  <2>. QED
    BY <1>2, <2>1 DEF Scan
<1>10. f[<<i, d>>] = Scan(f, s, i, d)
  <2>1. d \in Int
    OBVIOUS
  <2>. QED
    BY <2>1 DEF Scans
<1>. QED
  BY <1>2, <1>8, <1>9, <1>10 DEF Loop

LEMMA IntegerScanned ==
  ASSUME NEW B, NEW s \in Seq(B), NEW i \in Places(s), NEW j \in Places(s), NEW d \in Nat, NEW f,
         IsInteger(s, i, j), Scans(f, s, i)
  PROVE  Loop(f, s, i, d) = Ended(f, s, j, d)
<1>1. Len(s) \in Nat /\ i \in 1 .. (Len(s) + 1) /\ j \in 1 .. (Len(s) + 1)
  BY DEF Places
<1>2. Holds(s, i, "i") /\ i <= Len(s) /\ s[i] = "i"
  BY IntegerStart DEF Holds
<1>3. PICK first \in {i + 1, i + 2} :
         /\ first < j - 1 /\ s[j - 1] = "e"
         /\ first = i + 2 => s[i + 1] \in {"+", "-"}
         /\ IsNumeral(SubSeq(s, first, j - 2))
  <2>1. i + 2 # i + 1
    BY <1>1
  <2>. QED
    BY <2>1 DEF IsInteger
<1>4. /\ first \in 1 .. (Len(s) + 1) /\ j - 1 \in first .. (Len(s) + 1) /\ (j - 1) - 1 = j - 2
      /\ j - 1 \in i .. (Len(s) + 1) /\ j - 1 <= Len(s) /\ (j - 1) + 1 = j
  <2>1. (first = i + 1 \/ first = i + 2) /\ first < j - 1
    BY <1>3
  <2>. QED
    BY <1>1, <2>1
<1>5. \A m \in first .. (j - 2) : s[m] # "e"
  <2>1. IsNumeral(SubSeq(s, first, (j - 1) - 1))
    BY <1>3, <1>4
  <2>2. \A m \in first .. ((j - 1) - 1) : HoldsDigit(s, m)
    BY <1>1, <1>4, <2>1, Numeral
  <2>3. \A m \in first .. (j - 2) : HoldsDigit(s, m)
    BY <1>4, <2>2
  <2>. QED
    BY <2>3, OtherBytes DEF HoldsDigit
<1>6. ASSUME NEW m \in i .. ((j - 1) - 1) PROVE s[m] # "e"
  <2>1. m = i \/ (m = i + 1 /\ first = i + 2) \/ m \in first .. (j - 2)
    <3>1. first = i + 1 \/ first = i + 2
      BY <1>3
    <3>. QED
      BY <1>1, <3>1
  <2>. QED
    BY <1>2, <1>3, <1>5, <2>1
<1>7. Find(s, i, "e") = j - 1
  <2>1. j - 1 <= Len(s) => s[j - 1] = "e"
    BY <1>3
  <2>2. \A m \in i .. ((j - 1) - 1) : s[m] # "e"
    BY <1>6
  <2>. QED
    BY <1>1, <1>4, <2>1, <2>2, FindIs
<1>8. Scan(f, s, i, d) = Ended(f, s, j, d)
  <2>1. ~Holds(s, i, "l") /\ ~Holds(s, i, "d")
    BY <1>2 DEF Holds
  <2>. QED
    BY <1>2, <1>4, <1>7, <2>1 DEF Scan
<1>9. f[<<i, d>>] = Scan(f, s, i, d)
  <2>1. d \in Int
    OBVIOUS
  <2>. QED
    BY <2>1 DEF Scans
<1>. QED
  BY <1>2, <1>8, <1>9 DEF Loop

\* A byte e that ends something takes the scanner one level up.
LEMMA EndScanned ==
  ASSUME NEW B, NEW s \in Seq(B), NEW k \in 1 .. Len(s), s[k] = "e", NEW d \in Nat, NEW f,
         Scans(f, s, k)
  PROVE  Loop(f, s, k, d + 1) = Ended(f, s, k + 1, d)
<1>1. Len(s) \in Nat /\ k \in Nat /\ k <= Len(s) /\ d + 1 \in Int /\ (d + 1) - 1 = d
  OBVIOUS
<1>2. Holds(s, k, "e") /\ ~Holds(s, k, "d") /\ ~Holds(s, k, "l") /\ ~Holds(s, k, "i")
  BY <1>1 DEF Holds
<1>3. f[<<k, d + 1>>] = Scan(f, s, k, d + 1)
  BY <1>1 DEF Scans
<1>4. Scan(f, s, k, d + 1) = Ended(f, s, k + 1, (d + 1) - 1)
  BY <1>2 DEF Scan
<1>. QED
  BY <1>1, <1>3, <1>4 DEF Loop

LEMMA ValueScanned ==
  ASSUME NEW B, NEW s \in Seq(B), MaxLength \in Nat, Len(s) <= MaxLength,
         NEW i \in Places(s), NEW j \in Places(s), NEW d \in Nat, NEW f, NEW g,
         \A m \in 1 .. Len(s) : Scans(f, s, m),
         \A m \in (i + 1) .. (Len(s) + 1) : StepsOver(f, g, s, m),
         IsValue(g, s, i, j)
  PROVE  Loop(f, s, i, d) = Ended(f, s, j, d)
<1>1. Len(s) \in Nat /\ i \in 1 .. (Len(s) + 1) /\ j \in 1 .. (Len(s) + 1)
  BY DEF Places
<1>2. Starts(s, i)
  BY ValueStarts
<1>3. i \in 1 .. Len(s)
  <2>1. i <= Len(s)
    BY <1>2 DEF Starts, Holds, HoldsDigit
  <2>. QED
    BY <1>1, <2>1
<1>4. Scans(f, s, i)
  BY <1>3
<1>5. CASE IsInteger(s, i, j)
  BY <1>4, <1>5, IntegerScanned
<1>6. CASE IsBytes(s, i, j)
  BY <1>4, <1>6, BytesScanned
<1>7. ASSUME NEW open \in {"l", "d"}, Enclosed(s, i, j, open),
             g[<<"values", i + 1, j - 1>>] \/ g[<<"pairs", i + 1, j - 1>>]
      PROVE  Loop(f, s, i, d) = Ended(f, s, j, d)
  <2>1. i + 1 < j /\ s[i] = open /\ s[j - 1] = "e"
    BY <1>7 DEF Enclosed
  <2>2. /\ i + 1 \in (i + 1) .. (Len(s) + 1) /\ j - 1 \in Places(s) /\ j - 1 \in 1 .. Len(s)
        /\ (j - 1) + 1 = j /\ d + 1 \in Nat /\ d + 1 > 0 /\ d \in Int
    <3>1. i + 1 < j
      BY <2>1
    <3>. QED
      BY <1>1, <3>1 DEF Places
  <2>3. Loop(f, s, i + 1, d + 1) = Loop(f, s, j - 1, d + 1)
    <3>1. StepsOver(f, g, s, i + 1)
      BY <2>2
    <3>. QED
      BY <1>7, <2>2, <3>1 DEF StepsOver
  <2>4. Loop(f, s, j - 1, d + 1) = Ended(f, s, j, d)
    <3>1. Loop(f, s, j - 1, d + 1) = Ended(f, s, (j - 1) + 1, d)
      BY <2>1, <2>2, EndScanned
    <3>. QED
      BY <2>2, <3>1
  <2>5. Scan(f, s, i, d) = Loop(f, s, i + 1, d + 1)
    <3>1. i <= Len(s)
      BY <1>3
    <3>2. Holds(s, i, "d") \/ Holds(s, i, "l")
      BY <1>7, <2>1, <3>1 DEF Holds
    <3>. QED
      BY <3>2 DEF Scan
  <2>6. f[<<i, d>>] = Scan(f, s, i, d)
    BY <1>4, <2>2 DEF Scans
  <2>7. Loop(f, s, i, d) = f[<<i, d>>]
    BY <1>3 DEF Loop
  <2>. QED
    BY <2>3, <2>4, <2>5, <2>6, <2>7
<1>8. CASE Enclosed(s, i, j, "l") /\ g[<<"values", i + 1, j - 1>>]
  BY <1>7, <1>8
<1>9. CASE Enclosed(s, i, j, "d") /\ g[<<"pairs", i + 1, j - 1>>]
  BY <1>7, <1>9
<1>. QED
  BY <1>5, <1>6, <1>8, <1>9 DEF IsValue

\* What has ended inside something is followed by what comes next.
LEMMA EndedInside ==
  ASSUME NEW f, NEW s, NEW k, NEW d \in Nat, d > 0
  PROVE  Ended(f, s, k, d) = Loop(f, s, k, d)
<1>1. d # 0
  OBVIOUS
<1>. QED
  BY <1>1 DEF Ended

LEMMA RestScanned ==
  ASSUME NEW B, NEW s \in Seq(B), MaxLength \in Nat, Len(s) <= MaxLength,
         NEW i \in Places(s), NEW j \in Places(s), NEW d \in Nat, d > 0, NEW f, NEW g,
         \A m \in 1 .. Len(s) : Scans(f, s, m), Rules(g, s, i),
         \A m \in (i + 1) .. (Len(s) + 1) : StepsOver(f, g, s, m),
         \A m \in Places(s) : IsValue(g, s, i, m) => Loop(f, s, i, d) = Ended(f, s, m, d),
         IsValues(g, i, j) \/ IsPairs(g, s, i, j)
  PROVE  Loop(f, s, i, d) = Loop(f, s, j, d)
<1>1. Len(s) \in Nat /\ i \in 1 .. (Len(s) + 1) /\ j \in 1 .. (Len(s) + 1)
  BY DEF Places
<1>2. ASSUME NEW k \in (i + 1) .. j
      PROVE  k \in (i + 1) .. (Len(s) + 1) /\ k \in Places(s) /\ StepsOver(f, g, s, k)
  <2>1. k \in (i + 1) .. (Len(s) + 1) /\ k \in Places(s)
    BY <1>1 DEF Places
  <2>. QED
    BY <2>1
<1>3. CASE i = j
  BY <1>3
<1>4. ASSUME NEW k \in (i + 1) .. j, g[<<"value", i, k>>], g[<<"values", k, j>>]
      PROVE  Loop(f, s, i, d) = Loop(f, s, j, d)
  <2>1. IsValue(g, s, i, k)
    BY <1>2, <1>4 DEF Rules
  <2>2. Loop(f, s, i, d) = Ended(f, s, k, d)
    BY <1>2, <2>1
  <2>3. Loop(f, s, k, d) = Loop(f, s, j, d)
    BY <1>2, <1>4 DEF StepsOver
  <2>. QED
    BY <2>2, <2>3, EndedInside
<1>5. ASSUME NEW k \in (i + 1) .. j, NEW m \in (k + 1) .. j,
             IsBytes(s, i, k), g[<<"value", k, m>>], g[<<"pairs", m, j>>]
      PROVE  Loop(f, s, i, d) = Loop(f, s, j, d)
  <2>1. m \in (i + 1) .. j /\ i \in 1 .. Len(s)
    BY <1>1
  <2>2. Loop(f, s, i, d) = Ended(f, s, k, d)
    <3>1. Scans(f, s, i) /\ k \in Places(s)
      BY <1>2, <2>1
    <3>. QED
      BY <1>5, <3>1, BytesScanned
  <2>3. Loop(f, s, k, d) = Ended(f, s, m, d)
    BY <1>2, <1>5, <2>1 DEF StepsOver
  <2>4. Loop(f, s, m, d) = Loop(f, s, j, d)
    BY <1>2, <1>5, <2>1 DEF StepsOver
  <2>. QED
    BY <2>2, <2>3, <2>4, EndedInside
<1>6. CASE IsValues(g, i, j)
  BY <1>3, <1>4, <1>6 DEF IsValues
<1>7. CASE IsPairs(g, s, i, j)
  BY <1>3, <1>5, <1>7 DEF IsPairs
<1>. QED
  BY <1>6, <1>7

\* The scanner steps over what the grammar allows, wherever it begins.
LEMMA ScannerAgrees ==
  ASSUME NEW B, NEW s \in Seq(B), MaxLength \in Nat, Len(s) <= MaxLength
  PROVE  \A i \in Places(s) : StepsOver(Scanner(s), Grammar(s), s, i)
<1>. DEFINE N == Len(s) + 1
            f == Scanner(s)
            g == Grammar(s)
            S == {i \in 1 .. N : StepsOver(f, g, s, i)}
<1>1. N \in Nat /\ Places(s) = 1 .. N /\ Len(s) + 1 = N
  BY DEF Places
<1>2. (\A m \in 1 .. Len(s) : Scans(f, s, m)) /\ (\A m \in Places(s) : Rules(g, s, m))
  BY ScannerIs, GrammarIs
<1>. HIDE DEF f, g
<1>3. ASSUME NEW i \in 1 .. N, \A m \in (i + 1) .. N : m \in S PROVE i \in S
  <2>1. i \in Places(s) /\ \A m \in (i + 1) .. (Len(s) + 1) : StepsOver(f, g, s, m)
    BY <1>1, <1>3
  <2>2. \A m \in Places(s), d \in Nat :
           IsValue(g, s, i, m) => Loop(f, s, i, d) = Ended(f, s, m, d)
    <3>. SUFFICES ASSUME NEW m \in Places(s), NEW d \in Nat, IsValue(g, s, i, m)
                  PROVE  Loop(f, s, i, d) = Ended(f, s, m, d)
      OBVIOUS
    <3>. QED
      BY <1>2, <2>1, ValueScanned
  <2>3. ASSUME NEW j \in Places(s), NEW d \in Nat, d > 0, IsValues(g, i, j) \/ IsPairs(g, s, i, j)
        PROVE  Loop(f, s, i, d) = Loop(f, s, j, d)
    <3>1. \A m \in Places(s) : IsValue(g, s, i, m) => Loop(f, s, i, d) = Ended(f, s, m, d)
      BY <2>2
    <3>2. Rules(g, s, i)
      BY <1>2, <2>1
    <3>. QED
      BY <1>2, <2>1, <2>3, <3>1, <3>2, RestScanned
  <2>4. Rules(g, s, i)
    BY <1>2, <2>1
  <2>5. StepsOver(f, g, s, i)
    BY <2>2, <2>3, <2>4 DEF StepsOver, Rules
  <2>. QED
    BY <2>5
<1>. HIDE DEF S
<1>4. \A i \in 1 .. N : i \in S
  BY <1>1, <1>3, Backward
<1>. QED
  BY <1>1, <1>4 DEF S, f, g

\* Where a source begins with a dictionary the scanner finds its end.
LEMMA EndFound ==
  ASSUME NEW B, NEW s \in Seq(B), MaxLength \in Nat, Len(s) <= MaxLength,
         NEW j \in 2 .. (Len(s) + 1), Grammar(s)[<<"value", 1, j>>]
  PROVE  find_bencode_end(s) = j - 1
<1>1. 1 \in Places(s) /\ j \in Places(s) /\ 0 \in Nat
  BY DEF Places
<1>2. StepsOver(Scanner(s), Grammar(s), s, 1)
  BY <1>1, ScannerAgrees
<1>3. Loop(Scanner(s), s, 1, 0) = Ended(Scanner(s), s, j, 0)
  BY <1>1, <1>2 DEF StepsOver
<1>. QED
  BY <1>3 DEF find_bencode_end, Ended

-----------------------------------------------------------------------------
(* The parser on a part of a source *)

\* t is s behind a, up to b.
Part(t, s, a, b) ==
  /\ a \in 0 .. Len(s) /\ b \in a .. Len(s)
  /\ Len(t) = b - a
  /\ \A k \in 1 .. (b - a) : t[k] = s[k + a]

\* What r reads inside the part q reads on the part alone.
Moved(r, q, a, b) == r.ok /\ r.at <= b + 1 => q = Ok(r.value, r.at - a)

LEMMA PartHolds ==
  ASSUME NEW B, NEW s \in Seq(B), NEW t \in Seq(B), NEW a, NEW b, Part(t, s, a, b),
         NEW i \in 1 .. (b - a)
  PROVE  /\ t[i] = s[i + a] /\ i <= Len(t) /\ i + a <= Len(s)
         /\ \A c : Holds(t, i, c) <=> Holds(s, i + a, c)
         /\ HoldsDigit(t, i) <=> HoldsDigit(s, i + a)
<1>1. t[i] = s[i + a] /\ i <= Len(t) /\ i + a <= Len(s)
  BY DEF Part
<1>. QED
  BY <1>1 DEF Holds, HoldsDigit

LEMMA PartOfPart ==
  ASSUME NEW B, NEW s \in Seq(B), NEW t \in Seq(B), NEW a, NEW b, Part(t, s, a, b),
         NEW m \in Int, NEW n \in Int, 1 <= m, m <= n, n <= b - a + 1
  PROVE  Raw(t, m, n) = Raw(s, m + a, n + a)
<1>1. /\ Len(s) \in Nat /\ a \in 0 .. Len(s) /\ b \in a .. Len(s) /\ Len(t) = b - a
      /\ \A k \in 1 .. (b - a) : t[k] = s[k + a]
  BY DEF Part
<1>. DEFINE u == Raw(t, m, n)
            v == Raw(s, m + a, n + a)
<1>2. u \in Seq(B) /\ Len(u) = n - m /\ \A k \in 1 .. (n - m) : u[k] = t[m + k - 1]
  BY <1>1 DEF Raw
<1>3. v \in Seq(B) /\ Len(v) = n - m /\ \A k \in 1 .. (n - m) : v[k] = s[m + a + k - 1]
  <2>. DEFINE x == m + a
              y == (n + a) - 1
  <2>1. x \in 1 .. (Len(s) + 1) /\ y \in (x - 1) .. Len(s) /\ y - x + 1 = n - m
    BY <1>1
  <2>2. v = SubSeq(s, x, y)
    BY DEF Raw
  <2>. HIDE DEF x, y, v
  <2>3. v \in Seq(B) /\ Len(v) = n - m /\ \A k \in 1 .. (n - m) : v[k] = s[x + k - 1]
    BY <2>1, <2>2, SMTT(30)
  <2>. QED
    BY <2>3 DEF x
<1>4. ASSUME NEW k \in 1 .. (n - m) PROVE u[k] = v[k]
  <2>1. m + k - 1 \in 1 .. (b - a) /\ (m + k - 1) + a = m + a + k - 1
    BY <1>1
  <2>. HIDE DEF u, v
  <2>. QED
    BY <1>1, <1>2, <1>3, <2>1
<1>. HIDE DEF u, v
<1>5. u = v
  BY <1>2, <1>3, <1>4, SeqEqual
<1>. QED
  BY <1>5 DEF u, v

LEMMA BytesMoved ==
  ASSUME NEW B, NEW s \in Seq(B), NEW t \in Seq(B), NEW a, NEW b, Part(t, s, a, b),
         NEW i \in 1 .. (b - a + 1)
  PROVE  Moved(parse_bytes(s, i + a), parse_bytes(t, i), a, b)
<1>. DEFINE colon == AfterDigits(s, i + a)
            n == Number(SubSeq(s, i + a, colon - 1))
            other == AfterDigits(t, i)
<1>1. /\ Len(s) \in Nat /\ a \in 0 .. Len(s) /\ b \in a .. Len(s) /\ Len(t) = b - a
      /\ i + a \in 1 .. (Len(s) + 1)
  BY DEF Part
<1>2. /\ colon \in (i + a) .. (Len(s) + 1) /\ ~HoldsDigit(s, colon)
      /\ \A k \in (i + a) .. (colon - 1) : HoldsDigit(s, k)
  BY <1>1, AfterDigitsFacts
<1>3. parse_bytes(s, i + a) =
        IF i + a < colon /\ Holds(s, colon, ":") /\ n <= MaxLength /\ colon + n <= Len(s)
        THEN Ok([kind |-> "bytes", bytes |-> SubSeq(s, colon + 1, colon + n)], colon + n + 1)
        ELSE Error
  BY DEF parse_bytes
<1>4. parse_bytes(t, i) =
        IF /\ i < other /\ Holds(t, other, ":")
           /\ Number(SubSeq(t, i, other - 1)) <= MaxLength
           /\ other + Number(SubSeq(t, i, other - 1)) <= Len(t)
        THEN Ok([kind |-> "bytes",
                 bytes |-> SubSeq(t, other + 1, other + Number(SubSeq(t, i, other - 1)))],
                other + Number(SubSeq(t, i, other - 1)) + 1)
        ELSE Error
  BY DEF parse_bytes
<1>. HIDE DEF colon, other
<1>. SUFFICES ASSUME parse_bytes(s, i + a).ok, parse_bytes(s, i + a).at <= b + 1
              PROVE  parse_bytes(t, i)
                       = Ok(parse_bytes(s, i + a).value, parse_bytes(s, i + a).at - a)
  BY DEF Moved
<1>5. /\ i + a < colon /\ Holds(s, colon, ":") /\ n <= MaxLength /\ colon + n + 1 <= b + 1
      /\ parse_bytes(s, i + a)
           = Ok([kind |-> "bytes", bytes |-> SubSeq(s, colon + 1, colon + n)], colon + n + 1)
  <2>. HIDE DEF n
  <2>. QED
    BY <1>3 DEF Ok, Error
<1>6. n \in Nat
  <2>1. SubSeq(s, i + a, colon - 1) \in Seq(B) /\ IsNumeral(SubSeq(s, i + a, colon - 1))
    BY <1>1, <1>2, <1>5, Numeral
  <2>. QED
    BY <2>1, NumberType
<1>. DEFINE k == colon - a
<1>7. /\ k \in i .. (Len(t) + 1) /\ k \in 1 .. (b - a) /\ i < k /\ k + a = colon
      /\ k + n <= Len(t) /\ k - 1 + a = colon - 1 /\ i \in 1 .. (Len(t) + 1)
      /\ k + 1 + a = colon + 1 /\ k + n + a = colon + n /\ k + n + 1 = (colon + n + 1) - a
      /\ k - 1 \in (i - 1) .. (b - a) /\ k + 1 \in 1 .. (b - a + 1) /\ k + n \in k .. (b - a)
      /\ (k + 1) - 1 = k
  <2>1. i + a < colon /\ colon + n + 1 <= b + 1
    BY <1>5
  <2>. HIDE DEF n
  <2>. QED
    BY <1>1, <1>2, <1>6, <2>1
<1>. HIDE DEF k, n
<1>8. Holds(t, k, ":") /\ ~HoldsDigit(t, k)
  BY <1>2, <1>5, <1>7, PartHolds
<1>9. \A m \in i .. (k - 1) : HoldsDigit(t, m)
  <2>. SUFFICES ASSUME NEW m \in i .. (k - 1) PROVE HoldsDigit(t, m)
    OBVIOUS
  <2>1. m \in 1 .. (b - a) /\ m + a \in (i + a) .. (colon - 1)
    BY <1>1, <1>7
  <2>. QED
    BY <1>2, <2>1, PartHolds
<1>10. other = k
  BY <1>7, <1>8, <1>9, AfterDigitsIs DEF other
<1>11. SubSeq(t, i, k - 1) = SubSeq(s, i + a, colon - 1)
  <2>1. i \in Int /\ k \in Int /\ 1 <= i /\ i <= k /\ k <= b - a + 1
    BY <1>1, <1>7
  <2>2. Raw(t, i, k) = Raw(s, i + a, k + a)
    BY <2>1, PartOfPart
  <2>. QED
    BY <1>7, <2>2 DEF Raw
<1>12. Number(SubSeq(t, i, other - 1)) = n
  BY <1>10, <1>11 DEF n
<1>13. SubSeq(t, k + 1, k + n) = SubSeq(s, colon + 1, colon + n)
  <2>. DEFINE x == k + 1
              y == k + n + 1
  <2>1. /\ x \in Int /\ y \in Int /\ 1 <= x /\ x <= y /\ y <= b - a + 1
        /\ x + a = colon + 1 /\ (y + a) - 1 = colon + n /\ y - 1 = k + n /\ x = k + 1
    BY <1>1, <1>6, <1>7
  <2>. HIDE DEF x, y
  <2>2. Raw(t, x, y) = Raw(s, x + a, y + a)
    BY <2>1, PartOfPart
  <2>. QED
    BY <2>1, <2>2 DEF Raw
<1>14. parse_bytes(t, i)
         = Ok([kind |-> "bytes", bytes |-> SubSeq(t, k + 1, k + n)], k + n + 1)
  BY <1>4, <1>5, <1>7, <1>8, <1>10, <1>12
<1>15. parse_bytes(s, i + a).at = colon + n + 1
       /\ parse_bytes(s, i + a).value = [kind |-> "bytes", bytes |-> SubSeq(s, colon + 1, colon + n)]
  <2>. DEFINE v == [kind |-> "bytes", bytes |-> SubSeq(s, colon + 1, colon + n)]
              at == colon + n + 1
  <2>1. parse_bytes(s, i + a) = Ok(v, at)
    BY <1>5
  <2>. HIDE DEF v, at
  <2>2. parse_bytes(s, i + a).at = at /\ parse_bytes(s, i + a).value = v
    BY <2>1 DEF Ok
  <2>. QED
    BY <2>2 DEF v, at
<1>. QED
  BY <1>7, <1>13, <1>14, <1>15

LEMMA IntegerMoved ==
  ASSUME NEW B, NEW s \in Seq(B), NEW t \in Seq(B), NEW a, NEW b, Part(t, s, a, b),
         NEW i \in 1 .. (b - a)
  PROVE  Moved(parse_integer(s, i + a), parse_integer(t, i), a, b)
<1>. DEFINE sign == IF Holds(s, i + a + 1, "+") \/ Holds(s, i + a + 1, "-")
                    THEN s[i + a + 1] ELSE ""
            first == IF sign = "" THEN i + a + 1 ELSE i + a + 2
            after == AfterDigits(s, first)
            digits == SubSeq(s, first, after - 1)
            n == Number(digits)
            sign2 == IF Holds(t, i + 1, "+") \/ Holds(t, i + 1, "-") THEN t[i + 1] ELSE ""
            first2 == IF sign2 = "" THEN i + 1 ELSE i + 2
            after2 == AfterDigits(t, first2)
            digits2 == SubSeq(t, first2, after2 - 1)
<1>1. Len(s) \in Nat /\ a \in 0 .. Len(s) /\ b \in a .. Len(s) /\ Len(t) = b - a
  BY DEF Part
<1>2. parse_integer(s, i + a) =
        IF /\ first < after /\ Holds(s, after, "e") /\ Canonical(sign, digits)
           /\ InRange(sign, n)
        THEN Ok([kind |-> "integer", n |-> IF sign = "-" THEN -n ELSE n], after + 1)
        ELSE Error
  BY DEF parse_integer
<1>3. parse_integer(t, i) =
        IF /\ first2 < after2 /\ Holds(t, after2, "e") /\ Canonical(sign2, digits2)
           /\ InRange(sign2, Number(digits2))
        THEN Ok([kind |-> "integer",
                 n |-> IF sign2 = "-" THEN -Number(digits2) ELSE Number(digits2)], after2 + 1)
        ELSE Error
  BY DEF parse_integer
<1>4. /\ sign = "" \/ i + a + 1 <= Len(s)
      /\ sign = "" => first = i + a + 1
      /\ sign # "" => first = i + a + 2
  BY DEF Holds
<1>5. (sign2 = "" => first2 = i + 1) /\ (sign2 # "" => first2 = i + 2)
  OBVIOUS
<1>6. /\ first = i + a + 1 \/ (i + a + 1 <= Len(s) /\ first = i + a + 2)
      /\ sign = sign2 => (first = i + a + 1 /\ first2 = i + 1)
                         \/ (first = i + a + 2 /\ first2 = i + 2)
  BY <1>4, <1>5, Zenon
<1>7. sign2 = IF Holds(t, i + 1, "+") \/ Holds(t, i + 1, "-") THEN t[i + 1] ELSE ""
  OBVIOUS
<1>8. sign = IF Holds(s, i + a + 1, "+") \/ Holds(s, i + a + 1, "-") THEN s[i + a + 1] ELSE ""
  OBVIOUS
<1>. HIDE DEF sign2, first2, sign, first
<1>9. first \in 1 .. (Len(s) + 1) /\ first >= i + a + 1
  BY <1>1, <1>6
<1>10. /\ after \in first .. (Len(s) + 1) /\ ~HoldsDigit(s, after)
       /\ \A k \in first .. (after - 1) : HoldsDigit(s, k)
  BY <1>9, AfterDigitsFacts
<1>. HIDE DEF after, after2
<1>. SUFFICES ASSUME parse_integer(s, i + a).ok, parse_integer(s, i + a).at <= b + 1
              PROVE  parse_integer(t, i)
                       = Ok(parse_integer(s, i + a).value, parse_integer(s, i + a).at - a)
  BY DEF Moved
<1>11. /\ first < after /\ Holds(s, after, "e") /\ Canonical(sign, digits) /\ InRange(sign, n)
       /\ after + 1 <= b + 1
       /\ parse_integer(s, i + a)
            = Ok([kind |-> "integer", n |-> IF sign = "-" THEN -n ELSE n], after + 1)
  <2>. HIDE DEF digits, n
  <2>. QED
    BY <1>2 DEF Ok, Error
<1>12. i + 1 \in 1 .. (b - a) /\ (i + 1) + a = i + a + 1
  <2>1. first < after /\ after + 1 <= b + 1
    BY <1>11
  <2>. QED
    BY <1>1, <1>9, <1>10, <2>1
<1>13. sign2 = sign
  <2>1. /\ t[i + 1] = s[(i + 1) + a]
        /\ \A c : Holds(t, i + 1, c) <=> Holds(s, (i + 1) + a, c)
    BY <1>12, PartHolds
  <2>2. /\ t[i + 1] = s[i + a + 1]
        /\ \A c : Holds(t, i + 1, c) <=> Holds(s, i + a + 1, c)
    BY <1>12, <2>1
  <2>. QED
    BY <1>7, <1>8, <2>2, Zenon
<1>14. first2 + a = first
  <2>1. (first = i + a + 1 /\ first2 = i + 1) \/ (first = i + a + 2 /\ first2 = i + 2)
    BY <1>6, <1>13
  <2>. QED
    BY <1>1, <2>1
<1>. DEFINE k == after - a
<1>15. /\ first2 \in 1 .. (Len(t) + 1) /\ k \in first2 .. (Len(t) + 1) /\ k \in 1 .. (b - a)
       /\ first2 < k /\ k + a = after /\ (k - 1) + a = after - 1 /\ k + 1 = (after + 1) - a
       /\ first2 \in 1 .. (b - a + 1) /\ k - 1 \in (first2 - 1) .. (b - a)
  <2>1. first < after /\ after + 1 <= b + 1
    BY <1>11
  <2>2. first2 \in Int /\ first2 >= i + 1
    <3>1. first2 = i + 1 \/ first2 = i + 2
      BY <1>6, <1>13
    <3>. QED
      BY <3>1
  <2>. QED
    BY <1>1, <1>9, <1>10, <1>14, <2>1, <2>2
<1>. HIDE DEF k
<1>16. Holds(t, k, "e") /\ ~HoldsDigit(t, k)
  BY <1>10, <1>11, <1>15, PartHolds
<1>17. \A m \in first2 .. (k - 1) : HoldsDigit(t, m)
  <2>. SUFFICES ASSUME NEW m \in first2 .. (k - 1) PROVE HoldsDigit(t, m)
    OBVIOUS
  <2>1. m \in 1 .. (b - a) /\ m + a \in first .. (after - 1)
    BY <1>1, <1>14, <1>15
  <2>. QED
    BY <1>10, <2>1, PartHolds
<1>18. after2 = k
  BY <1>15, <1>16, <1>17, AfterDigitsIs DEF after2
<1>19. digits2 = digits
  <2>1. first2 \in Int /\ k \in Int /\ 1 <= first2 /\ first2 <= k /\ k <= b - a + 1
    BY <1>1, <1>15
  <2>2. Raw(t, first2, k) = Raw(s, first2 + a, k + a)
    BY <2>1, PartOfPart
  <2>. QED
    BY <1>14, <1>15, <1>18, <2>2 DEF Raw
<1>. HIDE DEF digits2, digits
<1>20. parse_integer(t, i) = Ok([kind |-> "integer", n |-> IF sign = "-" THEN -n ELSE n], k + 1)
  BY <1>3, <1>11, <1>13, <1>15, <1>16, <1>18, <1>19
<1>21. /\ parse_integer(s, i + a).at = after + 1
       /\ parse_integer(s, i + a).value = [kind |-> "integer", n |-> IF sign = "-" THEN -n ELSE n]
  BY <1>11 DEF Ok
<1>. QED
  BY <1>15, <1>20, <1>21

Moving(f, g, a, b, i) ==
  /\ Moved(f[<<"value", i + a>>], g[<<"value", i>>], a, b)
  /\ Moved(f[<<"items", i + a>>], g[<<"items", i>>], a, b)
  /\ Moved(f[<<"pairs", i + a>>], g[<<"pairs", i>>], a, b)

LEMMA ValueMoved ==
  ASSUME NEW B, NEW s \in Seq(B), NEW t \in Seq(B), NEW a, NEW b, Part(t, s, a, b),
         NEW i \in 1 .. (b - a + 1), NEW f, NEW g,
         \A m \in (i + 1) .. (b - a + 1) : Moving(f, g, a, b, m),
         \A m \in Places(s) : Results(f, s, m)
  PROVE  Moved(parse_value(f, s, i + a), parse_value(g, t, i), a, b)
<1>1. /\ Len(s) \in Nat /\ a \in 0 .. Len(s) /\ b \in a .. Len(s) /\ Len(t) = b - a
      /\ i + a \in Places(s)
  BY DEF Part, Places
<1>. DEFINE r == parse_value(f, s, i + a)
<1>2. Result(r, i + a + 1, s)
  <2>1. \A m \in ((i + a) + 1) .. (Len(s) + 1) : m \in Places(s)
    BY <1>1 DEF Places
  <2>2. \A m \in ((i + a) + 1) .. (Len(s) + 1) : Results(f, s, m)
    BY <2>1
  <2>. QED
    BY <1>1, <2>2, ValueResult
<1>. SUFFICES ASSUME r.ok, r.at <= b + 1 PROVE parse_value(g, t, i) = Ok(r.value, r.at - a)
  BY DEF Moved
<1>3. r.at \in (i + a + 1) .. (b + 1) /\ i \in 1 .. (b - a)
  <2>. HIDE DEF r
  <2>1. r.at \in (i + a + 1) .. (Len(s) + 1) /\ r.at <= b + 1
    BY <1>2 DEF Result
  <2>. QED
    BY <1>1, <2>1
<1>4. /\ \A c : Holds(t, i, c) <=> Holds(s, i + a, c)
      /\ HoldsDigit(t, i) <=> HoldsDigit(s, i + a)
  BY <1>3, PartHolds
<1>5. CASE HoldsDigit(s, i + a)
  <2>1. r = parse_bytes(s, i + a) /\ parse_value(g, t, i) = parse_bytes(t, i)
    BY <1>4, <1>5 DEF parse_value
  <2>2. Moved(parse_bytes(s, i + a), parse_bytes(t, i), a, b)
    BY BytesMoved
  <2>. QED
    BY <2>1, <2>2 DEF Moved
<1>6. CASE ~HoldsDigit(s, i + a) /\ Holds(s, i + a, "i")
  <2>1. r = parse_integer(s, i + a) /\ parse_value(g, t, i) = parse_integer(t, i)
    BY <1>4, <1>6 DEF parse_value
  <2>2. Moved(parse_integer(s, i + a), parse_integer(t, i), a, b)
    BY <1>3, IntegerMoved
  <2>. QED
    BY <2>1, <2>2 DEF Moved
<1>7. i + 1 \in (i + 1) .. (b - a + 1) /\ (i + 1) + a = i + a + 1
  BY <1>1, <1>3
<1>8. /\ Moved(f[<<"items", i + a + 1>>], g[<<"items", i + 1>>], a, b)
      /\ Moved(f[<<"pairs", i + a + 1>>], g[<<"pairs", i + 1>>], a, b)
  <2>1. Moving(f, g, a, b, i + 1)
    BY <1>7
  <2>. QED
    BY <1>7, <2>1 DEF Moving
<1>9. CASE ~HoldsDigit(s, i + a) /\ ~Holds(s, i + a, "i") /\ Holds(s, i + a, "l")
  <2>. DEFINE p == f[<<"items", i + a + 1>>]
              q == g[<<"items", i + 1>>]
  <2>1. r = parse_list(f, s, i + a) /\ parse_value(g, t, i) = parse_list(g, t, i)
    BY <1>4, <1>9 DEF parse_value
  <2>2. p.ok /\ r = Ok([kind |-> "list", items |-> p.value], p.at)
    BY <2>1 DEF parse_list, Error
  <2>3. p.at = r.at /\ r.value = [kind |-> "list", items |-> p.value]
    BY <2>2 DEF Ok
  <2>4. q = Ok(p.value, p.at - a)
    BY <1>8, <2>2, <2>3 DEF Moved
  <2>5. parse_list(g, t, i) = Ok([kind |-> "list", items |-> p.value], p.at - a)
    BY <2>4 DEF parse_list, Ok
  <2>. QED
    BY <2>1, <2>3, <2>5
<1>10. CASE /\ ~HoldsDigit(s, i + a) /\ ~Holds(s, i + a, "i") /\ ~Holds(s, i + a, "l")
            /\ Holds(s, i + a, "d")
  <2>. DEFINE p == f[<<"pairs", i + a + 1>>]
              q == g[<<"pairs", i + 1>>]
              Dict(u, begin, at) == [kind |-> "dict", entries |-> p.value,
                                       raw |-> Raw(u, begin, at)]
  <2>1. r = parse_dict(f, s, i + a) /\ parse_value(g, t, i) = parse_dict(g, t, i)
    BY <1>4, <1>10 DEF parse_value
  <2>2. p.ok /\ r = Ok(Dict(s, i + a, p.at), p.at)
    BY <2>1 DEF parse_dict, Error
  <2>3. p.at = r.at /\ r.value = Dict(s, i + a, p.at)
    BY <2>2 DEF Ok
  <2>4. q = Ok(p.value, p.at - a)
    BY <1>8, <2>2, <2>3 DEF Moved
  <2>5. parse_dict(g, t, i) = Ok(Dict(t, i, p.at - a), p.at - a)
    BY <2>4 DEF parse_dict, Ok
  <2>6. Raw(t, i, p.at - a) = Raw(s, i + a, p.at)
    <3>. DEFINE n == p.at - a
    <3>1. n \in Int /\ i \in Int /\ 1 <= i /\ i <= n /\ n <= b - a + 1 /\ n + a = p.at
      <4>1. p.at \in (i + a + 1) .. (b + 1)
        BY <1>3, <2>3
      <4>. HIDE DEF p
      <4>. QED
        BY <1>1, <4>1
    <3>. HIDE DEF n
    <3>2. Raw(t, i, n) = Raw(s, i + a, n + a)
      BY <3>1, PartOfPart
    <3>. QED
      BY <3>1, <3>2 DEF n
  <2>7. Dict(t, i, p.at - a) = Dict(s, i + a, p.at)
    BY <2>6
  <2>. HIDE DEF Dict
  <2>. QED
    BY <2>1, <2>3, <2>5, <2>7
<1>11. CASE /\ ~HoldsDigit(s, i + a) /\ ~Holds(s, i + a, "i") /\ ~Holds(s, i + a, "l")
            /\ ~Holds(s, i + a, "d")
  BY <1>11 DEF parse_value, Error
<1>. QED
  BY <1>5, <1>6, <1>9, <1>10, <1>11

LEMMA RestMoved ==
  ASSUME NEW B, NEW s \in Seq(B), NEW t \in Seq(B), NEW a, NEW b, Part(t, s, a, b),
         NEW i \in 1 .. (b - a + 1), NEW f, NEW g,
         \A m \in (i + 1) .. (b - a + 1) : Moving(f, g, a, b, m),
         \A m \in Places(s) : Results(f, s, m),
         Moved(f[<<"value", i + a>>], g[<<"value", i>>], a, b)
  PROVE  /\ Moved(Items(f, s, i + a), Items(g, t, i), a, b)
         /\ Moved(Pairs(f, s, i + a), Pairs(g, t, i), a, b)
<1>1. /\ Len(s) \in Nat /\ a \in 0 .. Len(s) /\ b \in a .. Len(s) /\ Len(t) = b - a
      /\ i + a \in 1 .. (Len(s) + 1) /\ Places(s) = 1 .. (Len(s) + 1)
  BY DEF Part, Places
<1>2. ASSUME NEW m \in 1 .. (Len(s) + 1)
      PROVE  /\ Result(f[<<"value", m>>], m + 1, s) /\ Result(f[<<"items", m>>], m + 1, s)
             /\ Result(f[<<"pairs", m>>], m + 1, s)
  <2>1. Results(f, s, m)
    BY <1>1
  <2>. QED
    BY <2>1 DEF Results
<1>3. ASSUME NEW m \in (i + a + 1) .. (b + 1)
      PROVE  /\ m - a \in (i + 1) .. (b - a + 1)
             /\ Moved(f[<<"value", m>>], g[<<"value", m - a>>], a, b)
             /\ Moved(f[<<"items", m>>], g[<<"items", m - a>>], a, b)
             /\ Moved(f[<<"pairs", m>>], g[<<"pairs", m - a>>], a, b)
  <2>1. m - a \in (i + 1) .. (b - a + 1) /\ (m - a) + a = m
    BY <1>1
  <2>2. Moving(f, g, a, b, m - a)
    BY <2>1
  <2>. QED
    BY <2>1, <2>2 DEF Moving
<1>4. ASSUME i + a <= b
      PROVE  Holds(t, i, "e") <=> Holds(s, i + a, "e")
  <2>1. i \in 1 .. (b - a)
    BY <1>1, <1>4
  <2>. QED
    BY <2>1, PartHolds
<1>5. (i + a + 1) - a = i + 1
  BY <1>1
<1>6. Moved(Items(f, s, i + a), Items(g, t, i), a, b)
  <2>. DEFINE v == f[<<"value", i + a>>]
              w == g[<<"value", i>>]
              p == f[<<"items", v.at>>]
              q == g[<<"items", w.at>>]
              r == Items(f, s, i + a)
  <2>. SUFFICES ASSUME r.ok, r.at <= b + 1 PROVE Items(g, t, i) = Ok(r.value, r.at - a)
    BY DEF Moved
  <2>1. r = IF Holds(s, i + a, "e") THEN Ok(<<>>, i + a + 1)
            ELSE IF v.ok THEN Before(v.value, p) ELSE Error
    BY DEF Items
  <2>2. Items(g, t, i) = IF Holds(t, i, "e") THEN Ok(<<>>, i + 1)
                         ELSE IF w.ok THEN Before(w.value, q) ELSE Error
    BY DEF Items
  <2>3. CASE Holds(s, i + a, "e")
    <3>1. r.at = i + a + 1 /\ r.value = <<>>
      BY <2>1, <2>3 DEF Ok
    <3>2. i + a <= b
      <4>. HIDE DEF r
      <4>. QED
        BY <1>1, <3>1
    <3>. QED
      BY <1>4, <1>5, <2>2, <2>3, <3>1, <3>2
  <2>4. CASE ~Holds(s, i + a, "e")
    <3>1. v.ok /\ p.ok /\ r.at = p.at /\ r.value = <<v.value>> \o p.value
      <4>. HIDE DEF v, p, r
      <4>. QED
        BY <2>1, <2>4 DEF Before, Ok, Error
    <3>2. v.at \in (i + a + 1) .. (Len(s) + 1)
      <4>1. Result(v, i + a + 1, s)
        BY <1>1, <1>2
      <4>. HIDE DEF v
      <4>. QED
        BY <3>1, <4>1 DEF Result
    <3>3. p.at \in (v.at + 1) .. (Len(s) + 1)
      <4>1. v.at \in 1 .. (Len(s) + 1)
        <5>. HIDE DEF v
        <5>. QED
          BY <1>1, <3>2
      <4>2. Result(p, v.at + 1, s)
        BY <1>2, <4>1
      <4>. HIDE DEF v, p
      <4>. QED
        BY <3>1, <4>2 DEF Result
    <3>4. v.at \in (i + a + 1) .. (b + 1) /\ i + a <= b /\ p.at <= b + 1
      <4>. HIDE DEF v, p, r
      <4>. QED
        BY <1>1, <3>1, <3>2, <3>3, SMTT(30)
    <3>5. w = Ok(v.value, v.at - a)
      BY <3>1, <3>4 DEF Moved
    <3>6. w.ok /\ w.value = v.value /\ w.at = v.at - a
      <4>. HIDE DEF v, w
      <4>. QED
        BY <3>5 DEF Ok
    <3>7. Moved(p, q, a, b)
      BY <1>3, <3>4, <3>6
    <3>8. q = Ok(p.value, p.at - a)
      <4>. HIDE DEF p, q
      <4>. QED
        BY <3>1, <3>4, <3>7 DEF Moved
    <3>9. Before(w.value, q) = Ok(<<v.value>> \o p.value, p.at - a)
      <4>. HIDE DEF p, q, v, w
      <4>. QED
        BY <3>6, <3>8 DEF Before, Ok
    <3>. HIDE DEF p, q, v, w, r
    <3>. QED
      BY <1>4, <2>2, <2>4, <3>1, <3>4, <3>6, <3>9
  <2>. QED
    BY <2>3, <2>4
<1>7. Moved(Pairs(f, s, i + a), Pairs(g, t, i), a, b)
  <2>. DEFINE k == parse_bytes(s, i + a)
              l == parse_bytes(t, i)
              v == f[<<"value", k.at>>]
              w == g[<<"value", l.at>>]
              p == f[<<"pairs", v.at>>]
              q == g[<<"pairs", w.at>>]
              r == Pairs(f, s, i + a)
              Longer(rest) == [x \in DOMAIN rest \cup {k.value.bytes} |->
                                 IF x \in DOMAIN rest THEN rest[x] ELSE v.value]
  <2>. SUFFICES ASSUME r.ok, r.at <= b + 1 PROVE Pairs(g, t, i) = Ok(r.value, r.at - a)
    BY DEF Moved
  <2>1. r = IF Holds(s, i + a, "e") THEN Ok(<<>>, i + a + 1)
            ELSE IF ~k.ok THEN Error
            ELSE IF v.ok THEN Under(k.value.bytes, v.value, p) ELSE Error
    BY DEF Pairs
  <2>2. Pairs(g, t, i) = IF Holds(t, i, "e") THEN Ok(<<>>, i + 1)
                         ELSE IF ~l.ok THEN Error
                         ELSE IF w.ok THEN Under(l.value.bytes, w.value, q) ELSE Error
    BY DEF Pairs
  <2>3. CASE Holds(s, i + a, "e")
    <3>1. r.at = i + a + 1 /\ r.value = <<>>
      BY <2>1, <2>3 DEF Ok
    <3>2. i + a <= b
      <4>. HIDE DEF r
      <4>. QED
        BY <1>1, <3>1
    <3>. QED
      BY <1>4, <1>5, <2>2, <2>3, <3>1, <3>2
  <2>4. CASE ~Holds(s, i + a, "e")
    <3>1. k.ok /\ v.ok /\ p.ok /\ r.at = p.at /\ r.value = Longer(p.value)
      <4>. HIDE DEF k, v, p, r
      <4>. QED
        BY <2>1, <2>4 DEF Under, Ok, Error
    <3>2. k.at \in (i + a + 1) .. (Len(s) + 1)
      <4>1. Result(k, i + a + 1, s)
        BY <1>1, BytesResult
      <4>. HIDE DEF k
      <4>. QED
        BY <3>1, <4>1 DEF Result
    <3>3. v.at \in (k.at + 1) .. (Len(s) + 1)
      <4>1. k.at \in 1 .. (Len(s) + 1)
        <5>. HIDE DEF k
        <5>. QED
          BY <1>1, <3>2
      <4>2. Result(v, k.at + 1, s)
        BY <1>2, <4>1
      <4>. HIDE DEF k, v
      <4>. QED
        BY <3>1, <4>2 DEF Result
    <3>4. p.at \in (v.at + 1) .. (Len(s) + 1)
      <4>1. v.at \in 1 .. (Len(s) + 1)
        <5>. HIDE DEF k, v
        <5>. QED
          BY <1>1, <3>2, <3>3
      <4>2. Result(p, v.at + 1, s)
        BY <1>2, <4>1
      <4>. HIDE DEF v, p
      <4>. QED
        BY <3>1, <4>2 DEF Result
    <3>5. /\ k.at \in (i + a + 1) .. (b + 1) /\ v.at \in (i + a + 1) .. (b + 1)
          /\ i + a <= b /\ p.at <= b + 1 /\ k.at <= b + 1 /\ v.at <= b + 1
      <4>. HIDE DEF k, v, p, r
      <4>. QED
        BY <1>1, <3>1, <3>2, <3>3, <3>4, SMTT(30)
    <3>6. l = Ok(k.value, k.at - a)
      <4>1. Moved(k, l, a, b)
        BY BytesMoved
      <4>. HIDE DEF k, l
      <4>. QED
        BY <3>1, <3>5, <4>1 DEF Moved
    <3>7. l.ok /\ l.value = k.value /\ l.at = k.at - a
      <4>. HIDE DEF k, l
      <4>. QED
        BY <3>6 DEF Ok
    <3>8. w = Ok(v.value, v.at - a)
      <4>1. Moved(v, w, a, b)
        BY <1>3, <3>5, <3>7
      <4>. HIDE DEF v, w
      <4>. QED
        BY <3>1, <3>5, <4>1 DEF Moved
    <3>9. w.ok /\ w.value = v.value /\ w.at = v.at - a
      <4>. HIDE DEF v, w
      <4>. QED
        BY <3>8 DEF Ok
    <3>10. q = Ok(p.value, p.at - a)
      <4>1. Moved(p, q, a, b)
        BY <1>3, <3>5, <3>9
      <4>. HIDE DEF p, q
      <4>. QED
        BY <3>1, <3>5, <4>1 DEF Moved
    <3>11. Under(l.value.bytes, w.value, q) = Ok(Longer(p.value), p.at - a)
      <4>. HIDE DEF k, l, p, q, v, w
      <4>. QED
        BY <3>7, <3>9, <3>10 DEF Under, Ok
    <3>. HIDE DEF k, l, p, q, v, w, r, Longer
    <3>. QED
      BY <1>4, <2>2, <2>4, <3>1, <3>5, <3>7, <3>9, <3>11
  <2>. QED
    BY <2>3, <2>4
<1>. QED
  BY <1>6, <1>7

\* Whatever the parser reads inside a part of a source, it reads on the part alone.
LEMMA ParserMoved ==
  ASSUME NEW B, NEW s \in Seq(B), NEW t \in Seq(B), NEW a, NEW b, Part(t, s, a, b)
  PROVE  \A i \in Places(t) : Moving(Parser(s), Parser(t), a, b, i)
<1>. DEFINE N == b - a + 1
            f == Parser(s)
            g == Parser(t)
            S == {i \in 1 .. N : Moving(f, g, a, b, i)}
<1>1. /\ Len(s) \in Nat /\ a \in 0 .. Len(s) /\ b \in a .. Len(s)
      /\ N \in Nat /\ Places(t) = 1 .. N /\ b - a + 1 = N /\ Places(s) = 1 .. (Len(s) + 1)
  BY DEF Part, Places
<1>2. /\ \A m \in Places(s) : Steps(f, s, m) /\ Results(f, s, m)
      /\ \A m \in Places(t) : Steps(g, t, m)
  BY ParserIs
<1>. HIDE DEF f, g, N
<1>3. ASSUME NEW i \in 1 .. N, \A m \in (i + 1) .. N : m \in S PROVE i \in S
  <2>1. i \in 1 .. (b - a + 1) /\ i + a \in Places(s) /\ i \in Places(t)
    BY <1>1
  <2>2. \A m \in (i + 1) .. (b - a + 1) : Moving(f, g, a, b, m)
    BY <1>1, <1>3
  <2>3. \A m \in Places(s) : Results(f, s, m)
    BY <1>2
  <2>4. Steps(f, s, i + a) /\ Steps(g, t, i)
    BY <1>2, <2>1
  <2>5. Moved(f[<<"value", i + a>>], g[<<"value", i>>], a, b)
    <3>1. Moved(parse_value(f, s, i + a), parse_value(g, t, i), a, b)
      BY <2>1, <2>2, <2>3, ValueMoved
    <3>. QED
      BY <2>4, <3>1 DEF Steps
  <2>6. /\ Moved(Items(f, s, i + a), Items(g, t, i), a, b)
        /\ Moved(Pairs(f, s, i + a), Pairs(g, t, i), a, b)
    BY <2>1, <2>2, <2>3, <2>5, RestMoved
  <2>7. Moving(f, g, a, b, i)
    BY <2>4, <2>5, <2>6 DEF Moving, Steps
  <2>. QED
    BY <2>7
<1>. HIDE DEF S
<1>4. \A i \in 1 .. N : i \in S
  BY <1>1, <1>3, Backward
<1>. QED
  BY <1>1, <1>4 DEF S, f, g

\* A dictionary the parser reads begins with d and keeps its own bytes.
LEMMA DictRead ==
  ASSUME NEW B, NEW s \in Seq(B), NEW i \in Places(s), NEW f,
         parse_value(f, s, i).ok, parse_value(f, s, i).value.kind = "dict"
  PROVE  parse_value(f, s, i).value.raw = Raw(s, i, parse_value(f, s, i).at)
<1>. DEFINE r == parse_value(f, s, i)
<1>1. CASE HoldsDigit(s, i)
  <2>1. r = parse_bytes(s, i)
    BY <1>1 DEF parse_value
  <2>2. r.value.kind = "bytes"
    BY <2>1 DEF parse_bytes, Ok, Error
  <2>. QED
    BY <2>2
<1>2. CASE ~HoldsDigit(s, i) /\ Holds(s, i, "i")
  <2>1. r = parse_integer(s, i)
    BY <1>2 DEF parse_value
  <2>. DEFINE sign == IF Holds(s, i + 1, "+") \/ Holds(s, i + 1, "-") THEN s[i + 1] ELSE ""
              first == IF sign = "" THEN i + 1 ELSE i + 2
              after == AfterDigits(s, first)
              digits == SubSeq(s, first, after - 1)
              m == IF sign = "-" THEN -Number(digits) ELSE Number(digits)
              Reading == /\ first < after /\ Holds(s, after, "e") /\ Canonical(sign, digits)
                         /\ InRange(sign, Number(digits))
              at == after + 1
  <2>2. r = IF Reading THEN Ok([kind |-> "integer", n |-> m], at) ELSE Error
    BY <2>1 DEF parse_integer
  <2>. HIDE DEF m, Reading, at
  <2>3. r.value.kind = "integer"
    BY <2>2 DEF Ok, Error
  <2>. QED
    BY <2>3
<1>3. CASE ~HoldsDigit(s, i) /\ ~Holds(s, i, "i") /\ Holds(s, i, "l")
  <2>1. r = parse_list(f, s, i)
    BY <1>3 DEF parse_value
  <2>2. r.value.kind = "list"
    BY <2>1 DEF parse_list, Ok, Error
  <2>. QED
    BY <2>2
<1>4. CASE ~HoldsDigit(s, i) /\ ~Holds(s, i, "i") /\ ~Holds(s, i, "l") /\ Holds(s, i, "d")
  <2>1. r = parse_dict(f, s, i)
    BY <1>4 DEF parse_value
  <2>2. r.value.raw = Raw(s, i, r.at)
    BY <2>1 DEF parse_dict, Ok, Error
  <2>. QED
    BY <2>2
<1>5. CASE ~HoldsDigit(s, i) /\ ~Holds(s, i, "i") /\ ~Holds(s, i, "l") /\ ~Holds(s, i, "d")
  BY <1>5 DEF parse_value, Error
<1>. QED
  BY <1>1, <1>2, <1>3, <1>4, <1>5

\* A source that is one value parses to it.
LEMMA ParsesAlone ==
  ASSUME NEW B, NEW t \in Seq(B), NEW v, Parser(t)[<<"value", 1>>] = Ok(v, Len(t) + 1)
  PROVE  parse(t) = Ok(<<v>>, Len(t) + 1)
<1>. DEFINE f == Parser(t)
            N == Len(t) + 1
<1>1. N \in Nat /\ 1 \in Places(t) /\ N \in Places(t) /\ Len(t) + 1 = N
  BY DEF Places
<1>2. Steps(f, t, 1) /\ Steps(f, t, N) /\ Results(f, t, N)
  BY <1>1, ParserIs
<1>3. f[<<"value", 1>>] = Ok(v, N)
  OBVIOUS
<1>. HIDE DEF f, N
<1>4. ~f[<<"value", N>>].ok
  <2>. DEFINE r == f[<<"value", N>>]
  <2>1. Result(r, N + 1, t)
    BY <1>2 DEF Results
  <2>. HIDE DEF r
  <2>2. ~r.ok
    BY <1>1, <2>1 DEF Result
  <2>. QED
    BY <2>2 DEF r
<1>5. f[<<"values", N>>] = Ok(<<>>, N)
  BY <1>1, <1>2, <1>4 DEF Steps, Values
<1>6. f[<<"values", 1>>] = Before(v, Ok(<<>>, N))
  <2>1. f[<<"values", 1>>] = Values(f, t, 1)
    BY <1>2 DEF Steps
  <2>2. f[<<"value", 1>>].ok /\ f[<<"value", 1>>].value = v /\ f[<<"value", 1>>].at = N
    BY <1>3 DEF Ok
  <2>. QED
    BY <1>5, <2>1, <2>2 DEF Values
<1>7. <<v>> \o <<>> = <<v>>
  OBVIOUS
<1>8. Before(v, Ok(<<>>, N)) = Ok(<<v>>, N)
  BY <1>7 DEF Before, Ok
<1>. QED
  BY <1>6, <1>8 DEF parse, f, N

\* The bytes by which a dictionary is hashed are its own, at any depth of sources of any
\* bytes and length (parser.rs:122-124), and the scanner finds where a dictionary ends
\* whatever follows it (src/peer/metadata.rs:409, 426).
THEOREM DictionariesExactHolds ==
  ASSUME NEW Byte, source \in Seq(Byte), MaxLength \in Nat, Len(source) <= MaxLength
  PROVE  DictionariesExact
<1>. DEFINE s == source
            f == Parser(s)
<1>1. ASSUME NEW i \in 1 .. Len(s), f[<<"value", i>>].ok, f[<<"value", i>>].value.kind = "dict"
      PROVE  parse(f[<<"value", i>>].value.raw)
               = Ok(<<f[<<"value", i>>].value>>, Len(f[<<"value", i>>].value.raw) + 1)
  <2>. DEFINE d == f[<<"value", i>>]
              t == Raw(s, i, d.at)
              a == i - 1
              b == d.at - 1
  <2>1. i \in Places(s) /\ Len(s) \in Nat /\ s \in Seq(Byte)
    BY DEF Places
  <2>2. Steps(f, s, i) /\ Results(f, s, i)
    BY <2>1, ParserIs
  <2>. HIDE DEF f, s
  <2>3. d.at \in (i + 1) .. (Len(s) + 1)
    <3>1. Result(d, i + 1, s)
      BY <2>2 DEF Results
    <3>. QED
      BY <1>1, <3>1 DEF Result
  <2>4. d.value.raw = t
    <3>1. d = parse_value(f, s, i)
      BY <2>2 DEF Steps
    <3>2. d.ok /\ d.value.kind = "dict"
      BY <1>1
    <3>. HIDE DEF d, t
    <3>3. parse_value(f, s, i).ok /\ parse_value(f, s, i).value.kind = "dict"
      BY <3>1, <3>2
    <3>4. parse_value(f, s, i).value.raw = Raw(s, i, parse_value(f, s, i).at)
      BY <2>1, <3>3, DictRead
    <3>. QED
      BY <3>1, <3>4 DEF t
  <2>5. t \in Seq(Byte) /\ Len(t) = d.at - i /\ \A k \in 1 .. (d.at - i) : t[k] = s[i + k - 1]
    <3>. DEFINE y == d.at - 1
    <3>1. y \in i .. Len(s) /\ y - i + 1 = d.at - i
      <4>. HIDE DEF d
      <4>. QED
        BY <2>1, <2>3
    <3>2. t = SubSeq(s, i, y)
      BY DEF Raw
    <3>. HIDE DEF y, t
    <3>3. t \in Seq(Byte) /\ Len(t) = y - i + 1 /\ \A k \in 1 .. (y - i + 1) : t[k] = s[i + k - 1]
      BY <2>1, <3>1, <3>2
    <3>. QED
      BY <3>1, <3>3
  <2>. HIDE DEF d, t
  <2>6. Part(t, s, a, b) /\ 1 + a = i /\ d.at - a = Len(t) + 1 /\ b + 1 = d.at
    <3>1. /\ a \in 0 .. Len(s) /\ b \in a .. Len(s) /\ b - a = d.at - i /\ 1 + a = i
          /\ d.at - a = (d.at - i) + 1 /\ b + 1 = d.at
      BY <2>1, <2>3
    <3>2. ASSUME NEW k \in 1 .. (b - a) PROVE t[k] = s[k + a]
      <4>1. i + k - 1 = k + a /\ k \in 1 .. (d.at - i)
        BY <2>1, <3>1
      <4>. QED
        BY <2>5, <4>1
    <3>. HIDE DEF a, b
    <3>. QED
      BY <2>5, <3>1, <3>2 DEF Part
  <2>. HIDE DEF a, b
  <2>7. Parser(t)[<<"value", 1>>] = Ok(d.value, Len(t) + 1)
    <3>1. Moving(Parser(s), Parser(t), a, b, 1)
      <4>1. 1 \in Places(t)
        BY <2>5 DEF Places
      <4>. QED
        BY <2>1, <2>5, <2>6, <4>1, ParserMoved
    <3>2. Moved(d, Parser(t)[<<"value", 1>>], a, b)
      BY <2>6, <3>1 DEF Moving, d, f
    <3>3. d.ok /\ d.at <= b + 1
      <4>1. d.ok
        BY <1>1 DEF d
      <4>2. d.at <= d.at
        BY <2>1, <2>3
      <4>. QED
        BY <2>6, <4>1, <4>2
    <3>. QED
      BY <2>6, <3>2, <3>3 DEF Moved
  <2>8. parse(t) = Ok(<<d.value>>, Len(t) + 1)
    BY <2>5, <2>7, ParsesAlone
  <2>. QED
    BY <2>4, <2>8 DEF d
<1>2. ASSUME NEW j \in 2 .. (Len(s) + 1), Grammar(s)[<<"value", 1, j>>]
      PROVE  find_bencode_end(s) = j - 1
  BY <1>2, EndFound
<1>. QED
  BY <1>1, <1>2 DEF DictionariesExact

=============================================================================

------------------------------ MODULE KeepTheorems -----------------------------
(***************************************************************************)
(* Induction on natural numbers for sets (the library's theorem is about   *)
(* an operator), and what it says of Keep.                                 *)
(***************************************************************************)
EXTENDS Keep, WellFoundedInduction, TLAPS

\* A set of natural numbers that is not empty has a least element.
LEMMA LeastElement ==
  ASSUME NEW S, S \subseteq Nat, S # {}
  PROVE  \E n \in S : \A m \in S : n <= m
<1> DEFINE R == OpToRel(<, Nat)
<1>1. PICK n \in S : \A m \in S : ~(<<m, n>> \in R)
  <2> HIDE DEF R
  <2>1. IsWellFoundedOn(R, Nat)
    BY NatLessThanWellFounded DEF R
  <2> QED BY <2>1, WFMin
<1>2. ASSUME NEW x \in Nat, NEW y \in Nat, y < x PROVE <<y, x>> \in R
  BY <1>2 DEF OpToRel
<1> HIDE DEF R
<1>3. ASSUME NEW m \in S PROVE n <= m
  <2>1. n \in Nat /\ m \in Nat
    OBVIOUS
  <2>2. ~(m < n)
    BY <1>1, <1>2, <2>1
  <2> QED BY <2>1, <2>2
<1> QED BY <1>3

\* A set that has 0, and with every number the next one, has all of them.
LEMMA Induction ==
  ASSUME NEW S, 0 \in S, \A n \in Nat : n \in S => n + 1 \in S
  PROVE  Nat \subseteq S
<1> SUFFICES ASSUME Nat \ S # {} PROVE FALSE
  OBVIOUS
<1>1. PICK n \in Nat \ S : \A m \in Nat \ S : n <= m
  BY LeastElement
<1>2. n # 0 /\ n - 1 \in Nat /\ n - 1 \in S
  BY <1>1
<1> QED BY <1>1, <1>2

\* The same up to a bound.
LEMMA InductionUpTo ==
  ASSUME NEW n \in Nat, NEW S, 0 \in S, \A m \in 1 .. n : m - 1 \in S => m \in S
  PROVE  0 .. n \subseteq S
<1> DEFINE T == {m \in Nat : m <= n => m \in S}
<1>1. 0 \in T /\ \A m \in Nat : m \in T => m + 1 \in T
  OBVIOUS
<1>2. Nat \subseteq T
  <2> HIDE DEF T
  <2> QED BY <1>1, Induction
<1> QED BY <1>2

-----------------------------------------------------------------------------
\* One step of the recursion, and what the recursion asks of its function.
KeepStep(f, s, K, i) == IF i = 0 THEN <<>> ELSE IF i \in K THEN Append(f[i - 1], s[i]) ELSE f[i - 1]
IsKeep(f, s, K, n) == f = [i \in 0 .. n |-> KeepStep(f, s, K, i)]

\* The recursion defines a function.
LEMMA KeepExists ==
  ASSUME NEW s, NEW K, NEW n \in Nat
  PROVE  \E f : IsKeep(f, s, K, n)
<1> DEFINE S == {m \in Nat : \E f : IsKeep(f, s, K, m)}
<1>1. 0 \in S
  <2> DEFINE f == [i \in 0 .. 0 |-> <<>>]
  <2>1. IsKeep(f, s, K, 0)
    BY DEF IsKeep, KeepStep
  <2> HIDE DEF f
  <2> QED BY <2>1
<1>2. ASSUME NEW m \in Nat, m \in S PROVE m + 1 \in S
  <2>1. PICK f : IsKeep(f, s, K, m)
    BY <1>2
  <2> DEFINE g == [i \in 0 .. m + 1 |-> IF i <= m THEN f[i] ELSE KeepStep(f, s, K, i)]
  <2>2. \A i \in 0 .. m + 1 : i # 0 => i - 1 \in 0 .. m /\ g[i - 1] = f[i - 1]
    OBVIOUS
  <2>3. \A i \in 0 .. m + 1 : KeepStep(g, s, K, i) = KeepStep(f, s, K, i)
    BY <2>2 DEF KeepStep
  <2>4. \A i \in 0 .. m : f[i] = KeepStep(f, s, K, i)
    BY <2>1 DEF IsKeep
  <2>5. IsKeep(g, s, K, m + 1)
    BY <2>3, <2>4 DEF IsKeep
  <2> HIDE DEF g
  <2> QED BY <2>5
<1> HIDE DEF S
<1>3. n \in S
  BY <1>1, <1>2, Induction
<1> QED BY <1>3 DEF S

\* What is kept of each initial part of s.
LEMMA KeepParts ==
  ASSUME NEW s, Len(s) \in Nat, NEW K
  PROVE  \E f : /\ f[0] = <<>> /\ f[Len(s)] = Keep(s, K)
                /\ \A i \in 1 .. Len(s) : f[i] = IF i \in K THEN Append(f[i - 1], s[i]) ELSE f[i - 1]
<1> DEFINE f == CHOOSE f : IsKeep(f, s, K, Len(s))
<1>1. IsKeep(f, s, K, Len(s))
  <2>1. \E g : IsKeep(g, s, K, Len(s))
    BY KeepExists
  <2> QED BY <2>1
<1>2. Keep(s, K) = f[Len(s)]
  BY DEF Keep, IsKeep, KeepStep
<1> HIDE DEF f
<1>3. \A i \in 0 .. Len(s) : f[i] = KeepStep(f, s, K, i)
  BY <1>1 DEF IsKeep
<1>4. f[0] = <<>>
  BY <1>3 DEF KeepStep
<1>5. \A i \in 1 .. Len(s) : f[i] = IF i \in K THEN Append(f[i - 1], s[i]) ELSE f[i - 1]
  BY <1>3 DEF KeepStep
<1> QED BY <1>2, <1>4, <1>5, Zenon

\* What is kept is a sequence of the same elements, and no longer.
LEMMA KeepType ==
  ASSUME NEW T, NEW s \in Seq(T), NEW K
  PROVE  Keep(s, K) \in Seq(T) /\ Len(Keep(s, K)) <= Len(s)
<1>n. Len(s) \in Nat /\ \A i \in 1 .. Len(s) : s[i] \in T
  OBVIOUS
<1>1. PICK f : /\ f[0] = <<>> /\ f[Len(s)] = Keep(s, K)
               /\ \A i \in 1 .. Len(s) : f[i] = IF i \in K THEN Append(f[i - 1], s[i]) ELSE f[i - 1]
  BY KeepParts, <1>n
<1> DEFINE P(i) == f[i] \in Seq(T) /\ Len(f[i]) <= i
           S == {i \in 0 .. Len(s) : P(i)}
<1>2. P(0)
  BY <1>1
<1>3. ASSUME NEW i \in 1 .. Len(s), P(i - 1) PROVE P(i)
  <2>1. CASE i \in K
    <3>1. f[i] = Append(f[i - 1], s[i]) /\ s[i] \in T
      BY <1>1, <1>n, <2>1
    <3>2. f[i] \in Seq(T) /\ Len(f[i]) = Len(f[i - 1]) + 1
      BY <1>3, <3>1
    <3>3. Len(f[i - 1]) \in Nat /\ i \in Nat
      BY <1>3, <1>n
    <3> QED BY <1>3, <3>2, <3>3
  <2>2. CASE i \notin K
    <3>1. f[i] = f[i - 1]
      BY <1>1, <2>2
    <3>2. Len(f[i - 1]) \in Nat /\ i \in Nat
      BY <1>3, <1>n
    <3> QED BY <1>3, <3>1, <3>2
  <2> QED BY <2>1, <2>2
<1> HIDE DEF P
<1>4. 0 \in S /\ \A i \in 1 .. Len(s) : i - 1 \in S => i \in S
  BY <1>2, <1>3, <1>n
<1> HIDE DEF S
<1>5. 0 .. Len(s) \subseteq S
  BY <1>4, <1>n, InductionUpTo
<1>6. P(Len(s))
  BY <1>5, <1>n DEF S
<1> QED BY <1>1, <1>6 DEF P

\* What is kept from a position on is the rest of s.
LEMMA KeepRest ==
  ASSUME NEW T, NEW s \in Seq(T), NEW m \in 0 .. Len(s)
  PROVE  /\ Len(Keep(s, m + 1 .. Len(s))) = Len(s) - m
         /\ \A j \in 1 .. Len(s) - m : Keep(s, m + 1 .. Len(s))[j] = s[m + j]
<1>n. Len(s) \in Nat /\ m \in Nat /\ m <= Len(s) /\ \A i \in 1 .. Len(s) : s[i] \in T
  OBVIOUS
<1> DEFINE K == m + 1 .. Len(s)
<1> HIDE DEF K
<1>1. PICK f : /\ f[0] = <<>> /\ f[Len(s)] = Keep(s, K)
               /\ \A i \in 1 .. Len(s) : f[i] = IF i \in K THEN Append(f[i - 1], s[i]) ELSE f[i - 1]
  BY KeepParts, <1>n
<1> DEFINE P(i) == /\ f[i] \in Seq(T)
                   /\ i <= m => f[i] = <<>>
                   /\ i >= m => /\ Len(f[i]) = i - m
                                /\ \A j \in 1 .. i - m : f[i][j] = s[m + j]
           S == {i \in 0 .. Len(s) : P(i)}
<1>2. P(0)
  <2>1. f[0] = <<>> /\ <<>> \in Seq(T)
    BY <1>1
  <2>2. 0 >= m => m = 0
    BY <1>n
  <2> QED BY <2>1, <2>2
<1>3. ASSUME NEW i \in 1 .. Len(s), P(i - 1) PROVE P(i)
  <2>n. i \in Nat /\ i # 0 /\ i <= Len(s) /\ s[i] \in T
    BY <1>n
  <2>1. CASE i <= m
    <3>1. i \notin K /\ i - 1 <= m
      BY <1>n, <2>n, <2>1 DEF K
    <3>2. f[i] = <<>>
      BY <1>1, <1>3, <3>1
    <3>3. i >= m => i - m = 0
      BY <1>n, <2>n, <2>1
    <3> QED BY <3>2, <3>3
  <2>2. CASE i > m
    <3>1. i \in K /\ i - 1 >= m
      BY <1>n, <2>n, <2>2 DEF K
    <3>2. /\ f[i] = Append(f[i - 1], s[i]) /\ f[i - 1] \in Seq(T) /\ Len(f[i - 1]) = (i - 1) - m
          /\ \A j \in 1 .. (i - 1) - m : f[i - 1][j] = s[m + j]
      BY <1>1, <1>3, <3>1
    <3>3. f[i] \in Seq(T) /\ Len(f[i]) = i - m
      BY <1>n, <2>n, <3>2
    <3>4. ASSUME NEW j \in 1 .. i - m PROVE f[i][j] = s[m + j]
      <4>1. CASE j = i - m
        <5>1. f[i][Len(f[i - 1]) + 1] = s[i]
          BY <2>n, <3>2
        <5>2. Len(f[i - 1]) + 1 = j /\ m + j = i
          BY <1>n, <2>n, <3>2, <4>1
        <5> QED BY <5>1, <5>2
      <4>2. CASE j # i - m
        <5>1. j \in 1 .. (i - 1) - m /\ j \in 1 .. Len(f[i - 1])
          BY <1>n, <2>n, <3>2, <4>2
        <5>2. f[i][j] = f[i - 1][j]
          BY <2>n, <3>2, <5>1
        <5> QED BY <3>2, <5>1, <5>2
      <4> QED BY <4>1, <4>2
    <3>5. ~(i <= m)
      BY <1>n, <2>n, <2>2
    <3> QED BY <3>3, <3>4, <3>5
  <2> QED BY <1>n, <2>n, <2>1, <2>2
<1> HIDE DEF P
<1>4. 0 \in S /\ \A i \in 1 .. Len(s) : i - 1 \in S => i \in S
  BY <1>2, <1>3, <1>n
<1> HIDE DEF S
<1>5. 0 .. Len(s) \subseteq S
  BY <1>4, <1>n, InductionUpTo
<1>6. P(Len(s))
  BY <1>5, <1>n DEF S
<1>7. Len(s) >= m
  BY <1>n
<1>8. Len(Keep(s, K)) = Len(s) - m /\ \A j \in 1 .. Len(s) - m : Keep(s, K)[j] = s[m + j]
  BY <1>1, <1>6, <1>7 DEF P
<1> QED BY <1>8 DEF K
=============================================================================

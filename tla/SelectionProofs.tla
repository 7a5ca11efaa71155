--------------------------- MODULE SelectionProofs ---------------------------
(* What Filter selects: an increasing map leads from the places of what is    *)
(* kept to those of the sequence, and misses none that is in the set.         *)
EXTENDS Selections, WellFoundedInduction, TLAPS

(* Induction on the numbers, for a set of them.                               *)
LEMMA Induction ==
  ASSUME NEW P, 0 \in P, \A n \in Nat : n \in P => n + 1 \in P
  PROVE  Nat \subseteq P
<1> DEFINE Q == {n \in Nat : n \notin P}
<1> SUFFICES ASSUME Q # {} PROVE FALSE
  OBVIOUS
<1>1. PICK n \in Q : \A k \in Q : <<k, n>> \notin OpToRel(<, Nat)
  BY NatLessThanWellFounded, WFMin
<1>2. n \in Nat /\ n # 0 /\ n - 1 \in Nat /\ n - 1 < n
  OBVIOUS
<1>3. <<n - 1, n>> \in OpToRel(<, Nat)
  BY <1>2 DEF OpToRel
<1>4. n - 1 \in P
  BY <1>1, <1>2, <1>3
<1>5. (n - 1) + 1 \in P
  BY <1>2, <1>4
<1> QED BY <1>2, <1>5

(* What is kept of the first n elements of s.                                *)
Keeps(g, s, T, n) ==
  g[n] = IF n = 0 THEN <<>> ELSE IF s[n] \in T THEN Append(g[n - 1], s[n]) ELSE g[n - 1]

(* The function by which Filter is defined.                                 *)
LEMMA FilterStep ==
  ASSUME NEW S, NEW s \in Seq(S), NEW T
  PROVE  \E g : /\ g = [n \in 0..Len(s) |-> g[n]]
                /\ \A n \in 0..Len(s) : Keeps(g, s, T, n)
                /\ Filter(s, T) = g[Len(s)]
<1> DEFINE
     step(g, n) == IF n = 0 THEN <<>> ELSE IF s[n] \in T THEN Append(g[n - 1], s[n]) ELSE g[n - 1]
     Up(k) == \E g : g = [n \in 0..k |-> step(g, n)]
     P == {k \in Nat : Up(k)}
<1>1. Up(0)
  <2> DEFINE g == [n \in 0..0 |-> <<>>]
  <2>1. g = [n \in 0..0 |-> step(g, n)]
    OBVIOUS
  <2> QED BY <2>1
<1>2. ASSUME NEW k \in Nat, Up(k) PROVE Up(k + 1)
  <2>1. PICK g : g = [n \in 0..k |-> step(g, n)]
    BY <1>2
  <2> DEFINE v == step(g, k + 1)
             h == [n \in 0..(k + 1) |-> IF n = k + 1 THEN v ELSE g[n]]
  <2>2. ASSUME NEW n \in 0..(k + 1) PROVE h[n] = step(h, n)
    <3>1. CASE n = k + 1
      <4>1. k \in 0..(k+1) /\ k # k + 1 /\ (k + 1) - 1 = k
        OBVIOUS
      <4>2. h[k] = g[k]
        BY <4>1
      <4>3. step(h, k + 1) = step(g, k + 1)
        BY <4>1, <4>2
      <4> QED BY <3>1, <4>3
    <3>2. CASE n # k + 1
      <4>1. n \in 0..k /\ (n # 0 => n - 1 \in 0..(k + 1) /\ n - 1 # k + 1)
        BY <3>2
      <4>2. h[n] = g[n] /\ (n # 0 => h[n - 1] = g[n - 1])
        BY <3>2, <4>1
      <4>3. g[n] = step(g, n)
        BY <2>1, <4>1
      <4> QED BY <4>2, <4>3
    <3> QED BY <3>1, <3>2
  <2>3. h = [n \in 0..(k + 1) |-> h[n]]
    OBVIOUS
  <2> HIDE DEF h, step
  <2>4. h = [n \in 0..(k + 1) |-> step(h, n)]
    BY <2>2, <2>3
  <2> QED BY <2>4
<1>3. Up(Len(s))
  <2> HIDE DEF Up
  <2>1. 0 \in P /\ \A k \in Nat : k \in P => k + 1 \in P
    BY <1>1, <1>2
  <2>2. \A k \in P : Up(k)
    OBVIOUS
  <2> HIDE DEF P
  <2>3. Nat \subseteq P
    BY <2>1, Induction
  <2> QED BY <2>2, <2>3
<1> DEFINE F == CHOOSE g : g = [n \in 0..Len(s) |-> step(g, n)]
<1>4. F = [n \in 0..Len(s) |-> step(F, n)]
  BY <1>3
<1>5. Filter(s, T) = F[Len(s)]
  BY DEF Filter
<1> HIDE DEF F
<1>6. \A n \in 0..Len(s) : Keeps(F, s, T, n)
  BY <1>4 DEF Keeps
<1>7. F = [n \in 0..Len(s) |-> F[n]]
  BY <1>4
<1> QED BY <1>5, <1>6, <1>7

(* f leads from the places of a filtered sequence to those of s.             *)
Picks(f, a, s, T, n) ==
  /\ f \in [1..Len(a) -> 1..n]
  /\ \A i \in 1..Len(a) : a[i] = s[f[i]] /\ s[f[i]] \in T
  /\ \A i, j \in 1..Len(a) : i < j => f[i] < f[j]
  /\ \A k \in 1..n : s[k] \in T => \E i \in 1..Len(a) : f[i] = k

(* One element more.                                                        *)
LEMMA PicksMore ==
  ASSUME NEW S, NEW s \in Seq(S), NEW T, NEW n \in Nat, n + 1 \in 1..Len(s),
         NEW a \in Seq(S), NEW f, Picks(f, a, s, T, n)
  PROVE  IF s[n + 1] \in T THEN \E g : Picks(g, Append(a, s[n + 1]), s, T, n + 1)
         ELSE Picks(f, a, s, T, n + 1)
<1>1. CASE s[n + 1] \in T
  <2> DEFINE b == Append(a, s[n + 1])
             g == [i \in 1..Len(b) |-> IF i = Len(b) THEN n + 1 ELSE f[i]]
  <2>1. /\ b \in Seq(S) /\ Len(b) = Len(a) + 1 /\ b[Len(b)] = s[n + 1] /\ Len(a) \in Nat
        /\ \A i \in 1..Len(a) : b[i] = a[i]
    OBVIOUS
  <2> HIDE DEF b
  <2>2. \A i \in 1..Len(b) : i = Len(b) \/ (i \in 1..Len(a) /\ i < Len(b))
    BY <2>1
  <2>3. g[Len(b)] = n + 1 /\ \A i \in 1..Len(a) : g[i] = f[i] /\ f[i] \in 1..n
    BY <2>1 DEF Picks
  <2>4. g \in [1..Len(b) -> 1..(n + 1)]
    BY <2>2, <2>3
  <2>5. g = [i \in 1..Len(b) |-> g[i]]
    OBVIOUS
  <2> HIDE DEF g
  <2>6. \A i \in 1..Len(b) : b[i] = s[g[i]] /\ s[g[i]] \in T
    BY <1>1, <2>1, <2>2, <2>3 DEF Picks
  <2>7. \A i, j \in 1..Len(b) : i < j => g[i] < g[j]
    <3> TAKE i, j \in 1..Len(b)
    <3> HAVE i < j
    <3>1. i \in 1..Len(a)
      BY <2>1
    <3>2. CASE j = Len(b)
      BY <2>3, <3>1, <3>2
    <3>3. CASE j \in 1..Len(a)
      BY <2>3, <3>1, <3>3 DEF Picks
    <3> QED BY <2>2, <3>2, <3>3
  <2>8. \A k \in 1..(n + 1) : s[k] \in T => \E i \in 1..Len(b) : g[i] = k
    <3> TAKE k \in 1..(n + 1)
    <3> HAVE s[k] \in T
    <3>1. CASE k = n + 1
      <4>1. Len(b) \in 1..Len(b)
        BY <2>1
      <4> QED BY <2>3, <3>1, <4>1
    <3>2. CASE k \in 1..n
      <4>1. PICK i \in 1..Len(a) : f[i] = k
        BY <3>2 DEF Picks
      <4>2. i \in 1..Len(b) /\ g[i] = k
        BY <2>1, <2>3, <4>1
      <4> QED BY <4>2
    <3> QED BY <3>1, <3>2
  <2> QED BY <1>1, <2>4, <2>6, <2>7, <2>8 DEF Picks, b
<1>2. CASE s[n + 1] \notin T
  <2>1. \A k \in 1..(n + 1) : k = n + 1 \/ k \in 1..n
    OBVIOUS
  <2> QED BY <1>2, <2>1 DEF Picks
<1> QED BY <1>1, <1>2

(* Filter keeps what is in T, all of it, in its order.                      *)
LEMMA FilterPicks ==
  ASSUME NEW S, NEW s \in Seq(S), NEW T
  PROVE  Filter(s, T) \in Seq(S) /\ \E f : Picks(f, Filter(s, T), s, T, Len(s))
<1>1. PICK g : /\ \A n \in 0..Len(s) : Keeps(g, s, T, n)
               /\ Filter(s, T) = g[Len(s)]
  BY FilterStep
<1> DEFINE Good(n) == n \in 0..Len(s) => g[n] \in Seq(S) /\ \E f : Picks(f, g[n], s, T, n)
           P == {n \in Nat : Good(n)}
<1>2. Good(0)
  <2>1. g[0] = <<>>
    BY <1>1 DEF Keeps
  <2>2. Picks(<<>>, <<>>, s, T, 0)
    BY DEF Picks
  <2> QED BY <2>1, <2>2
<1>3. ASSUME NEW n \in Nat, Good(n) PROVE Good(n + 1)
  <2> SUFFICES ASSUME n + 1 \in 0..Len(s)
               PROVE  g[n + 1] \in Seq(S) /\ \E f : Picks(f, g[n + 1], s, T, n + 1)
    OBVIOUS
  <2>1. n \in 0..Len(s) /\ n + 1 \in 1..Len(s) /\ n + 1 # 0 /\ (n + 1) - 1 = n
    OBVIOUS
  <2>2. g[n + 1] = IF s[n + 1] \in T THEN Append(g[n], s[n + 1]) ELSE g[n]
    BY <1>1, <2>1 DEF Keeps
  <2>3. g[n] \in Seq(S)
    BY <1>3, <2>1
  <2>4. PICK f : Picks(f, g[n], s, T, n)
    BY <1>3, <2>1
  <2>5. s[n + 1] \in S
    BY <2>1
  <2> QED BY <2>1, <2>2, <2>3, <2>4, <2>5, PicksMore
<1>4. Good(Len(s))
  <2> HIDE DEF Good
  <2>1. 0 \in P /\ \A n \in Nat : n \in P => n + 1 \in P
    BY <1>2, <1>3
  <2>2. \A n \in P : Good(n)
    OBVIOUS
  <2> HIDE DEF P
  <2>3. Nat \subseteq P
    BY <2>1, Induction
  <2> QED BY <2>2, <2>3
<1> QED BY <1>1, <1>4
==============================================================================

------------------------------ MODULE DataProofs ------------------------------
(***************************************************************************)
(* Proofs about what is computed from data by recursion: in Features, for  *)
(* any values of its constants, options show of diagnostics what was       *)
(* published last, and positions keep their place.                         *)
(***************************************************************************)
EXTENDS Features, NaturalsInduction, WellFoundedInduction, SequenceTheorems, FiniteSetTheorems,
        TLAPS

-----------------------------------------------------------------------------
(***************************************************************************)
(* Induction in first-order form: G is the set of numbers for which it     *)
(* holds.                                                                  *)
(***************************************************************************)

LEMMA Induction ==
  ASSUME NEW G, 0 \in G, \A n \in Nat : n \in G => n + 1 \in G
  PROVE  Nat \subseteq G
<1> DEFINE Bad == {n \in Nat : n \notin G}
<1> SUFFICES ASSUME Bad # {} PROVE FALSE
  OBVIOUS
<1>1. IsWellFoundedOn(OpToRel(<, Nat), Nat)
  BY NatLessThanWellFounded
<1>2. Bad \subseteq Nat
  OBVIOUS
<1>3. PICK n \in Bad : \A m \in Bad : <<m, n>> \notin OpToRel(<, Nat)
  BY <1>1, <1>2, WFMin
<1>4. n \in Nat /\ n \notin G /\ n # 0
  OBVIOUS
<1>5. n - 1 \in Nat /\ n - 1 < n /\ (n - 1) + 1 = n
  BY <1>4
<1>6. <<n - 1, n>> \in OpToRel(<, Nat)
  BY <1>4, <1>5 DEF OpToRel
<1>7. n - 1 \in G
  BY <1>3, <1>5, <1>6
<1>8. QED BY <1>4, <1>5, <1>7

-----------------------------------------------------------------------------
(***************************************************************************)
(* A function of the numbers up to n, defined by recursion with typed      *)
(* values: each is a function of the one before.                           *)
(***************************************************************************)

Step(F, V, n) == F \in [1..n -> [V -> V]]
Recurs(g, F, V, z, n) ==
  g \in [0..n -> V] /\ g[0] = z /\ \A i \in 1..n : g[i] = F[i][g[i - 1]]

LEMMA Recursion ==
  ASSUME NEW V, NEW z \in V, NEW n \in Nat, NEW F, Step(F, V, n)
  PROVE  \E g : Recurs(g, F, V, z, n)
<1> USE DEF Step, Recurs
<1> DEFINE
  Fits(g, m) == g \in [0..m -> V] /\ g[0] = z /\ \A i \in 1..m : g[i] = F[i][g[i - 1]]
  G == {m \in Nat : m <= n => \E g : Fits(g, m)}
<1>1. 0 \in G
  <2> DEFINE g == [k \in 0..0 |-> z]
  <2>1. Fits(g, 0)
    OBVIOUS
  <2>2. QED BY <2>1
<1>2. ASSUME NEW m \in Nat, m \in G PROVE m + 1 \in G
  <2> SUFFICES ASSUME m + 1 <= n PROVE \E g : Fits(g, m + 1)
    OBVIOUS
  <2>1. PICK g : Fits(g, m)
    BY <1>2
  <2>2. PICK v : v = F[m + 1][g[m]]
    OBVIOUS
  <2>3. v \in V
    <3>1. m + 1 \in 1..n /\ m \in 0..m
      OBVIOUS
    <3>2. g[m] \in V /\ F[m + 1] \in [V -> V]
      BY <2>1, <3>1
    <3>3. QED BY <2>2, <3>2
  <2> DEFINE h == [k \in 0..m + 1 |-> IF k = m + 1 THEN v ELSE g[k]]
  <2>4. h \in [0..m + 1 -> V]
    <3>1. ASSUME NEW k \in 0..m + 1, k # m + 1 PROVE g[k] \in V
      BY <2>1, <3>1
    <3>2. QED BY <2>3, <3>1
  <2>5. h[m + 1] = v /\ \A k \in 0..m : h[k] = g[k]
    OBVIOUS
  <2> HIDE DEF h
  <2>6. ASSUME NEW i \in 1..m + 1 PROVE h[i] = F[i][h[i - 1]]
    <3>1. CASE i = m + 1
      <4>1. i - 1 = m /\ m \in 0..m
        BY <3>1
      <4>2. QED BY <2>2, <2>5, <3>1, <4>1
    <3>2. CASE i # m + 1
      <4>1. i \in 1..m /\ i \in 0..m /\ i - 1 \in 0..m
        BY <3>2
      <4>2. g[i] = F[i][g[i - 1]]
        BY <2>1, <4>1
      <4>3. QED BY <2>5, <4>1, <4>2
    <3>3. QED BY <3>1, <3>2
  <2>7. h[0] = z
    BY <2>1, <2>5
  <2>8. QED BY <2>4, <2>6, <2>7
<1> HIDE DEF G
<1>3. n \in G
  BY <1>1, <1>2, Induction
<1>4. QED BY <1>3 DEF G

-----------------------------------------------------------------------------
(***************************************************************************)
(* What is kept of others.                                                 *)
(***************************************************************************)

IsKept(g, q, s) ==
  g = [i \in 0..Len(q) |-> IF i = 0 THEN <<>>
                           ELSE IF q[i][1] = s THEN g[i - 1] ELSE Append(g[i - 1], q[i])]

LEMMA KeptExists ==
  ASSUME NEW T, NEW q \in Seq(T), NEW s
  PROVE  \E g \in [0..Len(q) -> Seq(T)] : IsKept(g, q, s)
<1>1. PICK n \in Nat : n = Len(q)
  OBVIOUS
<1> DEFINE F == [i \in 1..n |-> [v \in Seq(T) |-> IF q[i][1] = s THEN v ELSE Append(v, q[i])]]
<1>2. ASSUME NEW i \in 1..n, NEW v \in Seq(T) PROVE Append(v, q[i]) \in Seq(T)
  BY <1>1
<1>3. F \in [1..n -> [Seq(T) -> Seq(T)]]
  BY <1>2
<1>4. ASSUME NEW i \in 1..n, NEW v \in Seq(T)
      PROVE  F[i][v] = IF q[i][1] = s THEN v ELSE Append(v, q[i])
  OBVIOUS
<1> HIDE DEF F
<1>5. <<>> \in Seq(T)
  OBVIOUS
<1>6. PICK g \in [0..n -> Seq(T)] : g[0] = <<>> /\ \A i \in 1..n : g[i] = F[i][g[i - 1]]
  <2>1. Step(F, Seq(T), n)
    BY <1>3 DEF Step
  <2>2. \E g : Recurs(g, F, Seq(T), <<>>, n)
    BY <1>5, <2>1, Recursion
  <2>3. QED BY <2>2 DEF Recurs
<1>7. ASSUME NEW i \in 0..n
      PROVE  g[i] = IF i = 0 THEN <<>> ELSE IF q[i][1] = s THEN g[i - 1] ELSE Append(g[i - 1], q[i])
  <2>1. CASE i = 0
    BY <1>6, <2>1
  <2>2. CASE i # 0
    <3>1. i \in 1..n /\ i - 1 \in 0..n
      BY <2>2
    <3>2. g[i - 1] \in Seq(T)
      BY <3>1
    <3>3. QED BY <1>4, <1>6, <2>2, <3>1, <3>2
  <2>3. QED BY <2>1, <2>2
<1>8. g = [i \in 0..n |-> g[i]]
  OBVIOUS
<1>9. IsKept(g, q, s)
  BY <1>1, <1>7, <1>8 DEF IsKept
<1>10. QED BY <1>1, <1>9

LEMMA KeptTyped ==
  ASSUME NEW T, NEW q \in Seq(T), NEW s, NEW g, IsKept(g, q, s)
  PROVE  g \in [0..Len(q) -> Seq(T)]
<1>1. PICK n \in Nat : n = Len(q)
  OBVIOUS
<1> DEFINE G == {m \in Nat : m <= n => g[m] \in Seq(T)}
<1>2. 0 \in G
  BY <1>1 DEF IsKept
<1>3. ASSUME NEW m \in Nat, m \in G PROVE m + 1 \in G
  <2> SUFFICES ASSUME m + 1 <= n PROVE g[m + 1] \in Seq(T)
    OBVIOUS
  <2>1. m + 1 \in 1..n /\ m + 1 \in 0..n /\ m + 1 # 0 /\ (m + 1) - 1 = m
    OBVIOUS
  <2>2. g[m + 1] = IF q[m + 1][1] = s THEN g[m] ELSE Append(g[m], q[m + 1])
    BY <1>1, <2>1 DEF IsKept
  <2>3. g[m] \in Seq(T) /\ q[m + 1] \in T
    BY <1>1, <1>3, <2>1
  <2>4. QED BY <2>2, <2>3
<1> HIDE DEF G
<1>4. \A m \in Nat : m \in G
  BY <1>2, <1>3, Induction
<1>5. ASSUME NEW m \in 0..n PROVE g[m] \in Seq(T)
  BY <1>4 DEF G
<1>6. g = [m \in 0..n |-> g[m]]
  BY <1>1 DEF IsKept
<1>7. QED BY <1>1, <1>5, <1>6

\* Which of them are kept, in which place.
Keeps(r, kept, q, m, s) ==
  /\ r \in [1..Len(kept) -> 1..m]
  /\ \A k \in 1..Len(kept) : kept[k] = q[r[k]] /\ q[r[k]][1] # s
  /\ \A j, k \in 1..Len(kept) : r[j] = r[k] => j = k
  /\ \A i \in 1..m : q[i][1] # s => \E k \in 1..Len(kept) : r[k] = i

LEMMA KeptOf ==
  ASSUME NEW T, NEW q \in Seq(T), NEW s, NEW g \in [0..Len(q) -> Seq(T)], IsKept(g, q, s)
  PROVE  \E r : Keeps(r, g[Len(q)], q, Len(q), s)
<1>1. PICK n \in Nat : n = Len(q)
  OBVIOUS
<1> DEFINE G == {m \in Nat : m <= n => \E r : Keeps(r, g[m], q, m, s)}
<1>2. 0 \in G
  <2>1. g[0] = <<>>
    BY <1>1 DEF IsKept
  <2>2. PICK e : e = <<>>
    OBVIOUS
  <2>3. Keeps(e, <<>>, q, 0, s)
    BY <2>2 DEF Keeps
  <2>4. QED BY <2>1, <2>3
<1>3. ASSUME NEW m \in Nat, m \in G PROVE m + 1 \in G
  <2> SUFFICES ASSUME m + 1 <= n PROVE \E r : Keeps(r, g[m + 1], q, m + 1, s)
    OBVIOUS
  <2>1. m + 1 \in 0..n /\ m \in 0..n /\ m + 1 # 0 /\ (m + 1) - 1 = m
    OBVIOUS
  <2>2. g[m + 1] = IF q[m + 1][1] = s THEN g[m] ELSE Append(g[m], q[m + 1])
    BY <1>1, <2>1 DEF IsKept
  <2>3. PICK r : Keeps(r, g[m], q, m, s)
    BY <1>3
  <2>4. PICK v \in Seq(T) : v = g[m]
    BY <1>1, <2>1
  <2>5. PICK l \in Nat : l = Len(v)
    BY <2>4
  <2>6. CASE q[m + 1][1] = s
    <3>1. g[m + 1] = v
      BY <2>2, <2>4, <2>6
    <3>2. r \in [1..l -> 1..m + 1]
      <4>1. r \in [1..l -> 1..m]
        BY <2>3, <2>4, <2>5 DEF Keeps
      <4>2. \A i \in 1..m : i \in 1..m + 1
        OBVIOUS
      <4>3. QED BY <4>1, <4>2
    <3>3. \A i \in 1..m + 1 : q[i][1] # s => i \in 1..m
      BY <2>6
    <3>4. Keeps(r, v, q, m + 1, s)
      BY <2>3, <2>4, <2>5, <3>2, <3>3 DEF Keeps
    <3>5. QED BY <3>1, <3>4
  <2>7. CASE q[m + 1][1] # s
    <3>1. PICK w : w = g[m + 1]
      OBVIOUS
    <3>2. w = Append(v, q[m + 1])
      BY <2>2, <2>4, <2>7, <3>1
    <3>3. Len(w) = l + 1 /\ w[l + 1] = q[m + 1] /\ \A k \in 1..l : w[k] = v[k]
      <4>1. q[m + 1] \in T
        BY <1>1, <2>1
      <4>2. QED BY <2>5, <3>2, <4>1
    <3> DEFINE h == [k \in 1..l + 1 |-> IF k = l + 1 THEN m + 1 ELSE r[k]]
    <3>4. r \in [1..l -> 1..m]
      BY <2>3, <2>4, <2>5 DEF Keeps
    <3>5. h \in [1..l + 1 -> 1..m + 1]
      <4>1. ASSUME NEW k \in 1..l + 1, k # l + 1 PROVE r[k] \in 1..m + 1
        <5>1. k \in 1..l
          BY <4>1
        <5>2. r[k] \in 1..m
          BY <3>4, <5>1
        <5>3. QED BY <5>2
      <4>2. QED BY <4>1
    <3>6. h[l + 1] = m + 1 /\ \A k \in 1..l : h[k] = r[k]
      OBVIOUS
    <3>7. \A k \in 1..l + 1 : k \in 1..l \/ k = l + 1
      OBVIOUS
    <3> HIDE DEF h
    <3>8. \A k \in 1..l + 1 : w[k] = q[h[k]] /\ q[h[k]][1] # s
      <4>1. \A k \in 1..l : v[k] = q[r[k]] /\ q[r[k]][1] # s
        BY <2>3, <2>4, <2>5 DEF Keeps
      <4>2. \A k \in 1..l : w[k] = q[h[k]] /\ q[h[k]][1] # s
        BY <3>3, <3>6, <4>1
      <4>3. w[l + 1] = q[h[l + 1]] /\ q[h[l + 1]][1] # s
        BY <2>7, <3>3, <3>6
      <4>4. QED BY <3>7, <4>2, <4>3
    <3>9. \A k \in 1..l : r[k] # m + 1
      <4> SUFFICES ASSUME NEW k \in 1..l PROVE r[k] # m + 1
        OBVIOUS
      <4>1. r[k] \in 1..m
        BY <3>4
      <4>2. QED BY <4>1
    <3>10. \A j, k \in 1..l + 1 : h[j] = h[k] => j = k
      <4>1. \A j, k \in 1..l : r[j] = r[k] => j = k
        BY <2>3, <2>4, <2>5 DEF Keeps
      <4>2. QED BY <3>6, <3>7, <3>9, <4>1
    <3>11. ASSUME NEW i \in 1..m + 1, q[i][1] # s PROVE \E k \in 1..l + 1 : h[k] = i
      <4>1. CASE i = m + 1
        BY <3>6, <4>1
      <4>2. CASE i # m + 1
        <5>1. i \in 1..m
          BY <4>2
        <5>2. PICK k \in 1..l : r[k] = i
          BY <2>3, <2>4, <2>5, <3>11, <5>1 DEF Keeps
        <5>3. k \in 1..l + 1 /\ h[k] = i
          BY <3>6, <5>2
        <5>4. QED BY <5>3
      <4>3. QED BY <4>1, <4>2
    <3>12. Keeps(h, w, q, m + 1, s)
      BY <3>3, <3>5, <3>8, <3>10, <3>11 DEF Keeps
    <3>13. QED BY <3>1, <3>12
  <2>8. QED BY <2>6, <2>7
<1> HIDE DEF G
<1>4. n \in G
  BY <1>2, <1>3, Induction
<1>5. QED BY <1>1, <1>4 DEF G

LEMMA KeptOfOthersIs ==
  ASSUME NEW T, diagnostics \in Seq(T), NEW s
  PROVE  \E r : /\ Diagnostic!KeptOfOthers(s) \in Seq(T)
                /\ Keeps(r, Diagnostic!KeptOfOthers(s), diagnostics, Len(diagnostics), s)
<1>1. PICK q : q = diagnostics
  OBVIOUS
<1> DEFINE c == CHOOSE g : IsKept(g, q, s)
<1>2. Diagnostic!KeptOfOthers(s) = c[Len(q)]
  BY <1>1 DEF Diagnostic!KeptOfOthers, IsKept
<1>3. PICK g \in [0..Len(q) -> Seq(T)] : IsKept(g, q, s)
  BY <1>1, KeptExists
<1>4. IsKept(c, q, s)
  BY <1>3
<1> HIDE DEF c
<1>5. c \in [0..Len(q) -> Seq(T)]
  <2>1. q \in Seq(T)
    BY <1>1
  <2>2. QED BY <1>4, <2>1, KeptTyped
<1>6. PICK r : Keeps(r, c[Len(q)], q, Len(q), s)
  BY <1>1, <1>4, <1>5, KeptOf
<1>7. c[Len(q)] \in Seq(T)
  BY <1>1, <1>5
<1>8. QED BY <1>1, <1>2, <1>6, <1>7

-----------------------------------------------------------------------------
(***************************************************************************)
(* The diagnostics of a server are those it published last.                *)
(***************************************************************************)

Of(q, s) == {i \in 1..Len(q) : q[i][1] = s}

Corresponds(f, q, s, ds) ==
  /\ f \in [Of(q, s) -> 1..Len(ds)]
  /\ \A i \in Of(q, s) : q[i] = <<s, ds[f[i]]>>
  /\ \A i, j \in Of(q, s) : f[i] = f[j] => i = j
  /\ \A k \in 1..Len(ds) : \E i \in Of(q, s) : f[i] = k

PublishedOf(s, ds) == [i \in 1..Len(ds) |-> <<s, ds[i]>>]

Replaces(new, q, s, ds) ==
  /\ \E f : Corresponds(f, new, s, ds)
  /\ \A t, d : t # s /\ (\E f : Corresponds(f, q, t, d)) => \E f : Corresponds(f, new, t, d)

LEMMA NewEntries ==
  ASSUME NEW T, NEW kept \in Seq(T), NEW q, NEW r, NEW s, Keeps(r, kept, q, Len(q), s),
         NEW R, NEW ds \in Seq(R),
         NEW new, new = kept \o PublishedOf(s, ds)
  PROVE  Replaces(new, q, s, ds)
<1>1. PICK m, l \in Nat : m = Len(kept) /\ l = Len(ds)
  OBVIOUS
<1>2. PICK e : e = PublishedOf(s, ds)
  OBVIOUS
<1>3. /\ Len(new) = m + l
      /\ \A i \in 1..m + l : new[i] = IF i <= m THEN kept[i] ELSE <<s, ds[i - m]>>
  <2>2. e \in Seq({s} \X R) /\ Len(e) = l /\ \A i \in 1..l : e[i] = <<s, ds[i]>>
    BY <1>2, <1>1 DEF PublishedOf
  <2>3. PICK A : A = T \cup ({s} \X R)
    OBVIOUS
  <2>4. kept \in Seq(A) /\ e \in Seq(A)
    BY <2>2, <2>3
  <2>6. /\ Len(new) = m + l
        /\ \A i \in 1..m + l : new[i] = IF i <= m THEN kept[i] ELSE e[i - m]
    <3>1. Len(kept \o e) = Len(kept) + Len(e)
      BY <2>4, ConcatProperties
    <3>2. \A i \in 1..Len(kept) + Len(e) :
             (kept \o e)[i] = IF i <= Len(kept) THEN kept[i] ELSE e[i - Len(kept)]
      BY <2>4, ConcatProperties
    <3>3. QED BY <1>2, <1>1, <2>2, <3>1, <3>2
  <2>7. ASSUME NEW i \in 1..m + l, ~(i <= m) PROVE e[i - m] = <<s, ds[i - m]>>
    <3>1. i - m \in 1..l
      BY <2>7
    <3>2. QED BY <2>2, <3>1
  <2>8. QED BY <2>6, <2>7
<1>4. ASSUME NEW i \in 1..m PROVE new[i] = kept[i]
  <2>1. i \in 1..m + l /\ i <= m
    OBVIOUS
  <2>2. QED BY <1>3, <2>1
<1>5. ASSUME NEW i \in 1..l PROVE new[m + i] = <<s, ds[i]>>
  <2>1. m + i \in 1..m + l /\ ~(m + i <= m) /\ (m + i) - m = i
    OBVIOUS
  <2>2. QED BY <1>3, <2>1
<1>6. /\ r \in [1..m -> 1..Len(q)]
      /\ \A k \in 1..m : kept[k] = q[r[k]] /\ q[r[k]][1] # s
      /\ \A j, k \in 1..m : r[j] = r[k] => j = k
      /\ \A i \in 1..Len(q) : q[i][1] # s => \E k \in 1..m : r[k] = i
  BY <1>1 DEF Keeps
<1>7. ASSUME NEW i \in 1..m + l, i \notin 1..m PROVE i - m \in 1..l /\ i = m + (i - m)
  BY <1>7
<1>8. ASSUME NEW i \in 1..l PROVE m + i \in 1..m + l /\ (m + i) - m = i /\ m + i \notin 1..m
  OBVIOUS
<1>9. ASSUME NEW i \in 1..m PROVE new[i] = q[r[i]] /\ r[i] \in 1..Len(q) /\ new[i][1] # s
  <2>1. kept[i] = q[r[i]] /\ q[r[i]][1] # s /\ r[i] \in 1..Len(q)
    BY <1>6
  <2>2. new[i] = kept[i]
    BY <1>4
  <2>3. QED BY <2>1, <2>2
<1>10. Of(new, s) = {m + i : i \in 1..l}
  <2>1. ASSUME NEW i \in 1..m + l, new[i][1] = s PROVE i - m \in 1..l
    BY <1>9, <1>7, <2>1
  <2>2. ASSUME NEW i \in 1..l PROVE m + i \in 1..m + l /\ new[m + i][1] = s
    <3>1. new[m + i] = <<s, ds[i]>>
      BY <1>5
    <3>2. <<s, ds[i]>>[1] = s
      OBVIOUS
    <3>3. QED BY <1>8, <3>1, <3>2
  <2>3. ASSUME NEW i \in Of(new, s) PROVE \E k \in 1..l : i = m + k
    <3>1. i \in 1..m + l /\ new[i][1] = s
      BY <1>3 DEF Of
    <3>2. i \notin 1..m
      BY <1>9, <3>1
    <3>3. QED BY <1>7, <3>1, <3>2
  <2>4. ASSUME NEW k \in 1..l PROVE m + k \in Of(new, s)
    BY <1>3, <2>2 DEF Of
  <2>5. QED BY <2>3, <2>4
<1>11. \E f : Corresponds(f, new, s, ds)
  <2> DEFINE f == [i \in Of(new, s) |-> i - m]
  <2>1. ASSUME NEW i \in Of(new, s)
        PROVE  i \in Nat /\ i - m \in 1..l /\ new[i] = <<s, ds[i - m]>>
    <3>1. PICK k \in 1..l : i = m + k
      BY <1>10
    <3>2. i - m = k /\ i \in Nat
      BY <1>1, <3>1
    <3>3. new[i] = <<s, ds[k]>>
      BY <1>5, <3>1
    <3>4. QED BY <3>2, <3>3
  <2>2. ASSUME NEW k \in 1..l PROVE m + k \in Of(new, s) /\ (m + k) - m = k
    BY <1>8, <1>10
  <2>3. f \in [Of(new, s) -> 1..l]
    BY <2>1
  <2>4. \A i \in Of(new, s) : f[i] = i - m
    OBVIOUS
  <2> HIDE DEF f
  <2>5. ASSUME NEW i \in Of(new, s), NEW j \in Of(new, s), f[i] = f[j] PROVE i = j
    <3>1. i - m = j - m
      BY <2>4, <2>5
    <3>2. i \in Nat /\ j \in Nat
      BY <2>1
    <3>3. QED BY <3>1, <3>2
  <2>6. \A k \in 1..l : \E i \in Of(new, s) : f[i] = k
    BY <2>2, <2>4
  <2>7. \A i \in Of(new, s) : new[i] = <<s, ds[f[i]]>>
    BY <2>1, <2>4
  <2>8. Corresponds(f, new, s, ds)
    BY <1>1, <2>3, <2>5, <2>6, <2>7 DEF Corresponds
  <2>9. QED BY <2>8
<1>12. ASSUME NEW t, NEW d, t # s, NEW g, Corresponds(g, q, t, d)
      PROVE  \E f : Corresponds(f, new, t, d)
  <2>1. ASSUME NEW i \in Of(new, t) PROVE i \in 1..m /\ r[i] \in Of(q, t) /\ new[i] = q[r[i]]
    <3>1. i \in 1..m + l /\ new[i][1] = t
      BY <1>3 DEF Of
    <3>2. i \in 1..m
      <4>1. ASSUME i \notin 1..m PROVE FALSE
        <5>1. PICK k \in 1..l : i = m + k
          BY <1>7, <3>1, <4>1
        <5>2. new[i] = <<s, ds[k]>>
          BY <1>5, <5>1
        <5>3. <<s, ds[k]>>[1] = s
          OBVIOUS
        <5>4. new[i][1] = s
          BY <5>2, <5>3
        <5>5. QED BY <1>12, <3>1, <5>4
      <4>2. QED BY <4>1
    <3>3. new[i] = q[r[i]] /\ r[i] \in 1..Len(q)
      BY <1>9, <3>2
    <3>4. QED BY <3>1, <3>2, <3>3 DEF Of
  <2>2. ASSUME NEW i \in Of(q, t) PROVE \E k \in Of(new, t) : r[k] = i
    <3>1. i \in 1..Len(q) /\ q[i][1] = t
      BY DEF Of
    <3>2. PICK k \in 1..m : r[k] = i
      BY <1>6, <1>12, <3>1
    <3>3. k \in 1..m + l /\ new[k][1] = t
      BY <1>9, <1>1, <3>1, <3>2
    <3>4. QED BY <1>3, <3>2, <3>3 DEF Of
  <2>3. /\ g \in [Of(q, t) -> 1..Len(d)]
        /\ \A i \in Of(q, t) : q[i] = <<t, d[g[i]]>>
        /\ \A i, j \in Of(q, t) : g[i] = g[j] => i = j
        /\ \A k \in 1..Len(d) : \E i \in Of(q, t) : g[i] = k
    BY <1>12 DEF Corresponds
  <2> DEFINE f == [i \in Of(new, t) |-> g[r[i]]]
  <2>4. f \in [Of(new, t) -> 1..Len(d)]
    BY <2>1, <2>3
  <2>5. \A i \in Of(new, t) : f[i] = g[r[i]]
    OBVIOUS
  <2> HIDE DEF f
  <2>6. \A i \in Of(new, t) : new[i] = <<t, d[f[i]]>>
    <3> SUFFICES ASSUME NEW i \in Of(new, t) PROVE new[i] = <<t, d[f[i]]>>
      OBVIOUS
    <3>1. PICK j \in Of(q, t) : j = r[i] /\ new[i] = q[j]
      BY <2>1
    <3>2. q[j] = <<t, d[g[j]]>> /\ f[i] = g[j]
      BY <2>3, <2>5, <3>1
    <3>3. QED BY <3>1, <3>2
  <2>7. ASSUME NEW i \in Of(new, t), NEW j \in Of(new, t), f[i] = f[j] PROVE i = j
    <3>1. r[i] \in Of(q, t) /\ r[j] \in Of(q, t) /\ i \in 1..m /\ j \in 1..m
      BY <2>1
    <3>2. g[r[i]] = g[r[j]]
      <4>1. f[i] = g[r[i]] /\ f[j] = g[r[j]]
        BY <2>5
      <4>2. QED BY <2>7, <4>1
    <3>3. r[i] = r[j]
      <4>1. \A h, k \in Of(q, t) : g[h] = g[k] => h = k
        BY <2>3
      <4>2. QED BY <3>1, <3>2, <4>1
    <3>4. QED BY <1>6, <3>1, <3>3
  <2>8. ASSUME NEW k \in 1..Len(d) PROVE \E i \in Of(new, t) : f[i] = k
    <3>1. PICK j \in Of(q, t) : g[j] = k
      BY <2>3
    <3>2. PICK i \in Of(new, t) : r[i] = j
      BY <2>2
    <3>3. QED BY <2>5, <3>1, <3>2
  <2>9. Corresponds(f, new, t, d)
    BY <2>4, <2>6, <2>7, <2>8 DEF Corresponds
  <2>10. QED BY <2>9
<1>13. QED BY <1>11, <1>12 DEF Replaces

-----------------------------------------------------------------------------
(***************************************************************************)
(* The text of a line.                                                     *)
(***************************************************************************)

Report == Nat \X Nat \X (0..4)

LEMMA EntryTyped ==
  ASSUME NEW S, NEW d \in S \X Report
  PROVE  /\ Diagnostic!From(d) \in Nat /\ Diagnostic!To(d) \in Nat
         /\ Diagnostic!Severity(d) \in 0..4
         /\ Diagnostic!Shown(Diagnostic!Severity(d)) \in 1..4
         /\ Diagnostic!Severity(d) # Diagnostic!NoSeverity =>
              Diagnostic!Shown(Diagnostic!Severity(d)) = Diagnostic!Severity(d)
         /\ d = <<d[1], d[2]>>
<1>1. d[2] \in Report /\ d = <<d[1], d[2]>>
  OBVIOUS
<1>2. PICK r \in Report : r = d[2]
  BY <1>1
<1>3. r[1] \in Nat /\ r[2] \in Nat /\ r[3] \in 0..4
  BY DEF Report
<1>4. QED BY <1>1, <1>2, <1>3
  DEF Diagnostic!From, Diagnostic!To, Diagnostic!Severity, Diagnostic!Shown, Diagnostic!NoSeverity

\* The severity after the diagnostic d.
Worse(v, d, line) ==
  IF Diagnostic!To(d) = line
     /\ (v = Diagnostic!NoSeverity \/ Diagnostic!Shown(Diagnostic!Severity(d)) < v)
  THEN Diagnostic!Severity(d) ELSE v

IsText(g, ds, line) ==
  g = [i \in 0..Len(ds) |-> IF i = 0 THEN Diagnostic!NoSeverity ELSE Worse(g[i - 1], ds[i], line)]

LEMMA TextExists ==
  ASSUME NEW S, NEW ds \in Seq(S \X Report), NEW line
  PROVE  \E g : IsText(g, ds, line)
<1>1. PICK n \in Nat : n = Len(ds)
  OBVIOUS
<1> DEFINE F == [i \in 1..n |-> [v \in 0..4 |-> Worse(v, ds[i], line)]]
<1>2. ASSUME NEW i \in 1..n, NEW v \in 0..4 PROVE Worse(v, ds[i], line) \in 0..4
  <2>1. ds[i] \in S \X Report
    BY <1>1
  <2>2. QED BY <2>1, EntryTyped DEF Worse
<1>3. F \in [1..n -> [0..4 -> 0..4]]
  BY <1>2
<1>4. ASSUME NEW i \in 1..n, NEW v \in 0..4 PROVE F[i][v] = Worse(v, ds[i], line)
  OBVIOUS
<1> HIDE DEF F
<1>5. PICK g \in [0..n -> 0..4] : g[0] = 0 /\ \A i \in 1..n : g[i] = F[i][g[i - 1]]
  <2>1. Step(F, 0..4, n)
    BY <1>3 DEF Step
  <2>2. 0 \in 0..4
    OBVIOUS
  <2>3. \E g : Recurs(g, F, 0..4, 0, n)
    BY <2>1, <2>2, Recursion
  <2>4. QED BY <2>3 DEF Recurs
<1>6. ASSUME NEW i \in 0..n
      PROVE  g[i] = IF i = 0 THEN Diagnostic!NoSeverity ELSE Worse(g[i - 1], ds[i], line)
  <2>1. CASE i = 0
    BY <1>5, <2>1 DEF Diagnostic!NoSeverity
  <2>2. CASE i # 0
    <3>1. i \in 1..n /\ i - 1 \in 0..n
      BY <2>2
    <3>2. QED BY <1>4, <1>5, <2>2, <3>1
  <2>3. QED BY <2>1, <2>2
<1>7. g = [i \in 0..n |-> g[i]]
  OBVIOUS
<1>8. QED BY <1>1, <1>6, <1>7 DEF IsText

\* It is the worst of those of the line, if all of them have a severity.
LEMMA TextIsWorst ==
  ASSUME NEW S, NEW ds \in Seq(S \X Report), NEW line,
         \A i \in 1..Len(ds) : Diagnostic!To(ds[i]) = line =>
                                 Diagnostic!Severity(ds[i]) # Diagnostic!NoSeverity
  PROVE  \A i \in 1..Len(ds) : Diagnostic!To(ds[i]) = line =>
                                 Diagnostic!Text(ds, line) <= Diagnostic!Severity(ds[i])
<1>1. PICK n \in Nat : n = Len(ds)
  OBVIOUS
<1> DEFINE c == CHOOSE g : IsText(g, ds, line)
<1>2. Diagnostic!Text(ds, line) = c[n]
  BY <1>1 DEF Diagnostic!Text, IsText, Worse
<1>3. IsText(c, ds, line)
  BY TextExists
<1> HIDE DEF c
<1> DEFINE
  Good(m) == /\ c[m] \in 0..4
             /\ \A i \in 1..m : Diagnostic!To(ds[i]) = line =>
                                  c[m] # 0 /\ c[m] <= Diagnostic!Severity(ds[i])
  G == {m \in Nat : m <= n => Good(m)}
<1>4. 0 \in G
  <2>1. c[0] = 0
    BY <1>1, <1>3 DEF IsText, Diagnostic!NoSeverity
  <2>2. QED BY <2>1
<1>5. ASSUME NEW m \in Nat, m \in G PROVE m + 1 \in G
  <2> SUFFICES ASSUME m + 1 <= n PROVE Good(m + 1)
    OBVIOUS
  <2>1. m + 1 \in 0..n /\ m + 1 \in 1..n /\ m + 1 # 0 /\ (m + 1) - 1 = m
    OBVIOUS
  <2>2. PICK d \in S \X Report : d = ds[m + 1]
    BY <1>1, <2>1
  <2>3. c[m + 1] = Worse(c[m], d, line)
    BY <1>1, <1>3, <2>1, <2>2 DEF IsText
  <2>4. Good(m)
    BY <1>5
  <2>5. /\ Diagnostic!Severity(d) \in 0..4
        /\ Diagnostic!To(d) = line => /\ Diagnostic!Severity(d) # 0
                                      /\ Diagnostic!Shown(Diagnostic!Severity(d)) = Diagnostic!Severity(d)
    BY <1>1, <2>1, <2>2, EntryTyped DEF Diagnostic!NoSeverity
  <2>6. /\ c[m + 1] \in 0..4
        /\ Diagnostic!To(d) = line => c[m + 1] # 0 /\ c[m + 1] <= Diagnostic!Severity(d)
        /\ c[m + 1] = c[m] \/ (c[m + 1] # 0 /\ (c[m] # 0 => c[m + 1] <= c[m]))
    BY <2>3, <2>4, <2>5 DEF Worse, Diagnostic!NoSeverity
  <2>7. ASSUME NEW i \in 1..m + 1, Diagnostic!To(ds[i]) = line
        PROVE  c[m + 1] # 0 /\ c[m + 1] <= Diagnostic!Severity(ds[i])
    <3>1. CASE i = m + 1
      BY <2>2, <2>6, <2>7, <3>1
    <3>2. CASE i # m + 1
      <4>1. i \in 1..m /\ i \in 1..n
        BY <3>2
      <4>2. c[m] # 0 /\ c[m] <= Diagnostic!Severity(ds[i])
        BY <2>4, <2>7, <4>1
      <4>3. Diagnostic!Severity(ds[i]) \in 0..4 /\ c[m] \in 0..4
        <5>1. ds[i] \in S \X Report
          BY <1>1, <4>1
        <5>2. QED BY <2>4, <5>1, EntryTyped
      <4>4. QED BY <2>6, <4>2, <4>3
    <3>3. QED BY <3>1, <3>2
  <2>8. QED BY <2>6, <2>7
<1>6. Good(n)
  <2> HIDE DEF G
  <2>1. n \in G
    BY <1>4, <1>5, Induction
  <2>2. QED BY <2>1 DEF G
<1>7. QED BY <1>1, <1>2, <1>6

-----------------------------------------------------------------------------
(***************************************************************************)
(* The signs of lines: diagnostics and lenses are merged.                  *)
(***************************************************************************)

Entries == Nat \X (0..4)

\* States of the loop.
Merging(a, b) == [ds : 0..a, ls : 0..b, flags : Seq(Entries)]

DiagnosticFlag(d) == <<Diagnostic!From(d), Diagnostic!Shown(Diagnostic!Severity(d))>>
LensFlag(line) == <<line, Diagnostic!Lens>>

Increasing(q) == \A i, j \in 1..Len(q) : i < j => q[i] < q[j]
InLineOrder(q) == \A i, j \in 1..Len(q) : i < j => Diagnostic!From(q[i]) <= Diagnostic!From(q[j])

IsMerged(g, ds, ls) ==
  g = [n \in 0..Len(ds) + Len(ls) |->
         IF n = 0 THEN Diagnostic!Taken(0, 0, <<>>) ELSE Diagnostic!Flag(ds, ls, g[n - 1])]

\* What one step of the loop does, of a diagnostics and b lenses.
TakesNone(a, b, st, next) == st.ds = a /\ st.ls = b /\ next = st
TakesLens(ds, ls, a, b, st, next) ==
  /\ st.ls < b
  /\ st.ds = a \/ Diagnostic!From(ds[st.ds + 1]) > ls[st.ls + 1]
  /\ next = Diagnostic!Taken(st.ds, st.ls + 1, Append(st.flags, LensFlag(ls[st.ls + 1])))
TakesDiagnostic(ds, ls, a, b, st, next, skip) ==
  /\ st.ds < a
  /\ st.ls + skip \in 0..b
  /\ skip = 1 => Diagnostic!From(ds[st.ds + 1]) = ls[st.ls + 1]
  /\ skip = 0 => st.ls = b \/ Diagnostic!From(ds[st.ds + 1]) < ls[st.ls + 1]
  /\ next = Diagnostic!Taken(st.ds + 1, st.ls + skip,
                             Append(st.flags, DiagnosticFlag(ds[st.ds + 1])))

LEMMA FlagCases ==
  ASSUME NEW S, NEW ds \in Seq(S \X Report), NEW ls \in Seq(Nat),
         NEW a \in Nat, NEW b \in Nat, a = Len(ds), b = Len(ls), NEW st \in Merging(a, b),
         NEW next, next = Diagnostic!Flag(ds, ls, st)
  PROVE  \/ TakesNone(a, b, st, next)
         \/ TakesLens(ds, ls, a, b, st, next)
         \/ \E skip \in 0..1 : TakesDiagnostic(ds, ls, a, b, st, next, skip)
<1>1. PICK x, y, f : x = st.ds /\ y = st.ls /\ f = st.flags
  OBVIOUS
<1>2. x \in 0..a /\ y \in 0..b
  BY <1>1 DEF Merging
<1>3. PICK d : d = ds[x + 1]
  OBVIOUS
<1>4. PICK l : l = ls[y + 1]
  OBVIOUS
<1>5. x < a => Diagnostic!From(d) \in Nat
  <2> SUFFICES ASSUME x < a PROVE Diagnostic!From(d) \in Nat
    OBVIOUS
  <2>1. x + 1 \in 1..a
    BY <1>2
  <2>2. d \in S \X Report
    BY <1>3, <2>1
  <2>3. QED BY <2>2, EntryTyped
<1>6. y < b => l \in Nat
  BY <1>2, <1>4
<1>7. CASE x = a /\ y = b
  BY <1>1, <1>7 DEF Diagnostic!Flag, TakesNone
<1>8. CASE y < b /\ (x = a \/ Diagnostic!From(d) > l)
  <2>1. Diagnostic!Flag(ds, ls, st) = Diagnostic!Taken(x, y + 1, Append(f, <<l, Diagnostic!Lens>>))
    BY <1>1, <1>2, <1>3, <1>4, <1>8 DEF Diagnostic!Flag
  <2>2. QED BY <1>1, <1>3, <1>4, <1>8, <2>1 DEF LensFlag, TakesLens
<1>9. CASE x < a /\ ~(y < b /\ (x = a \/ Diagnostic!From(d) > l))
  <2>1. PICK skip \in 0..1 : skip = 1 <=> (y < b /\ Diagnostic!From(d) = l)
    <3>1. CASE y < b /\ Diagnostic!From(d) = l
      <4>1. 1 \in 0..1
        OBVIOUS
      <4>2. QED BY <3>1, <4>1
    <3>2. CASE ~(y < b /\ Diagnostic!From(d) = l)
      <4>1. 0 \in 0..1 /\ 0 # 1
        OBVIOUS
      <4>2. QED BY <3>2, <4>1
    <3>3. QED BY <3>1, <3>2
  <2>2. Diagnostic!Flag(ds, ls, st) =
          Diagnostic!Taken(x + 1, IF y < b /\ Diagnostic!From(d) = l THEN y + 1 ELSE y,
                           Append(f, <<Diagnostic!From(d), Diagnostic!Shown(Diagnostic!Severity(d))>>))
    BY <1>1, <1>2, <1>3, <1>4, <1>9 DEF Diagnostic!Flag
  <2>3. (IF y < b /\ Diagnostic!From(d) = l THEN y + 1 ELSE y) = y + skip
    BY <1>2, <2>1
  <2>4. y + skip \in 0..b
    BY <1>2, <2>1
  <2>5. skip = 0 => y = b \/ Diagnostic!From(d) < l
    BY <1>2, <1>5, <1>6, <1>9, <2>1
  <2>6. QED BY <1>1, <1>3, <1>4, <1>9, <2>1, <2>2, <2>3, <2>4, <2>5 DEF DiagnosticFlag, TakesDiagnostic
<1>10. QED BY <1>1, <1>2, <1>7, <1>8, <1>9

LEMMA FlagTyped ==
  ASSUME NEW S, NEW ds \in Seq(S \X Report), NEW ls \in Seq(Nat),
         NEW st \in Merging(Len(ds), Len(ls))
  PROVE  Diagnostic!Flag(ds, ls, st) \in Merging(Len(ds), Len(ls))
<1>1. PICK a, b \in Nat : a = Len(ds) /\ b = Len(ls)
  OBVIOUS
<1>2. PICK x, y, f : x = st.ds /\ y = st.ls /\ f = st.flags
  OBVIOUS
<1>3. x \in 0..a /\ y \in 0..b /\ f \in Seq(Entries)
  BY <1>1, <1>2 DEF Merging
<1>4. st \in Merging(a, b)
  BY <1>1
<1>5. PICK next : next = Diagnostic!Flag(ds, ls, st)
  OBVIOUS
<1> SUFFICES next \in Merging(a, b)
  BY <1>1, <1>5
<1>6. CASE TakesNone(a, b, st, next)
  BY <1>4, <1>6 DEF TakesNone
<1>7. CASE TakesLens(ds, ls, a, b, st, next)
  <2>1. y < b /\ next = Diagnostic!Taken(x, y + 1, Append(f, LensFlag(ls[y + 1])))
    BY <1>2, <1>7 DEF TakesLens
  <2>2. LensFlag(ls[y + 1]) \in Entries
    BY <1>1, <1>3, <2>1 DEF LensFlag, Entries, Diagnostic!Lens
  <2>3. PICK g \in Seq(Entries) : g = Append(f, LensFlag(ls[y + 1]))
    <3>1. PICK e \in Entries : e = LensFlag(ls[y + 1])
      BY <2>2
    <3>2. Append(f, e) \in Seq(Entries)
      BY <1>3
    <3>3. QED BY <3>1, <3>2
  <2>4. x \in 0..a /\ y + 1 \in 0..b
    BY <1>3, <2>1
  <2>5. QED BY <2>1, <2>3, <2>4 DEF Diagnostic!Taken, Merging
<1>8. ASSUME NEW skip \in 0..1, TakesDiagnostic(ds, ls, a, b, st, next, skip)
      PROVE  next \in Merging(a, b)
  <2>1. x < a /\ y + skip \in 0..b
        /\ next = Diagnostic!Taken(x + 1, y + skip, Append(f, DiagnosticFlag(ds[x + 1])))
    BY <1>2, <1>8 DEF TakesDiagnostic
  <2>2. DiagnosticFlag(ds[x + 1]) \in Entries
    <3>1. x + 1 \in 1..a
      BY <1>3, <2>1
    <3>2. ds[x + 1] \in S \X Report
      BY <1>1, <3>1
    <3>3. Diagnostic!From(ds[x + 1]) \in Nat /\ Diagnostic!Shown(Diagnostic!Severity(ds[x + 1])) \in 0..4
      BY <3>2, EntryTyped
    <3>4. QED BY <3>3 DEF DiagnosticFlag, Entries
  <2>3. PICK g \in Seq(Entries) : g = Append(f, DiagnosticFlag(ds[x + 1]))
    <3>1. PICK e \in Entries : e = DiagnosticFlag(ds[x + 1])
      BY <2>2
    <3>2. Append(f, e) \in Seq(Entries)
      BY <1>3
    <3>3. QED BY <3>1, <3>2
  <2>4. x + 1 \in 0..a
    BY <1>3, <2>1
  <2>5. QED BY <2>1, <2>3, <2>4 DEF Diagnostic!Taken, Merging
<1>9. \/ TakesNone(a, b, st, next)
      \/ TakesLens(ds, ls, a, b, st, next)
      \/ \E skip \in 0..1 : TakesDiagnostic(ds, ls, a, b, st, next, skip)
  BY <1>1, <1>4, <1>5, FlagCases
<1>10. QED BY <1>1, <1>5, <1>6, <1>7, <1>8, <1>9

LEMMA MergedExists ==
  ASSUME NEW S, NEW ds \in Seq(S \X Report), NEW ls \in Seq(Nat)
  PROVE  \E g : IsMerged(g, ds, ls)
<1>1. PICK n \in Nat : n = Len(ds) + Len(ls)
  OBVIOUS
<1>2. PICK V : V = Merging(Len(ds), Len(ls))
  OBVIOUS
<1> DEFINE F == [i \in 1..n |-> [v \in V |-> Diagnostic!Flag(ds, ls, v)]]
<1>3. \A v \in V : Diagnostic!Flag(ds, ls, v) \in V
  BY <1>2, FlagTyped
<1>4. F \in [1..n -> [V -> V]]
  BY <1>3
<1>5. ASSUME NEW i \in 1..n, NEW v \in V PROVE F[i][v] = Diagnostic!Flag(ds, ls, v)
  OBVIOUS
<1> HIDE DEF F
<1>6. PICK z \in V : z = Diagnostic!Taken(0, 0, <<>>)
  <2>1. 0 \in 0..Len(ds) /\ 0 \in 0..Len(ls) /\ <<>> \in Seq(Entries)
    OBVIOUS
  <2>2. QED BY <1>2, <2>1 DEF Merging, Diagnostic!Taken
<1>7. PICK g \in [0..n -> V] : g[0] = z /\ \A i \in 1..n : g[i] = F[i][g[i - 1]]
  <2>1. Step(F, V, n)
    BY <1>4 DEF Step
  <2>2. \E g : Recurs(g, F, V, z, n)
    BY <1>6, <2>1, Recursion
  <2>3. QED BY <2>2 DEF Recurs
<1>8. ASSUME NEW i \in 0..n
      PROVE  g[i] = IF i = 0 THEN z ELSE Diagnostic!Flag(ds, ls, g[i - 1])
  <2>1. CASE i = 0
    BY <1>7, <2>1
  <2>2. CASE i # 0
    <3>1. i \in 1..n /\ i - 1 \in 0..n
      BY <2>2
    <3>2. g[i - 1] \in V
      BY <3>1
    <3>3. QED BY <1>5, <1>7, <2>2, <3>1, <3>2
  <2>3. QED BY <2>1, <2>2
<1>9. g = [i \in 0..n |-> g[i]]
  OBVIOUS
<1>10. QED BY <1>1, <1>6, <1>8, <1>9 DEF IsMerged

\* What is to be flagged: lines and severities of a diagnostics, lines of b lenses.
Flagging(from, shown, a, ls, b) ==
  /\ a \in Nat /\ b \in Nat
  /\ from \in [1..a -> Nat] /\ shown \in [1..a -> 1..4] /\ ls \in [1..b -> Nat]
  /\ \A i, j \in 1..a : i < j => from[i] <= from[j]
  /\ \A i, j \in 1..b : i < j => ls[i] < ls[j]

\* Flags are those of what was taken ...
OfTaken(from, shown, ls, x, y, fs) ==
  \A k \in 1..Len(fs) :
    (\E i \in 1..x : fs[k] = <<from[i], shown[i]>>) \/ (\E j \in 1..y : fs[k] = <<ls[j], 0>>)

\* ... and of all of it, but the lenses of lines that have diagnostics, which have none.
AllTaken(from, shown, a, ls, x, y, fs) ==
  /\ \A i \in 1..x : \E k \in 1..Len(fs) : fs[k] = <<from[i], shown[i]>>
  /\ \A j \in 1..y : (\E i \in 1..a : from[i] = ls[j]) \/ \E k \in 1..Len(fs) : fs[k] = <<ls[j], 0>>
OneLens(from, a, fs) ==
  \A k \in 1..Len(fs) : fs[k][2] = 0 =>
    /\ \A i \in 1..a : from[i] # fs[k][1]
    /\ \A h \in 1..Len(fs) : fs[h] = fs[k] => h = k

\* Lenses that were not taken are below all diagnostics that were.
Below(from, ls, b, x, y) == \A i \in 1..x, j \in 1..b : j > y => from[i] < ls[j]

Flagged(from, shown, a, ls, b, x, y, fs) ==
  /\ OfTaken(from, shown, ls, x, y, fs) /\ AllTaken(from, shown, a, ls, x, y, fs)
  /\ OneLens(from, a, fs) /\ Below(from, ls, b, x, y)

LEMMA FlagLens ==
  ASSUME NEW from, NEW shown, NEW a, NEW ls, NEW b, Flagging(from, shown, a, ls, b),
         NEW x \in 0..a, NEW y \in 0..b, NEW fs \in Seq(Entries),
         Flagged(from, shown, a, ls, b, x, y, fs),
         y < b, x = a \/ from[x + 1] > ls[y + 1],
         NEW new, new = Append(fs, <<ls[y + 1], 0>>)
  PROVE  Flagged(from, shown, a, ls, b, x, y + 1, new)
<1>1. PICK n \in Nat : n = Len(fs)
  OBVIOUS
<1>2. PICK e : e = <<ls[y + 1], 0>>
  OBVIOUS
<1>3. y + 1 \in 1..b /\ e \in Entries /\ e[1] = ls[y + 1] /\ e[2] = 0
  BY <1>2 DEF Flagging, Entries
<1>4. Len(new) = n + 1 /\ new[n + 1] = e /\ \A k \in 1..n : new[k] = fs[k]
  BY <1>1, <1>2, <1>3
<1>5. \A k \in 1..n + 1 : k \in 1..n \/ k = n + 1
  OBVIOUS
<1>6. \A k \in 1..n : k \in 1..n + 1
  OBVIOUS
<1>7. \A j \in 1..y + 1 : j \in 1..y \/ j = y + 1
  OBVIOUS
<1>8. \A j \in 1..y : j \in 1..y + 1 /\ j \in 1..b
  BY DEF Flagging
<1>9. \A i \in 1..a : from[i] # ls[y + 1]
  <2> SUFFICES ASSUME NEW i \in 1..a PROVE from[i] # ls[y + 1]
    OBVIOUS
  <2>1. from[i] \in Nat /\ ls[y + 1] \in Nat /\ a \in Nat
    BY <1>3 DEF Flagging
  <2>2. CASE i <= x
    <3>1. i \in 1..x
      BY <2>2
    <3>2. from[i] < ls[y + 1]
      BY <1>3, <3>1 DEF Flagged, Below
    <3>3. QED BY <2>1, <3>2
  <2>3. CASE i > x
    <3>1. x + 1 \in 1..a /\ from[x + 1] > ls[y + 1] /\ x + 1 <= i
      BY <2>1, <2>3
    <3>2. from[x + 1] <= from[i]
      <4>1. \A h, k \in 1..a : h < k => from[h] <= from[k]
        BY DEF Flagging
      <4>2. i = x + 1 \/ x + 1 < i
        BY <2>1, <3>1
      <4>3. QED BY <2>1, <3>1, <4>1, <4>2
    <3>3. from[x + 1] \in Nat
      BY <3>1 DEF Flagging
    <3>4. QED BY <2>1, <3>1, <3>2, <3>3
  <2>4. QED BY <2>1, <2>2, <2>3 DEF Flagging
<1>10. \A k \in 1..n : fs[k] # e
  <2> SUFFICES ASSUME NEW k \in 1..n, fs[k] = e PROVE FALSE
    OBVIOUS
  <2>1. ASSUME NEW i \in 1..x, fs[k] = <<from[i], shown[i]>> PROVE FALSE
    <3>1. i \in 1..a
      BY DEF Flagging
    <3>2. shown[i] \in 1..4 /\ <<from[i], shown[i]>>[2] = shown[i]
      BY <3>1 DEF Flagging
    <3>3. QED BY <1>3, <2>1, <3>2
  <2>2. ASSUME NEW j \in 1..y, fs[k] = <<ls[j], 0>> PROVE FALSE
    <3>1. j \in 1..b /\ j < y + 1
      BY DEF Flagging
    <3>2. ls[j] < ls[y + 1] /\ ls[j] \in Nat /\ ls[y + 1] \in Nat
      BY <1>3, <3>1 DEF Flagging
    <3>3. <<ls[j], 0>>[1] = ls[j]
      OBVIOUS
    <3>4. QED BY <1>3, <2>2, <3>2, <3>3
  <2>3. QED BY <1>1, <2>1, <2>2 DEF Flagged, OfTaken
<1>11. OfTaken(from, shown, ls, x, y + 1, new)
  <2> SUFFICES ASSUME NEW k \in 1..n + 1
               PROVE  \/ \E i \in 1..x : new[k] = <<from[i], shown[i]>>
                      \/ \E j \in 1..y + 1 : new[k] = <<ls[j], 0>>
    BY <1>4 DEF OfTaken
  <2>1. CASE k \in 1..n
    <3>1. (\E i \in 1..x : fs[k] = <<from[i], shown[i]>>) \/ (\E j \in 1..y : fs[k] = <<ls[j], 0>>)
      BY <1>1, <2>1 DEF Flagged, OfTaken
    <3>2. QED BY <1>4, <1>8, <2>1, <3>1
  <2>2. CASE k = n + 1
    <3>1. new[k] = <<ls[y + 1], 0>> /\ y + 1 \in 1..y + 1
      BY <1>2, <1>4, <2>2
    <3>2. QED BY <3>1
  <2>3. QED BY <1>5, <2>1, <2>2
<1>12. AllTaken(from, shown, a, ls, x, y + 1, new)
  <2>1. ASSUME NEW i \in 1..x PROVE \E k \in 1..n + 1 : new[k] = <<from[i], shown[i]>>
    <3>1. PICK k \in 1..n : fs[k] = <<from[i], shown[i]>>
      BY <1>1 DEF Flagged, AllTaken
    <3>2. QED BY <1>4, <1>6, <3>1
  <2>2. ASSUME NEW j \in 1..y + 1
        PROVE  (\E i \in 1..a : from[i] = ls[j]) \/ \E k \in 1..n + 1 : new[k] = <<ls[j], 0>>
    <3>1. CASE j = y + 1
      <4>1. n + 1 \in 1..n + 1 /\ new[n + 1] = <<ls[j], 0>>
        BY <1>2, <1>4, <3>1
      <4>2. QED BY <4>1
    <3>2. CASE j \in 1..y
      <4>1. (\E i \in 1..a : from[i] = ls[j]) \/ \E k \in 1..n : fs[k] = <<ls[j], 0>>
        BY <1>1, <3>2 DEF Flagged, AllTaken
      <4>2. QED BY <1>4, <1>6, <4>1
    <3>3. QED BY <1>7, <3>1, <3>2
  <2>3. QED BY <1>4, <2>1, <2>2 DEF AllTaken
<1>13. OneLens(from, a, new)
  <2> SUFFICES ASSUME NEW k \in 1..n + 1, new[k][2] = 0
               PROVE  /\ \A i \in 1..a : from[i] # new[k][1]
                      /\ \A h \in 1..n + 1 : new[h] = new[k] => h = k
    BY <1>4 DEF OneLens
  <2>1. CASE k \in 1..n
    <3>1. /\ \A i \in 1..a : from[i] # fs[k][1]
          /\ \A h \in 1..n : fs[h] = fs[k] => h = k
      BY <1>1, <1>4, <2>1 DEF Flagged, OneLens
    <3>2. QED BY <1>4, <1>5, <1>10, <2>1, <3>1
  <2>2. CASE k = n + 1
    BY <1>3, <1>4, <1>5, <1>9, <1>10, <2>2
  <2>3. QED BY <1>5, <2>1, <2>2
<1>14. Below(from, ls, b, x, y + 1)
  <2>1. \A j \in 1..b : j > y + 1 => j > y
    BY DEF Flagging
  <2>2. QED BY <2>1 DEF Flagged, Below
<1>15. QED BY <1>11, <1>12, <1>13, <1>14 DEF Flagged

LEMMA FlagDiagnostic ==
  ASSUME NEW from, NEW shown, NEW a, NEW ls, NEW b, Flagging(from, shown, a, ls, b),
         NEW x \in 0..a, NEW y \in 0..b, NEW fs \in Seq(Entries),
         Flagged(from, shown, a, ls, b, x, y, fs),
         x < a, NEW skip \in 0..1, y + skip \in 0..b,
         skip = 1 => from[x + 1] = ls[y + 1],
         skip = 0 => y = b \/ from[x + 1] < ls[y + 1],
         NEW new, new = Append(fs, <<from[x + 1], shown[x + 1]>>)
  PROVE  Flagged(from, shown, a, ls, b, x + 1, y + skip, new)
<1>1. PICK n \in Nat : n = Len(fs)
  OBVIOUS
<1>2. PICK e : e = <<from[x + 1], shown[x + 1]>>
  OBVIOUS
<1>3. x + 1 \in 1..a /\ e \in Entries /\ e[1] = from[x + 1] /\ e[2] \in 1..4
  <2>1. x + 1 \in 1..a
    BY DEF Flagging
  <2>2. from[x + 1] \in Nat /\ shown[x + 1] \in 1..4
    BY <2>1 DEF Flagging
  <2>3. QED BY <1>2, <2>1, <2>2 DEF Entries
<1>4. Len(new) = n + 1 /\ new[n + 1] = e /\ \A k \in 1..n : new[k] = fs[k]
  BY <1>1, <1>2, <1>3
<1>5. \A k \in 1..n + 1 : k \in 1..n \/ k = n + 1
  OBVIOUS
<1>6. \A k \in 1..n : k \in 1..n + 1
  OBVIOUS
<1>7. \A j \in 1..y + skip : j \in 1..y \/ (skip = 1 /\ j = y + 1)
  OBVIOUS
<1>8. \A i \in 1..x + 1 : i \in 1..x \/ i = x + 1
  OBVIOUS
<1>9. (\A i \in 1..x : i \in 1..x + 1) /\ (\A j \in 1..y : j \in 1..y + skip)
  OBVIOUS
<1>10. OfTaken(from, shown, ls, x + 1, y + skip, new)
  <2> SUFFICES ASSUME NEW k \in 1..n + 1
               PROVE  \/ \E i \in 1..x + 1 : new[k] = <<from[i], shown[i]>>
                      \/ \E j \in 1..y + skip : new[k] = <<ls[j], 0>>
    BY <1>4 DEF OfTaken
  <2>1. CASE k \in 1..n
    <3>1. (\E i \in 1..x : fs[k] = <<from[i], shown[i]>>) \/ (\E j \in 1..y : fs[k] = <<ls[j], 0>>)
      BY <1>1, <2>1 DEF Flagged, OfTaken
    <3>2. QED BY <1>4, <1>9, <2>1, <3>1
  <2>2. CASE k = n + 1
    <3>1. new[k] = <<from[x + 1], shown[x + 1]>> /\ x + 1 \in 1..x + 1
      BY <1>2, <1>4, <2>2
    <3>2. QED BY <3>1
  <2>3. QED BY <1>5, <2>1, <2>2
<1>11. AllTaken(from, shown, a, ls, x + 1, y + skip, new)
  <2>1. ASSUME NEW i \in 1..x + 1 PROVE \E k \in 1..n + 1 : new[k] = <<from[i], shown[i]>>
    <3>1. CASE i = x + 1
      <4>1. n + 1 \in 1..n + 1 /\ new[n + 1] = <<from[i], shown[i]>>
        BY <1>2, <1>4, <3>1
      <4>2. QED BY <4>1
    <3>2. CASE i \in 1..x
      <4>1. PICK k \in 1..n : fs[k] = <<from[i], shown[i]>>
        BY <1>1, <3>2 DEF Flagged, AllTaken
      <4>2. QED BY <1>4, <1>6, <4>1
    <3>3. QED BY <1>8, <3>1, <3>2
  <2>2. ASSUME NEW j \in 1..y + skip
        PROVE  (\E i \in 1..a : from[i] = ls[j]) \/ \E k \in 1..n + 1 : new[k] = <<ls[j], 0>>
    <3>1. CASE skip = 1 /\ j = y + 1
      BY <1>3, <3>1
    <3>2. CASE j \in 1..y
      <4>1. (\E i \in 1..a : from[i] = ls[j]) \/ \E k \in 1..n : fs[k] = <<ls[j], 0>>
        BY <1>1, <3>2 DEF Flagged, AllTaken
      <4>2. QED BY <1>4, <1>6, <4>1
    <3>3. QED BY <1>7, <3>1, <3>2
  <2>3. QED BY <1>4, <2>1, <2>2 DEF AllTaken
<1>12. OneLens(from, a, new)
  <2> SUFFICES ASSUME NEW k \in 1..n + 1, new[k][2] = 0
               PROVE  /\ \A i \in 1..a : from[i] # new[k][1]
                      /\ \A h \in 1..n + 1 : new[h] = new[k] => h = k
    BY <1>4 DEF OneLens
  <2>1. k \in 1..n
    BY <1>3, <1>4, <1>5
  <2>2. /\ \A i \in 1..a : from[i] # fs[k][1]
        /\ \A h \in 1..n : fs[h] = fs[k] => h = k
    BY <1>1, <1>4, <2>1 DEF Flagged, OneLens
  <2>3. new[n + 1] # new[k]
    BY <1>3, <1>4
  <2>4. QED BY <1>4, <1>5, <2>1, <2>2, <2>3
<1>13. Below(from, ls, b, x + 1, y + skip)
  <2> SUFFICES ASSUME NEW i \in 1..x + 1, NEW j \in 1..b, j > y + skip PROVE from[i] < ls[j]
    BY DEF Below
  <2>1. CASE i \in 1..x
    <3>1. j > y
      BY DEF Flagging
    <3>2. QED BY <2>1, <3>1 DEF Flagged, Below
  <2>2. CASE i = x + 1
    <3>1. from[i] \in Nat /\ ls[j] \in Nat /\ y + 1 \in 1..b /\ y \in Nat /\ j \in Nat
      <4>1. i \in 1..a /\ from \in [1..a -> Nat] /\ ls \in [1..b -> Nat]
        BY <1>3, <2>2 DEF Flagging
      <4>2. from[i] \in Nat /\ ls[j] \in Nat
        BY <4>1
      <4>3. y + 1 \in 1..b /\ y \in Nat /\ j \in Nat
        BY <1>3 DEF Flagging
      <4>4. QED BY <4>2, <4>3
    <3>2. ls[y + 1] \in Nat
      BY <3>1 DEF Flagging
    <3>3. CASE skip = 1
      <4>1. j > y + 1
        BY <3>3
      <4>2. ls[y + 1] < ls[j]
        BY <3>1, <4>1 DEF Flagging
      <4>3. QED BY <2>2, <3>3, <4>2
    <3>4. CASE skip = 0
      <4>1. from[i] < ls[y + 1]
        BY <2>2, <3>1, <3>4
      <4>2. ls[y + 1] <= ls[j]
        <5>1. CASE j = y + 1
          BY <3>1, <5>1
        <5>2. CASE j > y + 1
          <6>1. ls[y + 1] < ls[j]
            BY <3>1, <5>2 DEF Flagging
          <6>2. QED BY <3>1, <3>2, <6>1
        <5>3. QED BY <3>1, <3>4, <5>1, <5>2
      <4>3. QED BY <3>1, <3>2, <4>1, <4>2
    <3>5. QED BY <3>3, <3>4
  <2>3. QED BY <1>8, <2>1, <2>2
<1>14. QED BY <1>10, <1>11, <1>12, <1>13 DEF Flagged

Froms(ds) == [i \in 1..Len(ds) |-> Diagnostic!From(ds[i])]
Showns(ds) == [i \in 1..Len(ds) |-> Diagnostic!Shown(Diagnostic!Severity(ds[i]))]

LEMMA ToBeFlagged ==
  ASSUME NEW S, NEW ds \in Seq(S \X Report), NEW ls \in Seq(Nat), InLineOrder(ds), Increasing(ls)
  PROVE  Flagging(Froms(ds), Showns(ds), Len(ds), ls, Len(ls))
<1>1. PICK a, b \in Nat : a = Len(ds) /\ b = Len(ls)
  OBVIOUS
<1>2. ASSUME NEW i \in 1..a
      PROVE  Diagnostic!From(ds[i]) \in Nat /\ Diagnostic!Shown(Diagnostic!Severity(ds[i])) \in 1..4
  <2>1. ds[i] \in S \X Report
    BY <1>1
  <2>2. QED BY <2>1, EntryTyped
<1>3. Froms(ds) \in [1..a -> Nat] /\ Showns(ds) \in [1..a -> 1..4]
  BY <1>1, <1>2 DEF Froms, Showns
<1>4. \A i \in 1..a : Froms(ds)[i] = Diagnostic!From(ds[i])
  BY <1>1 DEF Froms
<1>5. \A i, j \in 1..a : i < j => Froms(ds)[i] <= Froms(ds)[j]
  BY <1>1, <1>4 DEF InLineOrder
<1>6. ls \in [1..b -> Nat] /\ \A i, j \in 1..b : i < j => ls[i] < ls[j]
  BY <1>1 DEF Increasing
<1>7. QED BY <1>1, <1>3, <1>5, <1>6 DEF Flagging

\* What was taken is flagged.
RightSoFar(ds, ls, st) ==
  /\ st \in Merging(Len(ds), Len(ls))
  /\ Flagged(Froms(ds), Showns(ds), Len(ds), ls, Len(ls), st.ds, st.ls, st.flags)

Proceeds(ds, ls, st, next) ==
  next.ds + next.ls > st.ds + st.ls \/ (next.ds = Len(ds) /\ next.ls = Len(ls))

\* One step of the loop takes one of them, if there are any, and keeps the flags right.
LEMMA FlagStep ==
  ASSUME NEW S, NEW ds \in Seq(S \X Report), NEW ls \in Seq(Nat), InLineOrder(ds), Increasing(ls),
         NEW st, RightSoFar(ds, ls, st)
  PROVE  /\ RightSoFar(ds, ls, Diagnostic!Flag(ds, ls, st))
         /\ Proceeds(ds, ls, st, Diagnostic!Flag(ds, ls, st))
<1>1. PICK a, b \in Nat : a = Len(ds) /\ b = Len(ls)
  OBVIOUS
<1>2. PICK next : next = Diagnostic!Flag(ds, ls, st)
  OBVIOUS
<1>3. /\ st \in Merging(a, b)
      /\ Flagged(Froms(ds), Showns(ds), a, ls, b, st.ds, st.ls, st.flags)
  BY <1>1 DEF RightSoFar
<1> SUFFICES /\ next \in Merging(a, b)
             /\ Flagged(Froms(ds), Showns(ds), a, ls, b, next.ds, next.ls, next.flags)
             /\ next.ds + next.ls > st.ds + st.ls \/ (next.ds = a /\ next.ls = b)
  BY <1>1, <1>2 DEF RightSoFar, Proceeds
<1>4. next \in Merging(a, b)
  BY <1>1, <1>2, <1>3, FlagTyped
<1>5. PICK x, y, f : x = st.ds /\ y = st.ls /\ f = st.flags
  OBVIOUS
<1>6. x \in 0..a /\ y \in 0..b /\ f \in Seq(Entries)
  BY <1>5, <1>3 DEF Merging
<1>7. PICK from, shown : from = Froms(ds) /\ shown = Showns(ds)
  OBVIOUS
<1>8. Flagging(from, shown, a, ls, b)
  BY <1>7, <1>1, ToBeFlagged
<1>9. Flagged(from, shown, a, ls, b, x, y, f)
  BY <1>5, <1>7, <1>3
<1>10. \A i \in 1..a : from[i] = Diagnostic!From(ds[i])
                      /\ shown[i] = Diagnostic!Shown(Diagnostic!Severity(ds[i]))
  BY <1>7, <1>1 DEF Froms, Showns
<1>11. CASE TakesNone(a, b, st, next)
  BY <1>4, <1>11, <1>3 DEF TakesNone
<1>12. CASE TakesLens(ds, ls, a, b, st, next)
  <2>1. PICK new : new = Append(f, <<ls[y + 1], 0>>)
    OBVIOUS
  <2>2. y < b /\ (x = a \/ Diagnostic!From(ds[x + 1]) > ls[y + 1])
        /\ next.ds = x /\ next.ls = y + 1 /\ next.flags = new
    BY <1>5, <1>12, <2>1 DEF TakesLens, Diagnostic!Taken, LensFlag, Diagnostic!Lens
  <2>3. x = a \/ from[x + 1] > ls[y + 1]
    <3>1. x # a => x + 1 \in 1..a
      BY <1>6
    <3>2. QED BY <1>10, <2>2, <3>1
  <2>4. Flagged(from, shown, a, ls, b, x, y + 1, new)
    BY <1>6, <1>8, <1>9, <2>1, <2>2, <2>3, FlagLens
  <2>5. x + (y + 1) > x + y
    BY <1>6
  <2>6. QED BY <1>4, <1>5, <1>7, <2>2, <2>4, <2>5
<1>13. ASSUME NEW skip \in 0..1, TakesDiagnostic(ds, ls, a, b, st, next, skip)
       PROVE  /\ Flagged(from, shown, a, ls, b, next.ds, next.ls, next.flags)
              /\ next.ds + next.ls > x + y
  <2>1. x < a /\ y + skip \in 0..b
        /\ next = Diagnostic!Taken(x + 1, y + skip, Append(f, DiagnosticFlag(ds[x + 1])))
        /\ (skip = 1 => Diagnostic!From(ds[x + 1]) = ls[y + 1])
        /\ (skip = 0 => y = b \/ Diagnostic!From(ds[x + 1]) < ls[y + 1])
    BY <1>5, <1>13 DEF TakesDiagnostic
  <2>2. PICK new : new = Append(f, <<from[x + 1], shown[x + 1]>>)
    OBVIOUS
  <2>3. x + 1 \in 1..a
    BY <1>6, <2>1
  <2>4. from[x + 1] = Diagnostic!From(ds[x + 1]) /\ DiagnosticFlag(ds[x + 1]) = <<from[x + 1], shown[x + 1]>>
    BY <1>10, <2>3 DEF DiagnosticFlag
  <2>5. next.ds = x + 1 /\ next.ls = y + skip /\ next.flags = new
    BY <2>1, <2>2, <2>4 DEF Diagnostic!Taken
  <2>6. (skip = 1 => from[x + 1] = ls[y + 1]) /\ (skip = 0 => y = b \/ from[x + 1] < ls[y + 1])
    BY <2>1, <2>4
  <2>7. Flagged(from, shown, a, ls, b, x + 1, y + skip, new)
    BY <1>6, <1>8, <1>9, <2>1, <2>2, <2>6, FlagDiagnostic
  <2>8. (x + 1) + (y + skip) > x + y
    BY <1>6
  <2>9. QED BY <2>5, <2>7, <2>8
<1>14. \/ TakesNone(a, b, st, next)
       \/ TakesLens(ds, ls, a, b, st, next)
       \/ \E skip \in 0..1 : TakesDiagnostic(ds, ls, a, b, st, next, skip)
  BY <1>1, <1>2, <1>3, FlagCases
<1>15. QED BY <1>4, <1>5, <1>7, <1>11, <1>12, <1>13, <1>14

LEMMA AllFlagged ==
  ASSUME NEW S, NEW ds \in Seq(S \X Report), NEW ls \in Seq(Nat), InLineOrder(ds), Increasing(ls)
  PROVE  /\ Diagnostic!GatherLineFlags(ds, ls) \in Seq(Entries)
         /\ Flagged(Froms(ds), Showns(ds), Len(ds), ls, Len(ls), Len(ds), Len(ls),
                    Diagnostic!GatherLineFlags(ds, ls))
<1>1. PICK a, b \in Nat : a = Len(ds) /\ b = Len(ls)
  OBVIOUS
<1> DEFINE c == CHOOSE g : IsMerged(g, ds, ls)
<1>2. Diagnostic!GatherLineFlags(ds, ls) = c[a + b].flags
  BY <1>1 DEF Diagnostic!GatherLineFlags, IsMerged
<1>3. IsMerged(c, ds, ls)
  BY MergedExists
<1> HIDE DEF c
<1> DEFINE
  Good(m) == RightSoFar(ds, ls, c[m]) /\ (c[m].ds + c[m].ls >= m \/ (c[m].ds = a /\ c[m].ls = b))
  G == {m \in Nat : m <= a + b => Good(m)}
<1>4. 0 \in G
  <2>1. c[0] = Diagnostic!Taken(0, 0, <<>>)
    BY <1>1, <1>3 DEF IsMerged
  <2>2. c[0].ds = 0 /\ c[0].ls = 0 /\ c[0].flags = <<>>
    BY <2>1 DEF Diagnostic!Taken
  <2>3. c[0] \in Merging(a, b)
    <3>1. 0 \in 0..a /\ 0 \in 0..b /\ <<>> \in Seq(Entries)
      OBVIOUS
    <3>2. QED BY <2>1, <3>1 DEF Merging, Diagnostic!Taken
  <2>4. Flagged(Froms(ds), Showns(ds), a, ls, b, 0, 0, <<>>)
    BY DEF Flagged, OfTaken, AllTaken, OneLens, Below
  <2>5. QED BY <1>1, <2>2, <2>3, <2>4 DEF RightSoFar
<1>5. ASSUME NEW m \in Nat, m \in G PROVE m + 1 \in G
  <2> SUFFICES ASSUME m + 1 <= a + b PROVE Good(m + 1)
    OBVIOUS
  <2>1. m + 1 \in 0..a + b /\ m + 1 # 0 /\ (m + 1) - 1 = m
    OBVIOUS
  <2>2. PICK st : st = c[m]
    OBVIOUS
  <2>3. PICK next : next = c[m + 1]
    OBVIOUS
  <2>4. next = Diagnostic!Flag(ds, ls, st)
    BY <1>1, <1>3, <2>1, <2>2, <2>3 DEF IsMerged
  <2>5. RightSoFar(ds, ls, st) /\ (st.ds + st.ls >= m \/ (st.ds = a /\ st.ls = b))
    BY <1>5, <2>2
  <2>6. RightSoFar(ds, ls, next) /\ Proceeds(ds, ls, st, next)
    BY <2>4, <2>5, FlagStep
  <2>7. st.ds \in 0..a /\ st.ls \in 0..b /\ next.ds \in 0..a /\ next.ls \in 0..b
    BY <1>1, <2>5, <2>6 DEF Merging, RightSoFar
  <2>8. next.ds + next.ls >= m + 1 \/ (next.ds = a /\ next.ls = b)
    BY <1>1, <2>5, <2>6, <2>7 DEF Proceeds
  <2>9. QED BY <2>3, <2>6, <2>8
<1>6. Good(a + b)
  <2> HIDE DEF G
  <2>1. Nat \subseteq G
    BY <1>4, <1>5, Induction
  <2>2. a + b \in Nat /\ a + b <= a + b
    OBVIOUS
  <2>3. a + b \in G
    BY <2>1, <2>2
  <2>4. QED BY <2>2, <2>3 DEF G
<1>7. PICK st : st = c[a + b]
  OBVIOUS
<1>8. /\ st \in Merging(a, b)
      /\ Flagged(Froms(ds), Showns(ds), a, ls, b, st.ds, st.ls, st.flags)
      /\ st.ds + st.ls >= a + b \/ (st.ds = a /\ st.ls = b)
  BY <1>1, <1>6, <1>7 DEF RightSoFar
<1>9. st.ds = a /\ st.ls = b /\ st.flags \in Seq(Entries)
  <2>1. st.ds \in 0..a /\ st.ls \in 0..b /\ st.flags \in Seq(Entries)
    BY <1>8 DEF Merging
  <2>2. QED BY <1>8, <2>1
<1>10. QED BY <1>1, <1>2, <1>7, <1>8, <1>9

\* The flags of a line.
Tells(from, shown, a, ls, b, fs, line, flags) ==
  /\ (\E i \in 1..a : from[i] = line) =>
       /\ flags # {}
       /\ \A k \in flags : \E i \in 1..a : from[i] = line /\ fs[k][2] = shown[i]
  /\ (\A i \in 1..a : from[i] # line) /\ (\E j \in 1..b : ls[j] = line) =>
       \E k \in flags : flags = {k} /\ fs[k][2] = 0
  /\ (\A i \in 1..a : from[i] # line) /\ (\A j \in 1..b : ls[j] # line) => flags = {}

LEMMA FlagsTell ==
  ASSUME NEW from, NEW shown, NEW a, NEW ls, NEW b, Flagging(from, shown, a, ls, b),
         NEW fs \in Seq(Entries), Flagged(from, shown, a, ls, b, a, b, fs), NEW line,
         NEW flags, flags = {k \in 1..Len(fs) : fs[k][1] = line}
  PROVE  Tells(from, shown, a, ls, b, fs, line, flags)
<1>1. PICK n \in Nat : n = Len(fs)
  OBVIOUS
<1>2. ASSUME NEW k \in 1..n
      PROVE  \/ \E i \in 1..a : fs[k][1] = from[i] /\ fs[k][2] = shown[i]
             \/ \E j \in 1..b : fs[k] = <<ls[j], 0>> /\ fs[k][1] = ls[j] /\ fs[k][2] = 0
  <2>1. (\E i \in 1..a : fs[k] = <<from[i], shown[i]>>) \/ (\E j \in 1..b : fs[k] = <<ls[j], 0>>)
    BY <1>1 DEF Flagged, OfTaken
  <2>2. ASSUME NEW i \in 1..a, fs[k] = <<from[i], shown[i]>>
        PROVE  fs[k][1] = from[i] /\ fs[k][2] = shown[i]
    <3>1. <<from[i], shown[i]>>[1] = from[i] /\ <<from[i], shown[i]>>[2] = shown[i]
      OBVIOUS
    <3>2. QED BY <2>2, <3>1
  <2>3. ASSUME NEW j \in 1..b, fs[k] = <<ls[j], 0>>
        PROVE  fs[k][1] = ls[j] /\ fs[k][2] = 0
    <3>1. <<ls[j], 0>>[1] = ls[j] /\ <<ls[j], 0>>[2] = 0
      OBVIOUS
    <3>2. QED BY <2>3, <3>1
  <2>4. QED BY <2>1, <2>2, <2>3
<1>3. ASSUME NEW k \in 1..n, fs[k][2] = 0
      PROVE  /\ \A i \in 1..a : from[i] # fs[k][1]
             /\ \A h \in 1..n : fs[h] = fs[k] => h = k
  BY <1>1, <1>3 DEF Flagged, OneLens
<1>4. ASSUME NEW i \in 1..a, from[i] = line PROVE flags # {}
  <2>1. PICK k \in 1..n : fs[k] = <<from[i], shown[i]>>
    BY <1>1 DEF Flagged, AllTaken
  <2>2. <<from[i], shown[i]>>[1] = from[i]
    OBVIOUS
  <2>3. k \in flags
    BY <1>1, <1>4, <2>1, <2>2
  <2>4. QED BY <2>3
<1>5. ASSUME NEW i \in 1..a, from[i] = line, NEW k \in flags
      PROVE  \E h \in 1..a : from[h] = line /\ fs[k][2] = shown[h]
  <2>1. k \in 1..n /\ fs[k][1] = line
    BY <1>1
  <2>2. CASE \E h \in 1..a : fs[k][1] = from[h] /\ fs[k][2] = shown[h]
    BY <2>1, <2>2
  <2>3. CASE fs[k][2] = 0
    BY <1>3, <1>5, <2>1, <2>3
  <2>4. QED BY <1>2, <2>1, <2>2, <2>3
<1>6. ASSUME \A i \in 1..a : from[i] # line, NEW k \in flags
      PROVE  \E j \in 1..b : ls[j] = line /\ fs[k] = <<line, 0>> /\ fs[k][2] = 0
  BY <1>1, <1>2, <1>6
<1>7. ASSUME \A i \in 1..a : from[i] # line, NEW j \in 1..b, ls[j] = line
      PROVE  \E k \in flags : flags = {k} /\ fs[k][2] = 0
  <2>1. PICK k \in 1..n : fs[k] = <<ls[j], 0>>
    BY <1>1, <1>7 DEF Flagged, AllTaken
  <2>2. <<ls[j], 0>>[1] = ls[j] /\ <<ls[j], 0>>[2] = 0
    OBVIOUS
  <2>3. k \in flags /\ fs[k][2] = 0
    BY <1>1, <1>7, <2>1, <2>2
  <2>4. ASSUME NEW h \in flags PROVE h = k
    <3>1. fs[h] = <<line, 0>> /\ fs[k] = <<line, 0>> /\ h \in 1..n
      BY <1>1, <1>6, <1>7, <2>3
    <3>2. QED BY <1>3, <2>1, <2>3, <3>1
  <2>5. QED BY <2>3, <2>4
<1>8. QED BY <1>4, <1>5, <1>6, <1>7 DEF Tells

-----------------------------------------------------------------------------
(***************************************************************************)
(* What is kept of all servers is what they published, one to one.         *)
(***************************************************************************)

AllOf(L) == UNION {{<<s, L[s][i], i>> : i \in 1..Len(L[s])} : s \in Servers}

Matched(B, q, A) ==
  /\ B \in [1..Len(q) -> A]
  /\ \A i, j \in 1..Len(q) : B[i] = B[j] => i = j
  /\ \A d \in A : \E i \in 1..Len(q) : B[i] = d
  /\ \A i \in 1..Len(q) : B[i][1] = q[i][1] /\ B[i][2] = q[i][2]

LEMMA AllMatched ==
  ASSUME NEW ds \in Seq(Servers \X Report), NEW L,
         \A s \in Servers : \E f : Corresponds(f, ds, s, L[s])
  PROVE  \E B : Matched(B, ds, AllOf(L))
<1>1. PICK n \in Nat : n = Len(ds)
  OBVIOUS
<1> DEFINE F == [s \in Servers |-> CHOOSE f : Corresponds(f, ds, s, L[s])]
<1>2. \A s \in Servers : Corresponds(F[s], ds, s, L[s])
  OBVIOUS
<1> HIDE DEF F
<1>3. ASSUME NEW i \in 1..n
      PROVE  /\ ds[i][1] \in Servers
             /\ F[ds[i][1]][i] \in 1..Len(L[ds[i][1]])
             /\ ds[i][2] = L[ds[i][1]][F[ds[i][1]][i]]
  <2>1. PICK s : s = ds[i][1]
    OBVIOUS
  <2>2. ds[i] \in Servers \X Report
    BY <1>1
  <2>3. s \in Servers /\ i \in Of(ds, s)
    BY <1>1, <2>1, <2>2 DEF Of
  <2>4. F[s][i] \in 1..Len(L[s]) /\ ds[i] = <<s, L[s][F[s][i]]>>
    BY <1>2, <2>3 DEF Corresponds
  <2>5. <<s, L[s][F[s][i]]>>[2] = L[s][F[s][i]]
    OBVIOUS
  <2>6. QED BY <2>1, <2>3, <2>4, <2>5
<1> DEFINE B == [i \in 1..n |-> <<ds[i][1], ds[i][2], F[ds[i][1]][i]>>]
<1>4. ASSUME NEW i \in 1..n PROVE B[i] \in AllOf(L)
  <2>1. PICK s \in Servers : s = ds[i][1]
    BY <1>3
  <2>2. PICK k \in 1..Len(L[s]) : k = F[s][i]
    BY <1>3, <2>1
  <2>3. B[i] = <<s, L[s][k], k>>
    BY <1>3, <2>1, <2>2
  <2>4. QED BY <2>3 DEF AllOf
<1>5. B \in [1..n -> AllOf(L)]
  BY <1>4
<1>6. \A i \in 1..n : B[i] = <<ds[i][1], ds[i][2], F[ds[i][1]][i]>>
  OBVIOUS
<1> HIDE DEF B
<1>7. ASSUME NEW i \in 1..n
      PROVE  B[i][1] = ds[i][1] /\ B[i][2] = ds[i][2] /\ B[i][3] = F[ds[i][1]][i]
  <2>1. PICK x, y, z : x = ds[i][1] /\ y = ds[i][2] /\ z = F[ds[i][1]][i]
    OBVIOUS
  <2>2. B[i] = <<x, y, z>>
    BY <1>6, <2>1
  <2>3. QED BY <2>1, <2>2
<1>8. ASSUME NEW i \in 1..n, NEW j \in 1..n, B[i] = B[j] PROVE i = j
  <2>1. PICK s \in Servers : s = ds[i][1]
    BY <1>3
  <2>2. s = ds[j][1]
    BY <1>7, <1>8, <2>1
  <2>3. F[s][i] = F[s][j]
    BY <1>7, <1>8, <2>1, <2>2
  <2>4. i \in Of(ds, s) /\ j \in Of(ds, s)
    BY <1>1, <2>1, <2>2 DEF Of
  <2>5. QED BY <1>2, <2>3, <2>4 DEF Corresponds
<1>9. ASSUME NEW d \in AllOf(L) PROVE \E i \in 1..n : B[i] = d
  <2>1. PICK s \in Servers : \E k \in 1..Len(L[s]) : d = <<s, L[s][k], k>>
    BY DEF AllOf
  <2>2. PICK k \in 1..Len(L[s]) : d = <<s, L[s][k], k>>
    BY <2>1
  <2>3. PICK i \in Of(ds, s) : F[s][i] = k
    BY <1>2 DEF Corresponds
  <2>4. i \in 1..n /\ ds[i][1] = s
    BY <1>1 DEF Of
  <2>5. B[i] = <<s, ds[i][2], k>> /\ ds[i][2] = L[s][k]
    BY <1>3, <1>6, <2>3, <2>4
  <2>6. QED BY <2>2, <2>4, <2>5
<1>10. QED BY <1>1, <1>5, <1>7, <1>8, <1>9 DEF Matched

\* The same are selected by their place and as what they are.
Selects(I, D, q, B) == I \subseteq 1..Len(q) /\ \A i \in 1..Len(q) : i \in I <=> B[i] \in D

LEMMA Counted ==
  ASSUME NEW q, Len(q) \in Nat, NEW A, NEW B, Matched(B, q, A), NEW I, NEW D,
         D \subseteq A, Selects(I, D, q, B)
  PROVE  Cardinality(I) = Cardinality(D)
<1>0. I \subseteq 1..Len(q) /\ \A i \in 1..Len(q) : i \in I <=> B[i] \in D
  BY DEF Selects
<1> DEFINE f == [i \in I |-> B[i]]
<1>1. f \in [I -> D]
  BY <1>0
<1>2. \A i \in I : f[i] = B[i]
  OBVIOUS
<1> HIDE DEF f
<1>3. \A i, j \in I : f[i] = f[j] => i = j
  BY <1>0, <1>2 DEF Matched
<1>4. \A d \in D : \E i \in I : f[i] = d
  <2> SUFFICES ASSUME NEW d \in D PROVE \E i \in I : f[i] = d
    OBVIOUS
  <2>1. PICK i \in 1..Len(q) : B[i] = d
    BY DEF Matched
  <2>2. QED BY <1>0, <1>2, <2>1
<1>5. f \in Bijection(I, D)
  BY <1>1, <1>3, <1>4 DEF Bijection, Injection, Surjection, IsInjective
<1>6. IsFiniteSet(I)
  <2>1. IsFiniteSet(1..Len(q))
    BY FS_Interval
  <2>2. QED BY <1>0, <2>1, FS_Subset
<1>7. ExistsBijection(I, D)
  BY <1>5 DEF ExistsBijection
<1>8. QED BY <1>6, <1>7, FS_Bijection

\* An order in which they are painted.
LEMMA InlineMatched ==
  ASSUME NEW ds, Len(ds) \in Nat, NEW A, NEW B, Matched(B, ds, A),
         NEW inline \in Diagnostic!Inline(ds)
  PROVE  /\ Len(inline) = Len(ds)
         /\ \E C : Matched(C, inline, A)
         /\ \A i, j \in 1..Len(inline) :
              i < j => Diagnostic!Severity(inline[i]) >= Diagnostic!Severity(inline[j])
         /\ \A i \in 1..Len(inline) : \E k \in 1..Len(ds) : inline[i] = ds[k]
<1>1. PICK n \in Nat : n = Len(ds)
  OBVIOUS
<1>2. PICK o \in Diagnostic!Bijection(1..n, 1..n) :
        /\ \A i, j \in 1..n : i < j => Diagnostic!Severity(ds[o[i]]) >= Diagnostic!Severity(ds[o[j]])
        /\ inline = [i \in 1..n |-> ds[o[i]]]
  BY <1>1 DEF Diagnostic!Inline
<1>3. /\ o \in [1..n -> 1..n]
      /\ \A i, j \in 1..n : o[i] = o[j] => i = j
      /\ \A k \in 1..n : \E i \in 1..n : o[i] = k
  BY DEF Diagnostic!Bijection, Diagnostic!Injection, Diagnostic!Surjection, Diagnostic!IsInjective
<1>4. Len(inline) = n
  BY <1>2
<1>5. \A i \in 1..n : inline[i] = ds[o[i]] /\ o[i] \in 1..n
  BY <1>2, <1>3
<1>6. /\ B \in [1..n -> A] /\ \A i, j \in 1..n : B[i] = B[j] => i = j
      /\ \A d \in A : \E i \in 1..n : B[i] = d
      /\ \A i \in 1..n : B[i][1] = ds[i][1] /\ B[i][2] = ds[i][2]
  BY <1>1 DEF Matched
<1> DEFINE C == [i \in 1..n |-> B[o[i]]]
<1>7. C \in [1..n -> A]
  BY <1>5, <1>6
<1>8. \A i \in 1..n : C[i] = B[o[i]]
  OBVIOUS
<1> HIDE DEF C
<1>9. \A i, j \in 1..n : C[i] = C[j] => i = j
  BY <1>3, <1>5, <1>6, <1>8
<1>10. \A d \in A : \E i \in 1..n : C[i] = d
  <2> SUFFICES ASSUME NEW d \in A PROVE \E i \in 1..n : C[i] = d
    OBVIOUS
  <2>1. PICK k \in 1..n : B[k] = d
    BY <1>6
  <2>2. PICK i \in 1..n : o[i] = k
    BY <1>3
  <2>3. QED BY <1>8, <2>1, <2>2
<1>11. ASSUME NEW i \in 1..n PROVE C[i][1] = inline[i][1] /\ C[i][2] = inline[i][2]
  <2>1. PICK k \in 1..n : k = o[i]
    BY <1>5
  <2>2. C[i] = B[k] /\ inline[i] = ds[k]
    BY <1>5, <1>8, <2>1
  <2>3. QED BY <1>6, <2>2
<1>12. Matched(C, inline, A)
  BY <1>4, <1>7, <1>9, <1>10, <1>11 DEF Matched
<1>13. QED BY <1>1, <1>2, <1>4, <1>5, <1>12

LEMMA SameCardinality == ASSUME NEW S PROVE Diagnostic!Cardinality(S) = Cardinality(S)
BY DEF Diagnostic!Cardinality, Cardinality

-----------------------------------------------------------------------------
(***************************************************************************)
(* What is kept, and for which version it was published.                   *)
(***************************************************************************)

DiagTyped ==
  /\ versions \in Nat /\ document \in Nat /\ document <= versions
  /\ diagnostics \in Seq(Servers \X Report)
  /\ lenses \in Seq(Nat) /\ Increasing(lenses)
  /\ knows \in [Servers -> Nat] /\ \A s \in Servers : knows[s] <= versions
  /\ DOMAIN published \subseteq Servers
  /\ \A s \in DOMAIN published : published[s] \in Nat /\ published[s] <= versions
  /\ DOMAIN latest \subseteq Servers
  /\ \A s \in DOMAIN latest : latest[s] \in Seq(Report)

\* A server that published for the version at hand knows it, and publishes for no other.
UpToDate ==
  /\ \A s \in DOMAIN published : document # 0 /\ published[s] = document => knows[s] = document
  /\ \A s \in DOMAIN latest : /\ document # 0 /\ knows[s] = document
                              /\ s \in DOMAIN published => published[s] = document

KeptAsPublished ==
  \A s, q, ds : s \in DOMAIN latest /\ q = diagnostics /\ ds = latest[s] =>
    \E f : Corresponds(f, q, s, ds)

DiagInv == DiagTyped /\ UpToDate /\ KeptAsPublished

LEMMA DiagInit == Diagnostic!Init => DiagInv
<1> SUFFICES ASSUME Diagnostic!Init PROVE DiagInv
  OBVIOUS
<1>1. /\ document = 0 /\ versions = 0 /\ diagnostics = <<>> /\ lenses = <<>>
      /\ knows = [s \in Servers |-> 0] /\ published = <<>> /\ latest = <<>>
  BY DEF Diagnostic!Init
<1>2. DOMAIN published = {} /\ DOMAIN latest = {} /\ Len(lenses) = 0
  BY <1>1
<1>3. QED BY <1>1, <1>2 DEF DiagInv, DiagTyped, UpToDate, KeptAsPublished, Increasing

LEMMA VersionStep ==
  ASSUME DiagInv, Diagnostic!DidOpen \/ Diagnostic!DidChange \/ Diagnostic!DidClose
  PROVE  DiagInv'
<1>0. /\ versions \in Nat /\ document \in Nat /\ document <= versions
      /\ diagnostics \in Seq(Servers \X Report) /\ <<>> \in Seq(Servers \X Report)
  BY DEF DiagInv, DiagTyped
<1>1. /\ versions' \in Nat /\ document' \in Nat /\ document' <= versions' /\ versions <= versions'
      /\ document' = 0 \/ document' > versions
      /\ latest' = <<>>
      /\ UNCHANGED <<lenses, knows, published>>
      /\ diagnostics' \in Seq(Servers \X Report)
  <2>1. CASE Diagnostic!DidOpen
    BY <1>0, <2>1 DEF Diagnostic!DidOpen, Diagnostic!NewVersion
  <2>2. CASE Diagnostic!DidChange
    BY <1>0, <2>2 DEF Diagnostic!DidChange, Diagnostic!NewVersion
  <2>3. CASE Diagnostic!DidClose
    BY <1>0, <2>3 DEF Diagnostic!DidClose
  <2>4. QED BY <2>1, <2>2, <2>3
<1>2. DOMAIN latest' = {}
  BY <1>1
<1>3. \A s \in Servers : knows[s] \in Nat /\ knows[s] <= versions'
  BY <1>1 DEF DiagInv, DiagTyped
<1>4. \A s \in DOMAIN published : published[s] \in Nat /\ published[s] <= versions'
                                  /\ (document' = 0 \/ published[s] # document')
  BY <1>1 DEF DiagInv, DiagTyped
<1>5. DiagTyped'
  BY <1>1, <1>2, <1>3, <1>4 DEF DiagInv, DiagTyped
<1>6. UpToDate'
  BY <1>1, <1>2, <1>4 DEF UpToDate
<1>7. KeptAsPublished'
  BY <1>2 DEF KeptAsPublished
<1>8. QED BY <1>5, <1>6, <1>7 DEF DiagInv

LEMMA SeeStep ==
  ASSUME DiagInv, NEW s \in Servers, Diagnostic!See(s)
  PROVE  DiagInv'
<1>1. /\ knows[s] # document /\ knows' = [knows EXCEPT ![s] = document]
      /\ UNCHANGED <<document, versions, diagnostics, lenses, published, latest>>
  BY DEF Diagnostic!See
<1>2. knows' \in [Servers -> Nat] /\ \A t \in Servers : knows'[t] <= versions
  BY <1>1 DEF DiagInv, DiagTyped
<1>3. DiagTyped'
  BY <1>1, <1>2 DEF DiagInv, DiagTyped
<1>4. UpToDate'
  BY <1>1 DEF DiagInv, DiagTyped, UpToDate
<1>5. KeptAsPublished'
  BY <1>1 DEF DiagInv, KeptAsPublished
<1>6. QED BY <1>3, <1>4, <1>5 DEF DiagInv

LEMMA PublishStep ==
  ASSUME DiagInv, NEW s \in Servers, Diagnostic!Publish(s)
  PROVE  DiagInv'
<1>1. /\ s \notin DOMAIN published
      /\ published' = [t \in DOMAIN published \cup {s} |-> IF t = s THEN knows[s] ELSE published[t]]
      /\ UNCHANGED <<document, versions, diagnostics, lenses, knows, latest>>
  BY DEF Diagnostic!Publish
<1>2. /\ DOMAIN published' = DOMAIN published \cup {s}
      /\ published'[s] = knows[s]
      /\ \A t \in DOMAIN published : published'[t] = published[t]
  BY <1>1
<1>3. DiagTyped'
  BY <1>1, <1>2 DEF DiagInv, DiagTyped
<1>4. UpToDate'
  BY <1>1, <1>2 DEF DiagInv, DiagTyped, UpToDate
<1>5. KeptAsPublished'
  BY <1>1 DEF DiagInv, KeptAsPublished
<1>6. QED BY <1>3, <1>4, <1>5 DEF DiagInv

LEMMA PublishDiagnosticsStep ==
  ASSUME DiagInv, NEW s \in Servers, NEW ds \in Seq(Report), Diagnostic!PublishDiagnostics(s, ds)
  PROVE  DiagInv'
<1>1. PICK q : q = diagnostics
  OBVIOUS
<1>2. PICK new : new = diagnostics'
  OBVIOUS
<1>3. /\ s \in DOMAIN published
      /\ new = Diagnostic!KeptOfOthers(s) \o [i \in 1..Len(ds) |-> <<s, ds[i]>>]
      /\ latest' = IF document # 0 /\ published[s] = document
                   THEN [t \in DOMAIN latest \cup {s} |-> IF t = s THEN ds ELSE latest[t]] ELSE latest
      /\ published' = [t \in DOMAIN published \ {s} |-> published[t]]
      /\ UNCHANGED <<document, versions, lenses, knows>>
  BY <1>2 DEF Diagnostic!PublishDiagnostics
<1>4. /\ DOMAIN published' = DOMAIN published \ {s}
      /\ \A t \in DOMAIN published' : published'[t] = published[t]
  BY <1>3
<1>5. PICK kept : kept = Diagnostic!KeptOfOthers(s)
  OBVIOUS
<1>6. q \in Seq(Servers \X Report)
  BY <1>1 DEF DiagInv, DiagTyped
<1>7. PICK r : kept \in Seq(Servers \X Report) /\ Keeps(r, kept, q, Len(q), s)
  <2>1. diagnostics \in Seq(Servers \X Report)
    BY <1>1, <1>6
  <2>2. QED BY <1>1, <1>5, <2>1, KeptOfOthersIs
<1>8. PICK e : e = PublishedOf(s, ds)
  OBVIOUS
<1>9. new = kept \o PublishedOf(s, ds)
  BY <1>3, <1>5 DEF PublishedOf
<1>10. /\ \E f : Corresponds(f, new, s, ds)
      /\ \A t, d : t # s /\ (\E f : Corresponds(f, q, t, d)) => \E f : Corresponds(f, new, t, d)
  <2>1. Replaces(new, q, s, ds)
    BY <1>7, <1>9, NewEntries
  <2>2. QED BY <2>1 DEF Replaces
<1>11. new \in Seq(Servers \X Report)
  <2>1. \A i \in 1..Len(ds) : <<s, ds[i]>> \in Servers \X Report
    OBVIOUS
  <2>2. e \in Seq(Servers \X Report)
    BY <1>8, <2>1 DEF PublishedOf
  <2>3. QED BY <1>7, <1>8, <1>9, <2>2, ConcatProperties
<1>12. /\ DOMAIN latest' \subseteq DOMAIN latest \cup {s}
       /\ \A t \in DOMAIN latest' : t # s => t \in DOMAIN latest /\ latest'[t] = latest[t]
       /\ s \in DOMAIN latest' => latest'[s] = ds /\ document # 0 /\ knows[s] = document
  <2>1. CASE document # 0 /\ published[s] = document
    <3>1. latest' = [t \in DOMAIN latest \cup {s} |-> IF t = s THEN ds ELSE latest[t]]
      BY <1>3, <2>1
    <3>2. knows[s] = document
      BY <1>3, <2>1 DEF DiagInv, UpToDate
    <3>3. QED BY <2>1, <3>1, <3>2
  <2>2. CASE ~(document # 0 /\ published[s] = document)
    <3>1. latest' = latest
      BY <1>3, <2>2
    <3>2. s \notin DOMAIN latest
      BY <1>3, <2>2 DEF DiagInv, UpToDate
    <3>3. QED BY <3>1, <3>2
  <2>3. QED BY <2>1, <2>2
<1>13. DiagTyped'
  BY <1>2, <1>3, <1>4, <1>11, <1>12 DEF DiagInv, DiagTyped
<1>14. UpToDate'
  BY <1>3, <1>4, <1>12 DEF DiagInv, UpToDate
<1>15. KeptAsPublished'
  <2> SUFFICES ASSUME NEW t \in DOMAIN latest' PROVE \E f : Corresponds(f, new, t, latest'[t])
    BY <1>2 DEF KeptAsPublished
  <2>1. CASE t = s
    BY <1>10, <1>12, <2>1
  <2>2. CASE t # s
    <3>1. t \in DOMAIN latest /\ latest'[t] = latest[t]
      BY <1>12, <2>2
    <3>2. PICK d : d = latest[t]
      OBVIOUS
    <3>3. \E f : Corresponds(f, q, t, d)
      BY <1>1, <3>1, <3>2 DEF DiagInv, KeptAsPublished
    <3>4. QED BY <1>10, <2>2, <3>1, <3>2, <3>3
  <2>3. QED BY <2>1, <2>2
<1>16. QED BY <1>13, <1>14, <1>15 DEF DiagInv

LEMMA LensesStep ==
  ASSUME DiagInv, NEW lines \in LensLines, NEW ls \in Diagnostic!Sorted(lines),
         Diagnostic!EditorCodeLens(ls)
  PROVE  DiagInv'
<1>1. ls \in Seq(Nat) /\ Increasing(ls)
  <2>1. PICK n : n = Cardinality(lines)
    OBVIOUS
  <2>2. n \in Nat /\ lines \subseteq Nat
    BY <2>1, DiagnosticsAssumption, FS_CardinalityType
  <2>3. ls \in [1..n -> lines] /\ \A i, j \in 1..n : i < j => ls[i] < ls[j]
    BY <2>1, SameCardinality DEF Diagnostic!Sorted
  <2>4. ls \in Seq(Nat) /\ Len(ls) = n
    <3>1. ls \in [1..n -> Nat]
      BY <2>2, <2>3
    <3>2. QED BY <2>2, <3>1
  <2>5. QED BY <2>3, <2>4 DEF Increasing
<1>2. lenses' \in Seq(Nat) /\ Increasing(lenses')
  <2>1. CASE document = 0
    BY <2>1 DEF Diagnostic!EditorCodeLens, Increasing
  <2>2. CASE document # 0
    BY <1>1, <2>2 DEF Diagnostic!EditorCodeLens
  <2>3. QED BY <2>1, <2>2
<1>3. UNCHANGED <<document, versions, diagnostics, knows, published, latest>>
  BY DEF Diagnostic!EditorCodeLens
<1>4. DiagTyped'
  BY <1>2, <1>3 DEF DiagInv, DiagTyped
<1>5. UpToDate'
  BY <1>3 DEF DiagInv, UpToDate
<1>6. KeptAsPublished'
  BY <1>3 DEF DiagInv, KeptAsPublished
<1>7. QED BY <1>4, <1>5, <1>6 DEF DiagInv

LEMMA DiagStep == ASSUME DiagInv, [Diagnostic!Next]_ofDiagnostics PROVE DiagInv'
<1>1. CASE Diagnostic!DidOpen \/ Diagnostic!DidChange \/ Diagnostic!DidClose
  BY <1>1, VersionStep
<1>2. CASE \E s \in Servers : Diagnostic!See(s) \/ Diagnostic!Publish(s)
  BY <1>2, SeeStep, PublishStep
<1>3. ASSUME NEW s \in Servers, NEW ds \in Diagnostic!BoundedSeq(Reports, MaxDiagnostics),
             Diagnostic!PublishDiagnostics(s, ds)
      PROVE  DiagInv'
  <2>1. PICK m \in 0..MaxDiagnostics : ds \in [1..m -> Reports]
    BY DEF Diagnostic!BoundedSeq, Diagnostic!SeqOf
  <2>2. m \in Nat /\ Reports \subseteq Report
    BY DiagnosticsAssumption DEF Report
  <2>3. ds \in Seq(Report)
    BY <2>1, <2>2
  <2>4. QED BY <1>3, <2>3, PublishDiagnosticsStep
<1>4. CASE \E lines \in LensLines : \E ls \in Diagnostic!Sorted(lines) : Diagnostic!EditorCodeLens(ls)
  BY <1>4, LensesStep
<1>5. CASE UNCHANGED ofDiagnostics
  <2>1. UNCHANGED <<document, versions, diagnostics, lenses, knows, published, latest>>
    BY <1>5 DEF ofDiagnostics
  <2>2. QED BY <2>1 DEF DiagInv, DiagTyped, UpToDate, KeptAsPublished
<1>6. QED BY <1>1, <1>2, <1>3, <1>4, <1>5 DEF Diagnostic!Next

-----------------------------------------------------------------------------
(***************************************************************************)
(* What the options show.                                                  *)
(***************************************************************************)

\* What options show if they are up to date, for version v: the order of what is painted
\* is not fixed.
Renderings(v, ds, ls) ==
  {[version |-> v, counts |-> Diagnostic!Counts(ds), inline |-> inline,
    inlay |-> Diagnostic!InlayDiagnostics(ds),
    flagged |-> v, flags |-> Diagnostic!GatherLineFlags(ds, ls)] : inline \in Diagnostic!Inline(ds)}

\* The properties, of options o and of what was published.
PaintedIn(counts, inline, A) ==
  /\ \A s \in 1..4 : counts[s] =
       Cardinality({d \in A : Diagnostic!Shown(Diagnostic!Severity(d)) = s})
  /\ \A d \in A : Cardinality({i \in 1..Len(inline) : inline[i] = <<d[1], d[2]>>})
                  = Cardinality({e \in A : e[1] = d[1] /\ e[2] = d[2]})
  /\ \A i, j \in 1..Len(inline) : i < j =>
       Diagnostic!Severity(inline[i]) >= Diagnostic!Severity(inline[j])

Painted(o, v, A) == o.version = v /\ PaintedIn(o.counts, o.inline, A)

WorstShown(o, A) ==
  \A line, here :
    /\ here = {d \in A : Diagnostic!To(d) = line}
    /\ \A d \in here : Diagnostic!Severity(d) # Diagnostic!NoSeverity
    => IF here = {} THEN line \notin DOMAIN o.inlay
       ELSE \A d \in here : o.inlay[line] <= Diagnostic!Severity(d)

ToldBy(fs, ls, flags, here, line) ==
  IF here # {} THEN flags # {} /\ \A i \in flags : fs[i][2] \in here
  ELSE IF \E j \in 1..Len(ls) : ls[j] = line
       THEN \E i \in flags : flags = {i} /\ fs[i][2] = Diagnostic!Lens
       ELSE flags = {}

LinesTold(o, v, A, ls) ==
  /\ o.flagged = v
  /\ \A line, flags, here :
       /\ flags = {i \in 1..Len(o.flags) : o.flags[i][1] = line}
       /\ here = {Diagnostic!Shown(Diagnostic!Severity(d)) : d \in {e \in A : Diagnostic!From(e) = line}}
       => ToldBy(o.flags, ls, flags, here, line)

LEMMA PaintedWell ==
  ASSUME NEW ds \in Seq(Servers \X Report), NEW A, NEW B, Matched(B, ds, A),
         NEW inline \in Diagnostic!Inline(ds)
  PROVE  PaintedIn(Diagnostic!Counts(ds), inline, A)
<1>1. PICK n \in Nat : n = Len(ds)
  OBVIOUS
<1>2. ASSUME NEW s \in 1..4
      PROVE  Diagnostic!Counts(ds)[s] =
               Cardinality({d \in A : Diagnostic!Shown(Diagnostic!Severity(d)) = s})
  <2> DEFINE I == {i \in 1..Len(ds) : Diagnostic!Shown(Diagnostic!Severity(ds[i])) = s}
             D == {d \in A : Diagnostic!Shown(Diagnostic!Severity(d)) = s}
  <2>1. Diagnostic!Counts(ds)[s] = Cardinality(I)
    BY SameCardinality DEF Diagnostic!Counts
  <2>2. ASSUME NEW i \in 1..Len(ds) PROVE i \in I <=> B[i] \in D
    <3>1. B[i] \in A /\ B[i][2] = ds[i][2]
      BY DEF Matched
    <3>2. Diagnostic!Severity(B[i]) = Diagnostic!Severity(ds[i])
      BY <3>1 DEF Diagnostic!Severity
    <3>3. QED BY <3>1, <3>2
  <2>3. I \subseteq 1..Len(ds) /\ D \subseteq A
    OBVIOUS
  <2> HIDE DEF I, D
  <2>4. Len(ds) \in Nat
    OBVIOUS
  <2>5. Cardinality(I) = Cardinality(D)
    <3>1. Selects(I, D, ds, B)
      BY <2>2, <2>3 DEF Selects
    <3>2. QED BY <2>3, <2>4, <3>1, Counted
  <2>6. QED BY <2>1, <2>5 DEF D
<1>3. /\ Len(inline) = Len(ds)
      /\ \E C : Matched(C, inline, A)
      /\ \A i, j \in 1..Len(inline) :
           i < j => Diagnostic!Severity(inline[i]) >= Diagnostic!Severity(inline[j])
      /\ \A i \in 1..Len(inline) : \E k \in 1..Len(ds) : inline[i] = ds[k]
  BY <1>1, InlineMatched
<1>4. PICK C : Matched(C, inline, A)
  BY <1>3
<1>5. ASSUME NEW d \in A
      PROVE  Cardinality({i \in 1..Len(inline) : inline[i] = <<d[1], d[2]>>})
             = Cardinality({e \in A : e[1] = d[1] /\ e[2] = d[2]})
  <2> DEFINE I == {i \in 1..Len(inline) : inline[i] = <<d[1], d[2]>>}
             D == {e \in A : e[1] = d[1] /\ e[2] = d[2]}
  <2>1. ASSUME NEW i \in 1..Len(inline) PROVE i \in I <=> C[i] \in D
    <3>1. C[i] \in A /\ C[i][1] = inline[i][1] /\ C[i][2] = inline[i][2]
      BY <1>4 DEF Matched
    <3>2. PICK k \in 1..Len(ds) : inline[i] = ds[k]
      BY <1>3
    <3>3. ds[k] \in Servers \X Report
      OBVIOUS
    <3>4. inline[i] = <<inline[i][1], inline[i][2]>>
      BY <3>2, <3>3
    <3>5. inline[i] = <<d[1], d[2]>> <=> inline[i][1] = d[1] /\ inline[i][2] = d[2]
      <4>1. PICK x, y : x = d[1] /\ y = d[2]
        OBVIOUS
      <4>2. <<x, y>>[1] = x /\ <<x, y>>[2] = y
        OBVIOUS
      <4>3. QED BY <3>4, <4>1, <4>2
    <3>6. QED BY <3>1, <3>5
  <2>2. I \subseteq 1..Len(inline) /\ D \subseteq A
    OBVIOUS
  <2> HIDE DEF I, D
  <2>3. Len(inline) \in Nat
    BY <1>1, <1>3
  <2>4. Cardinality(I) = Cardinality(D)
    <3>1. Selects(I, D, inline, C)
      BY <2>1, <2>2 DEF Selects
    <3>2. QED BY <1>4, <2>2, <2>3, <3>1, Counted
  <2>5. QED BY <2>4 DEF I, D
<1>6. QED BY <1>2, <1>3, <1>5 DEF PaintedIn

LEMMA WorstWell ==
  ASSUME NEW ds \in Seq(Servers \X Report), NEW A, NEW B, Matched(B, ds, A),
         NEW line, NEW here, here = {d \in A : Diagnostic!To(d) = line},
         \A d \in here : Diagnostic!Severity(d) # Diagnostic!NoSeverity
  PROVE  IF here = {} THEN line \notin DOMAIN Diagnostic!InlayDiagnostics(ds)
         ELSE \A d \in here : Diagnostic!InlayDiagnostics(ds)[line] <= Diagnostic!Severity(d)
<1>1. ASSUME NEW i \in 1..Len(ds)
      PROVE  /\ B[i] \in A /\ Diagnostic!To(B[i]) = Diagnostic!To(ds[i])
             /\ Diagnostic!Severity(B[i]) = Diagnostic!Severity(ds[i])
  <2>1. B[i] \in A /\ B[i][2] = ds[i][2]
    BY DEF Matched
  <2>2. QED BY <2>1 DEF Diagnostic!To, Diagnostic!Severity
<1>2. DOMAIN Diagnostic!InlayDiagnostics(ds) = {Diagnostic!To(ds[i]) : i \in 1..Len(ds)}
  BY DEF Diagnostic!InlayDiagnostics
<1>3. CASE here = {}
  BY <1>1, <1>2, <1>3
<1>4. ASSUME NEW d \in here
      PROVE  Diagnostic!InlayDiagnostics(ds)[line] <= Diagnostic!Severity(d)
  <2>1. PICK i \in 1..Len(ds) : B[i] = d
    BY DEF Matched
  <2>2. Diagnostic!To(ds[i]) = line /\ Diagnostic!Severity(ds[i]) = Diagnostic!Severity(d)
    BY <1>1, <2>1
  <2>3. Diagnostic!InlayDiagnostics(ds)[line] = Diagnostic!Text(ds, line)
    BY <2>2 DEF Diagnostic!InlayDiagnostics
  <2>4. \A k \in 1..Len(ds) : Diagnostic!To(ds[k]) = line =>
                                 Diagnostic!Severity(ds[k]) # Diagnostic!NoSeverity
    BY <1>1
  <2>5. Diagnostic!Text(ds, line) <= Diagnostic!Severity(ds[i])
    BY <2>2, <2>4, TextIsWorst
  <2>6. QED BY <2>2, <2>3, <2>5
<1>5. QED BY <1>3, <1>4

LEMMA LinesWell ==
  ASSUME NEW ds \in Seq(Servers \X Report), NEW A, NEW B, Matched(B, ds, A),
         NEW ls \in Seq(Nat), InLineOrder(ds), Increasing(ls),
         NEW fs, fs = Diagnostic!GatherLineFlags(ds, ls),
         NEW line, NEW flags, flags = {i \in 1..Len(fs) : fs[i][1] = line}, NEW here,
         here = {Diagnostic!Shown(Diagnostic!Severity(d)) : d \in {e \in A : Diagnostic!From(e) = line}}
  PROVE  ToldBy(fs, ls, flags, here, line)
<1>1. PICK a, b \in Nat : a = Len(ds) /\ b = Len(ls)
  OBVIOUS
<1>2. PICK from, shown : from = Froms(ds) /\ shown = Showns(ds)
  OBVIOUS
<1>3. Flagging(from, shown, a, ls, b)
  BY <1>1, <1>2, ToBeFlagged
<1>4. fs \in Seq(Entries) /\ Flagged(from, shown, a, ls, b, a, b, fs)
  BY <1>1, <1>2, AllFlagged
<1>5. Tells(from, shown, a, ls, b, fs, line, flags)
  <2>1. flags = {k \in 1..Len(fs) : fs[k][1] = line}
    OBVIOUS
  <2>2. QED BY <1>3, <1>4, <2>1, FlagsTell
<1>6. ASSUME NEW i \in 1..a
      PROVE  /\ B[i] \in A /\ Diagnostic!From(B[i]) = from[i]
             /\ Diagnostic!Shown(Diagnostic!Severity(B[i])) = shown[i]
  <2>1. B[i] \in A /\ B[i][2] = ds[i][2]
    BY <1>1 DEF Matched
  <2>2. from[i] = Diagnostic!From(ds[i]) /\ shown[i] = Diagnostic!Shown(Diagnostic!Severity(ds[i]))
    BY <1>1, <1>2 DEF Froms, Showns
  <2>3. QED BY <2>1, <2>2 DEF Diagnostic!From, Diagnostic!Severity
<1>7. ASSUME NEW i \in 1..a, from[i] = line PROVE shown[i] \in here
  BY <1>6, <1>7
<1>8. here # {} <=> \E i \in 1..a : from[i] = line
  <2>1. ASSUME here # {} PROVE \E i \in 1..a : from[i] = line
    <3>1. PICK d \in A : Diagnostic!From(d) = line
      BY <2>1
    <3>2. PICK i \in 1..a : B[i] = d
      BY <1>1 DEF Matched
    <3>3. QED BY <1>6, <3>1, <3>2
  <2>2. QED BY <1>7, <2>1
<1>9. CASE here # {}
  <2>1. flags # {} /\ \A k \in flags : \E i \in 1..a : from[i] = line /\ fs[k][2] = shown[i]
    BY <1>5, <1>8, <1>9 DEF Tells
  <2>2. ASSUME NEW k \in flags PROVE fs[k][2] \in here
    <3>1. PICK i \in 1..a : from[i] = line /\ fs[k][2] = shown[i]
      BY <2>1
    <3>2. QED BY <1>7, <3>1
  <2>3. QED BY <1>9, <2>1, <2>2 DEF ToldBy
<1>10. CASE here = {}
  BY <1>1, <1>5, <1>8, <1>10 DEF Diagnostic!Lens, Tells, ToldBy
<1>11. QED BY <1>9, <1>10

LEMMA RenderingShows ==
  ASSUME NEW v, NEW ds \in Seq(Servers \X Report), NEW ls \in Seq(Nat), Increasing(ls), NEW L,
         \A s \in Servers : \E f : Corresponds(f, ds, s, L[s]), NEW o \in Renderings(v, ds, ls)
  PROVE  /\ Painted(o, v, AllOf(L)) /\ WorstShown(o, AllOf(L))
         /\ InLineOrder(ds) => LinesTold(o, v, AllOf(L), ls)
<1>1. PICK A : A = AllOf(L)
  OBVIOUS
<1>2. PICK B : Matched(B, ds, A)
  BY <1>1, AllMatched
<1>3. PICK inline \in Diagnostic!Inline(ds) :
        o = [version |-> v, counts |-> Diagnostic!Counts(ds), inline |-> inline,
             inlay |-> Diagnostic!InlayDiagnostics(ds),
             flagged |-> v, flags |-> Diagnostic!GatherLineFlags(ds, ls)]
  BY DEF Renderings
<1>4. /\ o.version = v /\ o.counts = Diagnostic!Counts(ds) /\ o.inline = inline
      /\ o.inlay = Diagnostic!InlayDiagnostics(ds)
      /\ o.flagged = v /\ o.flags = Diagnostic!GatherLineFlags(ds, ls)
  BY <1>3
<1>5. Painted(o, v, A)
  <2>1. PaintedIn(Diagnostic!Counts(ds), inline, A)
    BY <1>2, PaintedWell
  <2>2. PaintedIn(o.counts, o.inline, A)
    BY <1>4, <2>1
  <2>3. QED BY <1>4, <2>2 DEF Painted
<1>6. WorstShown(o, A)
  <2> SUFFICES ASSUME NEW line, NEW here, here = {d \in A : Diagnostic!To(d) = line},
                      \A d \in here : Diagnostic!Severity(d) # Diagnostic!NoSeverity
               PROVE  IF here = {} THEN line \notin DOMAIN o.inlay
                      ELSE \A d \in here : o.inlay[line] <= Diagnostic!Severity(d)
    BY DEF WorstShown
  <2>1. IF here = {} THEN line \notin DOMAIN Diagnostic!InlayDiagnostics(ds)
        ELSE \A d \in here : Diagnostic!InlayDiagnostics(ds)[line] <= Diagnostic!Severity(d)
    BY <1>2, WorstWell
  <2>2. QED BY <1>4, <2>1
<1>7. ASSUME InLineOrder(ds) PROVE LinesTold(o, v, A, ls)
  <2>1. PICK fs : fs = Diagnostic!GatherLineFlags(ds, ls)
    OBVIOUS
  <2>2. o.flags = fs /\ o.flagged = v
    BY <1>4, <2>1
  <2> SUFFICES
        ASSUME NEW line, NEW flags, NEW here, flags = {i \in 1..Len(fs) : fs[i][1] = line},
               here = {Diagnostic!Shown(Diagnostic!Severity(d)) :
                         d \in {e \in A : Diagnostic!From(e) = line}}
        PROVE  ToldBy(fs, ls, flags, here, line)
    BY <2>2 DEF LinesTold
  <2>3. QED BY <1>2, <1>7, <2>1, LinesWell
<1>8. QED BY <1>1, <1>5, <1>6, <1>7

-----------------------------------------------------------------------------
(***************************************************************************)
(* The options are up to date, and show what was published.                *)
(***************************************************************************)

\* Once some server has published for the version at hand.  What is rendered is a name
\* in the quantifier, so that the prover need not look into it.
OptionsInv ==
  document # 0 /\ DOMAIN latest # {} =>
    \A v, ds, ls : v = document /\ ds = diagnostics /\ ls = lenses => options \in Renderings(v, ds, ls)

LEMMA OptionsStep == ASSUME OptionsInv, [Diagnostic!Next]_ofDiagnostics PROVE OptionsInv'
<1>1. CASE Diagnostic!DidOpen \/ Diagnostic!DidChange \/ Diagnostic!DidClose
  <2>1. latest' = <<>>
    BY <1>1
    DEF Diagnostic!DidOpen, Diagnostic!DidChange, Diagnostic!DidClose, Diagnostic!NewVersion
  <2>2. DOMAIN latest' = {}
    BY <2>1
  <2>3. QED BY <2>2 DEF OptionsInv
<1>2. CASE \E s \in Servers : Diagnostic!See(s) \/ Diagnostic!Publish(s)
  BY <1>2 DEF Diagnostic!See, Diagnostic!Publish, OptionsInv
<1>3. CASE UNCHANGED ofDiagnostics
  BY <1>3 DEF ofDiagnostics, OptionsInv
<1>4. ASSUME NEW s \in Servers, NEW ds, Diagnostic!PublishDiagnostics(s, ds) PROVE OptionsInv'
  <2>1. PICK new : new = diagnostics'
    OBVIOUS
  <2>2. PICK v, ls : v = document /\ ls = lenses
    OBVIOUS
  <2>3. document' = v /\ lenses' = ls
    BY <1>4, <2>2 DEF Diagnostic!PublishDiagnostics
  <2>4. CASE v = 0
    BY <2>3, <2>4 DEF OptionsInv
  <2>5. CASE v # 0
    <3>1. PICK inline \in Diagnostic!Inline(new) :
            options' = [version |-> v, counts |-> Diagnostic!Counts(new), inline |-> inline,
                        inlay |-> Diagnostic!InlayDiagnostics(new),
                        flagged |-> v, flags |-> Diagnostic!GatherLineFlags(new, ls)]
      BY <1>4, <2>1, <2>2, <2>5 DEF Diagnostic!PublishDiagnostics
    <3>2. options' \in Renderings(v, new, ls)
      BY <3>1 DEF Renderings
    <3>3. QED BY <2>1, <2>3, <3>2 DEF OptionsInv
  <2>6. QED BY <2>4, <2>5
<1>5. ASSUME NEW new, Diagnostic!EditorCodeLens(new) PROVE OptionsInv'
  <2>1. CASE document # 0 /\ DOMAIN latest # {}
    <3>1. PICK v, ds : v = document /\ ds = diagnostics
      OBVIOUS
    <3>2. /\ lenses' = new /\ document' = v /\ diagnostics' = ds
          /\ options' = [options EXCEPT !.flagged = v, !.flags = Diagnostic!GatherLineFlags(ds, new)]
      BY <1>5, <2>1, <3>1 DEF Diagnostic!EditorCodeLens
    <3>3. PICK ls : options \in Renderings(v, ds, ls)
      BY <2>1, <3>1 DEF OptionsInv
    <3>4. options' \in Renderings(v, ds, new)
      <4>1. PICK inline \in Diagnostic!Inline(ds) :
              options = [version |-> v, counts |-> Diagnostic!Counts(ds), inline |-> inline,
                         inlay |-> Diagnostic!InlayDiagnostics(ds),
                         flagged |-> v, flags |-> Diagnostic!GatherLineFlags(ds, ls)]
        BY <3>3 DEF Renderings
      <4>2. options' = [version |-> v, counts |-> Diagnostic!Counts(ds), inline |-> inline,
                        inlay |-> Diagnostic!InlayDiagnostics(ds),
                        flagged |-> v, flags |-> Diagnostic!GatherLineFlags(ds, new)]
        BY <3>2, <4>1
      <4>3. QED BY <4>2 DEF Renderings
    <3>5. QED BY <3>2, <3>4 DEF OptionsInv
  <2>2. CASE ~(document # 0 /\ DOMAIN latest # {})
    BY <1>5, <2>2 DEF Diagnostic!EditorCodeLens, OptionsInv
  <2>3. QED BY <2>1, <2>2
<1>6. QED BY <1>1, <1>2, <1>3, <1>4, <1>5 DEF Diagnostic!Next

LEMMA DiagnosticsInvariant == Spec => [](part = "diagnostics" => DiagInv /\ OptionsInv)
<1> DEFINE I == part = "diagnostics" => DiagInv /\ OptionsInv
<1>1. Init => I
  <2>1. Diagnostic!Init => OptionsInv
    BY DEF Diagnostic!Init, OptionsInv
  <2>2. QED BY <2>1, DiagInit DEF Init
<1>2. I /\ [Next]_vars => I'
  <2> SUFFICES ASSUME I, [Next]_vars, part' = "diagnostics" PROVE DiagInv' /\ OptionsInv'
    OBVIOUS
  <2>1. part = "diagnostics"
    BY DEF Next, vars
  <2>2. [Diagnostic!Next]_ofDiagnostics
    BY <2>1 DEF Next, vars
  <2>3. QED BY <2>1, <2>2, DiagStep, OptionsStep
<1>3. QED BY <1>1, <1>2, PTL DEF Spec

\* From the first publication for the version at hand on, the options of the buffer show
\* all that is known of it, for that version, whatever comes in which order
\* (diagnostics.rs, code_lens.rs).
THEOREM OptionsAreCurrent ==
  Spec => [](part = "diagnostics" /\ document # 0 /\ DOMAIN latest # {} =>
               options \in Renderings(document, diagnostics, lenses))
<1> DEFINE P == part = "diagnostics" /\ document # 0 /\ DOMAIN latest # {} =>
                  options \in Renderings(document, diagnostics, lenses)
<1>1. (part = "diagnostics" => DiagInv /\ OptionsInv) => P
  BY DEF OptionsInv
<1>2. QED BY <1>1, DiagnosticsInvariant, PTL

\* Once every server has published for the version at hand, the buffer shows what they said
\* and nothing else, for this version: the diagnostics that are painted and counted, the
\* text of a line, and the signs of lines (diagnostics.rs, text_sync.rs).
THEOREM DiagnosticsCorrect == Spec => []DiagnosticsShown
<1>1. ASSUME DiagInv, OptionsInv, Diagnostic!Settled PROVE Diagnostic!DiagnosticsShown
  <2>1. document # 0 /\ DOMAIN latest = Servers /\ Servers # {}
    BY <1>1, DiagnosticsAssumption DEF Diagnostic!Settled
  <2>2. PICK v, ds, ls, L, o :
          v = document /\ ds = diagnostics /\ ls = lenses /\ L = latest /\ o = options
    OBVIOUS
  <2>3. o \in Renderings(v, ds, ls)
    BY <1>1, <2>1, <2>2 DEF OptionsInv
  <2>4. ds \in Seq(Servers \X Report) /\ ls \in Seq(Nat) /\ Increasing(ls)
    BY <1>1, <2>2 DEF DiagInv, DiagTyped
  <2>5. \A s \in Servers : \E f : Corresponds(f, ds, s, L[s])
    BY <1>1, <2>1, <2>2 DEF DiagInv, KeptAsPublished
  <2>6. PICK A : A = AllOf(L)
    OBVIOUS
  <2>7. /\ Painted(o, v, A) /\ WorstShown(o, A)
        /\ InLineOrder(ds) => LinesTold(o, v, A, ls)
    BY <2>3, <2>4, <2>5, <2>6, RenderingShows
  <2>8. Diagnostic!All = A
    BY <2>2, <2>6 DEF Diagnostic!All, AllOf
  <2>9. Diagnostic!PaintedAsPublished
    BY <2>2, <2>7, <2>8, SameCardinality DEF Diagnostic!PaintedAsPublished, Painted, PaintedIn
  <2>10. Diagnostic!WorstTextShown
    BY <2>2, <2>7, <2>8 DEF Diagnostic!WorstTextShown, WorstShown
  <2>11. ASSUME Diagnostic!InOrder PROVE Diagnostic!LinesFlagged
    <3>1. InLineOrder(ds)
      BY <2>2, <2>11 DEF Diagnostic!InOrder, InLineOrder
    <3>2. LinesTold(o, v, A, ls)
      BY <2>7, <3>1
    <3>3. options.flagged = document
      BY <2>2, <3>2 DEF LinesTold
    <3>4. ASSUME NEW line \in LineNumbers
          PROVE  LET flags == {i \in 1..Len(options.flags) : options.flags[i][1] = line}
                     here == {Diagnostic!Shown(Diagnostic!Severity(d)) :
                                d \in {e \in Diagnostic!All : Diagnostic!From(e) = line}} IN
                 IF here # {} THEN flags # {} /\ \A i \in flags : options.flags[i][2] \in here
                 ELSE IF Diagnostic!Contains(lenses, line)
                      THEN \E i \in flags : flags = {i} /\ options.flags[i][2] = Diagnostic!Lens
                      ELSE flags = {}
      <4>1. PICK fs, hs :
              /\ fs = {i \in 1..Len(options.flags) : options.flags[i][1] = line}
              /\ hs = {Diagnostic!Shown(Diagnostic!Severity(d)) :
                         d \in {e \in Diagnostic!All : Diagnostic!From(e) = line}}
        OBVIOUS
      <4>2. /\ fs = {i \in 1..Len(o.flags) : o.flags[i][1] = line}
            /\ hs = {Diagnostic!Shown(Diagnostic!Severity(d)) :
                       d \in {e \in A : Diagnostic!From(e) = line}}
        BY <2>2, <2>8, <4>1
      <4>3. ToldBy(o.flags, ls, fs, hs, line)
        BY <3>2, <4>2 DEF LinesTold
      <4>4. IF hs # {} THEN fs # {} /\ \A i \in fs : options.flags[i][2] \in hs
            ELSE IF Diagnostic!Contains(lenses, line)
                 THEN \E i \in fs : fs = {i} /\ options.flags[i][2] = Diagnostic!Lens
                 ELSE fs = {}
        BY <2>2, <4>3 DEF ToldBy, Diagnostic!Contains
      <4>5. QED BY <4>1, <4>4
    <3>5. QED BY <3>3, <3>4 DEF Diagnostic!LinesFlagged
  <2>12. QED BY <2>9, <2>10, <2>11 DEF Diagnostic!DiagnosticsShown
<1>2. ~Diagnostic!Settled => Diagnostic!DiagnosticsShown
  BY DEF Diagnostic!DiagnosticsShown
<1>3. (part = "diagnostics" => DiagInv /\ OptionsInv) => DiagnosticsShown
  BY <1>1, <1>2 DEF DiagnosticsShown
<1>4. QED BY <1>3, DiagnosticsInvariant, PTL

-----------------------------------------------------------------------------
(***************************************************************************)
(* Sums of widths, and texts put together: sequences whose k-th element is *)
(* the result for the first k.                                             *)
(***************************************************************************)

Sums(g, w, n) == g \in [0..n -> Nat] /\ g[0] = 0 /\ \A k \in 1..n : g[k] = g[k - 1] + w[k]

LEMMA SumsOfWidths ==
  ASSUME NEW n \in Nat, NEW w \in [1..n -> 1..4]
  PROVE  \E g : Sums(g, w, n)
<1> DEFINE F == [k \in 1..n |-> [v \in Nat |-> v + w[k]]]
<1>1. ASSUME NEW k \in 1..n, NEW v \in Nat PROVE v + w[k] \in Nat
  <2>1. w[k] \in 1..4
    OBVIOUS
  <2>2. QED BY <2>1
<1>2. F \in [1..n -> [Nat -> Nat]]
  BY <1>1
<1>3. \A k \in 1..n : \A v \in Nat : F[k][v] = v + w[k]
  OBVIOUS
<1> HIDE DEF F
<1>4. Step(F, Nat, n)
  BY <1>2 DEF Step
<1>5. PICK g : Recurs(g, F, Nat, 0, n)
  BY <1>4, Recursion
<1>6. \A k \in 1..n : g[k - 1] \in Nat /\ g[k] = F[k][g[k - 1]]
  <2>1. \A k \in 1..n : k - 1 \in 0..n
    OBVIOUS
  <2>2. QED BY <1>5, <2>1 DEF Recurs
<1>7. Sums(g, w, n)
  BY <1>3, <1>5, <1>6 DEF Sums, Recurs
<1>8. QED BY <1>7

Starts(v, w, m) == v = [k \in 1..m |-> w[k]]

LEMMA TotalIs ==
  ASSUME NEW n \in Nat, NEW w \in [1..n -> 1..4], NEW g, Sums(g, w, n),
         NEW m \in 0..n, NEW v, Starts(v, w, m)
  PROVE  TextEdit!Total(v) = g[m]
<1>1. v \in Seq(1..4) /\ Len(v) = m /\ \A k \in 1..m : v[k] = w[k]
  <2>1. \A k \in 1..m : k \in 1..n
    OBVIOUS
  <2>2. QED BY <2>1 DEF Starts
<1> DEFINE total == CHOOSE h : h = [k \in 0..m |-> IF k = 0 THEN 0 ELSE h[k - 1] + v[k]]
<1>2. TextEdit!Total(v) = total[m]
  BY <1>1 DEF TextEdit!Total
<1>3. \E h : h = [k \in 0..m |-> IF k = 0 THEN 0 ELSE h[k - 1] + v[k]]
  <2>1. g \in [0..n -> Nat] /\ g[0] = 0 /\ \A k \in 1..n : g[k] = g[k - 1] + w[k]
    BY DEF Sums
  <2> DEFINE h == [k \in 0..m |-> g[k]]
  <2>2. ASSUME NEW k \in 0..m
        PROVE  h[k] = IF k = 0 THEN 0 ELSE h[k - 1] + v[k]
    <3>1. CASE k = 0
      BY <2>1, <3>1
    <3>2. CASE k # 0
      <4>1. k \in 1..m /\ k \in 1..n /\ k - 1 \in 0..m
        BY <3>2
      <4>2. g[k] = g[k - 1] + w[k] /\ v[k] = w[k]
        BY <1>1, <2>1, <4>1
      <4>3. h[k] = g[k] /\ h[k - 1] = g[k - 1]
        BY <4>1
      <4>4. QED BY <3>2, <4>2, <4>3
    <3>3. QED BY <3>1, <3>2
  <2>3. h = [k \in 0..m |-> h[k]]
    OBVIOUS
  <2> HIDE DEF h
  <2>4. QED BY <2>2, <2>3
<1>4. total = [k \in 0..m |-> IF k = 0 THEN 0 ELSE total[k - 1] + v[k]]
  BY <1>3
<1> HIDE DEF total
<1> DEFINE G == {k \in Nat : k <= m => total[k] = g[k]}
<1>5. 0 \in G
  <2>1. total[0] = 0
    BY <1>4
  <2>2. QED BY <2>1 DEF Sums
<1>6. ASSUME NEW k \in Nat, k \in G PROVE k + 1 \in G
  <2> SUFFICES ASSUME k + 1 <= m PROVE total[k + 1] = g[k + 1]
    OBVIOUS
  <2>1. k + 1 \in 1..m /\ k + 1 \in 1..n /\ k + 1 \in 0..m /\ k + 1 # 0 /\ (k + 1) - 1 = k
    OBVIOUS
  <2>2. total[k + 1] = total[k] + v[k + 1]
    BY <1>4, <2>1
  <2>3. g[k + 1] = g[k] + w[k + 1]
    BY <2>1 DEF Sums
  <2>4. total[k] = g[k] /\ v[k + 1] = w[k + 1]
    BY <1>1, <1>6, <2>1
  <2>5. QED BY <2>2, <2>3, <2>4
<1> HIDE DEF G
<1>7. m \in G
  BY <1>5, <1>6, Induction
<1>8. QED BY <1>2, <1>7 DEF G

LEMMA SumsGrow ==
  ASSUME NEW n \in Nat, NEW w \in [1..n -> 1..4], NEW g, Sums(g, w, n)
  PROVE  \A i, j \in 0..n : i < j => g[i] < g[j]
<1> SUFFICES ASSUME NEW i \in 0..n PROVE \A j \in 0..n : i < j => g[i] < g[j]
  OBVIOUS
<1>1. g \in [0..n -> Nat] /\ \A k \in 1..n : g[k] = g[k - 1] + w[k]
  BY DEF Sums
<1> DEFINE G == {j \in Nat : j <= n /\ i < j => g[i] < g[j]}
<1>2. 0 \in G
  OBVIOUS
<1>3. ASSUME NEW j \in Nat, j \in G PROVE j + 1 \in G
  <2> SUFFICES ASSUME j + 1 <= n, i < j + 1 PROVE g[i] < g[j + 1]
    OBVIOUS
  <2>1. j + 1 \in 1..n /\ (j + 1) - 1 = j /\ j \in 0..n
    OBVIOUS
  <2>2. g[j + 1] = g[j] + w[j + 1] /\ w[j + 1] \in 1..4 /\ g[j] \in Nat /\ g[i] \in Nat
    BY <1>1, <2>1
  <2>3. g[j] < g[j + 1]
    BY <2>2
  <2>4. CASE i = j
    BY <2>3, <2>4
  <2>5. CASE i < j
    <3>1. g[i] < g[j]
      BY <1>3, <2>1, <2>5
    <3>2. g[j + 1] \in Nat
      BY <2>2
    <3>3. QED BY <2>2, <2>3, <3>1, <3>2
  <2>6. QED BY <2>4, <2>5
<1> HIDE DEF G
<1>4. Nat \subseteq G
  BY <1>2, <1>3, Induction
<1>5. QED BY <1>4 DEF G

\* The texts before the k-th, put together.
Joins(g, q, C) ==
  /\ g \in [0..Len(q) -> Seq(C)] /\ g[0] = <<>>
  /\ \A k \in 1..Len(q) : g[k] = g[k - 1] \o q[k]

LEMMA JoinsExist ==
  ASSUME NEW C, NEW q \in Seq(Seq(C))
  PROVE  \E g : Joins(g, q, C)
<1>1. PICK n \in Nat : n = Len(q)
  OBVIOUS
<1> DEFINE F == [k \in 1..n |-> [v \in Seq(C) |-> v \o q[k]]]
<1>2. ASSUME NEW k \in 1..n, NEW v \in Seq(C) PROVE v \o q[k] \in Seq(C)
  <2>1. q[k] \in Seq(C)
    BY <1>1
  <2>2. QED BY <2>1
<1>3. F \in [1..n -> [Seq(C) -> Seq(C)]]
  BY <1>2
<1>4. \A k \in 1..n : \A v \in Seq(C) : F[k][v] = v \o q[k]
  OBVIOUS
<1> HIDE DEF F
<1>5. Step(F, Seq(C), n)
  BY <1>3 DEF Step
<1>6. <<>> \in Seq(C)
  OBVIOUS
<1>7. PICK g : Recurs(g, F, Seq(C), <<>>, n)
  BY <1>5, <1>6, Recursion
<1>8. \A k \in 1..n : g[k - 1] \in Seq(C) /\ g[k] = F[k][g[k - 1]]
  <2>1. \A k \in 1..n : k - 1 \in 0..n
    OBVIOUS
  <2>2. QED BY <1>7, <2>1 DEF Recurs
<1>9. Joins(g, q, C)
  BY <1>1, <1>4, <1>7, <1>8 DEF Joins, Recurs
<1>10. QED BY <1>9

LEMMA FlattenIs ==
  ASSUME NEW C, NEW q \in Seq(Seq(C)), NEW g, Joins(g, q, C), NEW m \in 0..Len(q)
  PROVE  TextEdit!FlattenSeq(SubSeq(q, 1, m)) = g[m]
<1>1. PICK n \in Nat : n = Len(q) /\ m \in 0..n
  OBVIOUS
<1>2. PICK v : v = SubSeq(q, 1, m)
  OBVIOUS
<1>3. v \in Seq(Seq(C)) /\ Len(v) = m /\ \A k \in 1..m : v[k] = q[k]
  BY <1>1, <1>2
<1>4. /\ g \in [0..n -> Seq(C)] /\ g[0] = <<>>
      /\ \A k \in 1..n : g[k] = g[k - 1] \o q[k]
  BY <1>1 DEF Joins
<1>5. CASE m = 0
  <2>1. v = <<>>
    BY <1>3, <1>5
  <2>2. TextEdit!FlattenSeq(v) = v
    BY <1>3, <1>5 DEF TextEdit!FlattenSeq
  <2>3. QED BY <1>2, <1>4, <1>5, <2>1, <2>2
<1>6. CASE m # 0
  <2> DEFINE flatten == CHOOSE h : h = [i \in 1..m |-> IF i = 1 THEN v[i] ELSE h[i - 1] \o v[i]]
  <2>1. TextEdit!FlattenSeq(v) = flatten[m]
    BY <1>3, <1>6 DEF TextEdit!FlattenSeq
  <2>2. g[1] = q[1]
    <3>1. 1 \in 1..n /\ 1 - 1 = 0
      BY <1>1, <1>6
    <3>2. g[1] = <<>> \o q[1]
      BY <1>4, <3>1
    <3>3. q[1] \in Seq(C)
      BY <1>1, <3>1
    <3>4. QED BY <3>2, <3>3
  <2>3. \E h : h = [i \in 1..m |-> IF i = 1 THEN v[i] ELSE h[i - 1] \o v[i]]
    <3> DEFINE h == [i \in 1..m |-> g[i]]
    <3>1. ASSUME NEW i \in 1..m
          PROVE  h[i] = IF i = 1 THEN v[i] ELSE h[i - 1] \o v[i]
      <4>1. CASE i = 1
        BY <1>3, <2>2, <4>1
      <4>2. CASE i # 1
        <5>1. i \in 1..n /\ i - 1 \in 1..m
          BY <1>1, <4>2
        <5>2. g[i] = g[i - 1] \o q[i] /\ v[i] = q[i]
          BY <1>3, <1>4, <5>1
        <5>3. h[i] = g[i] /\ h[i - 1] = g[i - 1]
          BY <5>1
        <5>4. QED BY <4>2, <5>2, <5>3
      <4>3. QED BY <4>1, <4>2
    <3>2. h = [i \in 1..m |-> h[i]]
      OBVIOUS
    <3> HIDE DEF h
    <3>3. h = [i \in 1..m |-> IF i = 1 THEN v[i] ELSE h[i - 1] \o v[i]]
      BY <3>1, <3>2, Zenon
    <3>4. QED BY <3>3, Zenon
  <2>4. flatten = [i \in 1..m |-> IF i = 1 THEN v[i] ELSE flatten[i - 1] \o v[i]]
    BY <2>3
  <2> HIDE DEF flatten
  <2> DEFINE G == {i \in Nat : i \in 1..m => flatten[i] = g[i]}
  <2>5. 0 \in G
    OBVIOUS
  <2>6. ASSUME NEW i \in Nat, i \in G PROVE i + 1 \in G
    <3> SUFFICES ASSUME i + 1 <= m PROVE flatten[i + 1] = g[i + 1]
      OBVIOUS
    <3>1. i + 1 \in 1..m /\ i + 1 \in 1..n /\ (i + 1) - 1 = i
      BY <1>1
    <3>2. v[i + 1] = q[i + 1]
      BY <1>3, <3>1
    <3>3. CASE i = 0
      <4>1. flatten[1] = v[1]
        BY <2>4, <3>1, <3>3
      <4>2. QED BY <2>2, <3>2, <3>3, <4>1
    <3>4. CASE i # 0
      <4>1. flatten[i + 1] = flatten[i] \o v[i + 1]
        <5>1. i + 1 # 1
          BY <3>4
        <5>2. \A k \in 1..m : k # 1 => flatten[k] = flatten[k - 1] \o v[k]
          BY <2>4
        <5>3. QED BY <3>1, <5>1, <5>2
      <4>2. g[i + 1] = g[i] \o q[i + 1]
        BY <1>4, <3>1
      <4>3. flatten[i] = g[i]
        BY <2>6, <3>1, <3>4
      <4>4. QED BY <3>2, <4>1, <4>2, <4>3
    <3>5. QED BY <3>3, <3>4
  <2> HIDE DEF G
  <2>7. Nat \subseteq G
    BY <2>5, <2>6, Induction
  <2>8. m \in Nat /\ m \in 1..m
    BY <1>1, <1>6
  <2>9. flatten[m] = g[m]
    BY <2>7, <2>8 DEF G
  <2>10. QED BY <1>2, <2>1, <2>9
<1>7. QED BY <1>5, <1>6

-----------------------------------------------------------------------------
(***************************************************************************)
(* A line: bytes and code units before each of its characters, and back.   *)
(***************************************************************************)

Increases(g, n) == \A i, j \in 0..n : i < j => g[i] < g[j]

\* The same for bytes and code units; n is the length of the line.
Widths(line, n, bytes, units) ==
  /\ bytes \in [0..n -> Nat] /\ bytes[0] = 0 /\ Increases(bytes, n)
  /\ units \in [0..n -> Nat] /\ units[0] = 0 /\ Increases(units, n)
  /\ \A k \in 0..n : /\ TextEdit!CharToByte(line, k) = bytes[k]
                     /\ TextEdit!CharToUnit(line, k) = units[k]
  /\ TextEdit!BytesOf(line) = bytes[n] /\ TextEdit!UnitsOf(line) = units[n]

LEMMA WidthsExist ==
  ASSUME NEW C, NEW line \in Seq(C)
  PROVE  \E bytes, units : /\ Widths(line, Len(line), bytes, units)
                           /\ Sums(bytes, [k \in 1..Len(line) |-> TextEdit!Bytes(line[k])], Len(line))
                           /\ Sums(units, [k \in 1..Len(line) |-> TextEdit!Units(line[k])], Len(line))
<1>1. PICK n \in Nat : n = Len(line)
  OBVIOUS
<1>2. PICK b, u : /\ b = [k \in 1..n |-> TextEdit!Bytes(line[k])]
                  /\ u = [k \in 1..n |-> TextEdit!Units(line[k])]
  OBVIOUS
<1>3. b \in [1..n -> 1..4] /\ u \in [1..n -> 1..4]
  BY <1>2 DEF TextEdit!Bytes, TextEdit!Units
<1>4. PICK bytes : Sums(bytes, b, n)
  BY <1>3, SumsOfWidths
<1>5. PICK units : Sums(units, u, n)
  BY <1>3, SumsOfWidths
<1>6. Increases(bytes, n) /\ Increases(units, n)
  BY <1>3, <1>4, <1>5, SumsGrow DEF Increases
<1>7. ASSUME NEW k \in 0..n
      PROVE  /\ TextEdit!CharToByte(line, k) = bytes[k]
             /\ TextEdit!CharToUnit(line, k) = units[k]
  <2>1. PICK q : q = SubSeq(line, 1, k)
    OBVIOUS
  <2>2. Len(q) = k /\ \A i \in 1..k : q[i] = line[i] /\ i \in 1..n
    BY <1>1, <2>1
  <2>3. PICK v : v = [i \in 1..k |-> TextEdit!Bytes(q[i])]
    OBVIOUS
  <2>4. Starts(v, b, k)
    BY <1>2, <2>2, <2>3 DEF Starts
  <2>5. TextEdit!CharToByte(line, k) = TextEdit!Total(v)
    BY <2>1, <2>2, <2>3 DEF TextEdit!CharToByte, TextEdit!BytesOf
  <2>6. TextEdit!Total(v) = bytes[k]
    BY <1>3, <1>4, <2>4, TotalIs
  <2>7. PICK w : w = [i \in 1..k |-> TextEdit!Units(q[i])]
    OBVIOUS
  <2>8. Starts(w, u, k)
    BY <1>2, <2>2, <2>7 DEF Starts
  <2>9. TextEdit!CharToUnit(line, k) = TextEdit!Total(w)
    BY <2>1, <2>2, <2>7 DEF TextEdit!CharToUnit, TextEdit!UnitsOf
  <2>10. TextEdit!Total(w) = units[k]
    BY <1>3, <1>5, <2>8, TotalIs
  <2>11. QED BY <2>5, <2>6, <2>9, <2>10
<1>8. TextEdit!BytesOf(line) = bytes[n] /\ TextEdit!UnitsOf(line) = units[n]
  <2>1. SubSeq(line, 1, n) = line /\ n \in 0..n
    BY <1>1
  <2>2. QED BY <1>7, <2>1 DEF TextEdit!CharToByte, TextEdit!CharToUnit
<1>9. Widths(line, n, bytes, units)
  BY <1>4, <1>5, <1>6, <1>7, <1>8 DEF Sums, Widths
<1>10. QED BY <1>1, <1>2, <1>4, <1>5, <1>9

\* The character that has a byte is found by counting those that end before it.
UpTo(g, n, to) == {k \in 1..n : g[k] <= to}

LEMMA CharOf ==
  ASSUME NEW n \in Nat, NEW g \in [0..n -> Nat], Increases(g, n), NEW j \in 0..n, NEW to \in Int,
         g[j] <= to, j < n => to < g[j + 1]
  PROVE  TextEdit!Cardinality(UpTo(g, n, to)) = j
<1>1. ASSUME NEW k \in 1..n PROVE g[k] <= to <=> k <= j
  <2>1. k \in 0..n /\ g[k] \in Nat /\ g[j] \in Nat
    OBVIOUS
  <2>2. CASE k <= j
    <3>1. k = j \/ g[k] < g[j]
      BY <2>1, <2>2 DEF Increases
    <3>2. QED BY <2>1, <2>2, <3>1
  <2>3. CASE k > j
    <3>1. j < n /\ j + 1 \in 0..n /\ g[j + 1] \in Nat
      BY <2>3
    <3>2. k = j + 1 \/ j + 1 < k
      BY <2>3
    <3>3. k = j + 1 \/ g[j + 1] < g[k]
      BY <2>1, <3>1, <3>2 DEF Increases
    <3>4. QED BY <2>1, <2>3, <3>1, <3>3
  <2>4. QED BY <2>2, <2>3
<1>2. UpTo(g, n, to) = 1..j
  BY <1>1 DEF UpTo
<1>3. Cardinality(1..j) = j
  BY FS_Interval
<1>4. TextEdit!Cardinality(1..j) = Cardinality(1..j)
  BY DEF TextEdit!Cardinality, Cardinality
<1>5. QED BY <1>2, <1>3, <1>4

-----------------------------------------------------------------------------
(***************************************************************************)
(* A document: the places before its lines, and the line of a place.       *)
(***************************************************************************)

Layout(q, n, s) ==
  /\ n \in Nat \ {0} /\ Len(q) = n /\ \E C : q \in Seq(Seq(C))
  /\ s \in [1..n -> Nat] /\ s[1] = 0
  /\ \A l \in 1..n - 1 : /\ Len(q[l]) \in Nat \ {0}
                         /\ s[l + 1] = s[l] + Len(q[l])
  /\ q[n] = <<>>
  /\ \A l \in 1..n : TextEdit!Before(q, l) = s[l]
  /\ Len(TextEdit!Characters(q)) = s[n]

LEMMA LayoutExists ==
  ASSUME NEW C, NEW c \in Seq(Seq(C)), NEW q, q = TextEdit!Document(c)
  PROVE  \E s : Layout(q, Len(c) + 1, s)
<1>1. PICK m \in Nat : m = Len(c)
  OBVIOUS
<1>2. PICK n \in Nat : n = m + 1
  OBVIOUS
<1>3. PICK D : D = C \cup {TextEdit!Newline}
  OBVIOUS
<1>4. PICK r : r = [l \in 1..m |-> Append(c[l], TextEdit!Newline)]
  OBVIOUS
<1>5. ASSUME NEW l \in 1..m
      PROVE  r[l] \in Seq(D) /\ Len(r[l]) \in Nat \ {0}
  <2>1. c[l] \in Seq(C)
    BY <1>1
  <2>2. c[l] \in Seq(D) /\ TextEdit!Newline \in D
    BY <1>3, <2>1
  <2>3. r[l] = Append(c[l], TextEdit!Newline)
    BY <1>4
  <2>4. QED BY <2>2, <2>3
<1>6. r \in Seq(Seq(D)) /\ Len(r) = m
  BY <1>4, <1>5
<1>7. << <<>> >> \in Seq(Seq(D)) /\ Len(<< <<>> >>) = 1
  OBVIOUS
<1>8. q = r \o << <<>> >>
  BY <1>1, <1>4 DEF TextEdit!Document
<1>9. /\ q \in Seq(Seq(D)) /\ Len(q) = n
      /\ \A l \in 1..m : q[l] = r[l]
      /\ q[n] = <<>>
  <2>1. PICK e, S : e = << <<>> >> /\ S = Seq(D)
    OBVIOUS
  <2>2. r \in Seq(S) /\ e \in Seq(S) /\ Len(e) = 1 /\ e[1] = <<>>
    BY <1>6, <1>7, <2>1
  <2>3. q = r \o e
    BY <1>8, <2>1
  <2>4. /\ r \o e \in Seq(S) /\ Len(r \o e) = Len(r) + Len(e)
        /\ \A l \in 1..Len(r) + Len(e) : (r \o e)[l] = IF l <= Len(r) THEN r[l] ELSE e[l - Len(r)]
    BY <2>2, ConcatProperties
  <2>5. /\ q \in Seq(S) /\ Len(q) = m + 1
        /\ \A l \in 1..m + 1 : q[l] = IF l <= m THEN r[l] ELSE e[l - m]
    BY <1>6, <2>2, <2>3, <2>4
  <2>6. \A l \in 1..m : q[l] = r[l]
    BY <2>5
  <2>7. q[m + 1] = e[1]
    BY <2>5
  <2>8. QED BY <1>2, <2>1, <2>2, <2>5, <2>6, <2>7
<1>10. PICK g : Joins(g, q, D)
  BY <1>9, JoinsExist
<1>11. /\ g \in [0..n -> Seq(D)] /\ g[0] = <<>>
       /\ \A k \in 1..n : g[k] = g[k - 1] \o q[k]
  BY <1>9, <1>10 DEF Joins
<1> DEFINE s == [l \in 1..n |-> Len(g[l - 1])]
<1>12. s \in [1..n -> Nat] /\ s[1] = 0
  <2>1. ASSUME NEW l \in 1..n PROVE Len(g[l - 1]) \in Nat
    <3>1. l - 1 \in 0..n
      OBVIOUS
    <3>2. g[l - 1] \in Seq(D)
      BY <1>11, <3>1
    <3>3. QED BY <3>2
  <2>2. Len(g[1 - 1]) = 0 /\ 1 \in 1..n
    BY <1>2, <1>11
  <2>3. QED BY <2>1, <2>2
<1>13. ASSUME NEW l \in 1..n - 1
       PROVE  Len(q[l]) \in Nat \ {0} /\ s[l + 1] = s[l] + Len(q[l])
  <2>1. l \in 1..m /\ l \in 1..n /\ l + 1 \in 1..n /\ (l + 1) - 1 = l /\ l - 1 \in 0..n
    BY <1>2
  <2>2. q[l] \in Seq(D) /\ Len(q[l]) \in Nat \ {0}
    BY <1>5, <1>9, <2>1
  <2>3. g[l] = g[l - 1] \o q[l] /\ g[l - 1] \in Seq(D)
    BY <1>11, <2>1
  <2>4. Len(g[l]) = Len(g[l - 1]) + Len(q[l])
    BY <2>2, <2>3
  <2>5. s[l] = Len(g[l - 1]) /\ s[l + 1] = Len(g[l])
    BY <2>1
  <2>6. QED BY <2>2, <2>4, <2>5
<1>14. ASSUME NEW l \in 1..n PROVE TextEdit!Before(q, l) = s[l]
  <2>1. l - 1 \in 0..Len(q)
    BY <1>9
  <2>2. TextEdit!FlattenSeq(SubSeq(q, 1, l - 1)) = g[l - 1]
    BY <1>9, <1>10, <2>1, FlattenIs
  <2>3. QED BY <2>2 DEF TextEdit!Before
<1>15. Len(TextEdit!Characters(q)) = s[n]
  <2>1. n \in 0..Len(q) /\ n \in 1..n /\ n - 1 \in 0..n
    BY <1>2, <1>9
  <2>2. TextEdit!FlattenSeq(SubSeq(q, 1, n)) = g[n]
    BY <1>9, <1>10, <2>1, FlattenIs
  <2>3. SubSeq(q, 1, n) = q
    BY <1>9
  <2>4. g[n] = g[n - 1] \o <<>> /\ g[n - 1] \in Seq(D)
    BY <1>9, <1>11, <2>1
  <2>5. g[n] = g[n - 1]
    BY <2>4
  <2>6. QED BY <2>1, <2>2, <2>3, <2>5 DEF TextEdit!Characters
<1> HIDE DEF s
<1>16. n \in Nat \ {0}
  BY <1>2
<1>17. Layout(q, n, s)
  BY <1>9, <1>12, <1>13, <1>14, <1>15, <1>16 DEF Layout
<1>18. QED BY <1>1, <1>2, <1>17

LEMMA LinesInOrder ==
  ASSUME NEW q, NEW n, NEW s, Layout(q, n, s)
  PROVE  \A l, m \in 1..n : l < m => s[l] + Len(q[l]) <= s[m]
<1> SUFFICES ASSUME NEW l \in 1..n PROVE \A m \in 1..n : l < m => s[l] + Len(q[l]) <= s[m]
  OBVIOUS
<1>1. /\ n \in Nat \ {0} /\ s \in [1..n -> Nat]
      /\ \A m \in 1..n - 1 : Len(q[m]) \in Nat \ {0} /\ s[m + 1] = s[m] + Len(q[m])
  BY DEF Layout
<1> DEFINE G == {m \in Nat : m \in 1..n /\ l < m => s[l] + Len(q[l]) <= s[m]}
<1>2. 0 \in G
  OBVIOUS
<1>3. ASSUME NEW m \in Nat, m \in G PROVE m + 1 \in G
  <2> SUFFICES ASSUME m + 1 \in 1..n, l < m + 1 PROVE s[l] + Len(q[l]) <= s[m + 1]
    OBVIOUS
  <2>1. m \in 1..n - 1 /\ m \in 1..n /\ l \in 1..n - 1
    BY <1>1
  <2>2. s[m + 1] = s[m] + Len(q[m]) /\ Len(q[m]) \in Nat /\ s[m] \in Nat
    BY <1>1, <2>1
  <2>3. Len(q[l]) \in Nat /\ s[l] \in Nat
    BY <1>1, <2>1
  <2>4. CASE l = m
    BY <2>2, <2>3, <2>4
  <2>5. CASE l < m
    <3>1. s[l] + Len(q[l]) <= s[m]
      BY <1>3, <2>1, <2>5
    <3>2. QED BY <2>2, <2>3, <3>1
  <2>6. QED BY <2>1, <2>4, <2>5
<1> HIDE DEF G
<1>4. Nat \subseteq G
  BY <1>2, <1>3, Induction
<1>5. QED BY <1>1, <1>4 DEF G

\* The k-th place of line l.
PlaceAt(q, n, s, place, l, k) ==
  /\ l \in 1..n /\ k \in Nat /\ place = s[l] + k
  /\ l < n => k < Len(q[l])
  /\ l = n => k = 0

LEMMA EveryPlace ==
  ASSUME NEW q, NEW n, NEW s, Layout(q, n, s), NEW place \in TextEdit!Places(q)
  PROVE  \E l, k : PlaceAt(q, n, s, place, l, k)
<1>1. /\ n \in Nat \ {0} /\ s \in [1..n -> Nat] /\ s[1] = 0
      /\ \A m \in 1..n - 1 : Len(q[m]) \in Nat \ {0} /\ s[m + 1] = s[m] + Len(q[m])
      /\ place \in 0..s[n]
  BY DEF Layout, TextEdit!Places
<1>2. n \in 1..n /\ s[n] \in Nat /\ place \in Nat
  BY <1>1
<1> SUFFICES ASSUME \A l, k : ~PlaceAt(q, n, s, place, l, k) PROVE FALSE
  OBVIOUS
<1> DEFINE G == {l \in Nat : l \in 1..n => s[l] <= place}
<1>3. 0 \in G
  OBVIOUS
<1>4. ASSUME NEW l \in Nat, l \in G PROVE l + 1 \in G
  <2> SUFFICES ASSUME l + 1 \in 1..n PROVE s[l + 1] <= place
    OBVIOUS
  <2>1. CASE l = 0
    BY <1>1, <1>2, <2>1
  <2>2. CASE l # 0
    <3>1. l \in 1..n - 1 /\ l \in 1..n /\ l < n
      BY <1>1, <2>2
    <3>2. s[l] <= place /\ s[l] \in Nat /\ Len(q[l]) \in Nat /\ s[l + 1] = s[l] + Len(q[l])
      BY <1>1, <1>4, <3>1
    <3>3. CASE s[l + 1] > place
      <4>1. place - s[l] \in Nat /\ place = s[l] + (place - s[l]) /\ place - s[l] < Len(q[l])
        BY <1>2, <3>2, <3>3
      <4>2. PlaceAt(q, n, s, place, l, place - s[l])
        BY <3>1, <4>1 DEF PlaceAt
      <4>3. QED BY <4>2
    <3>4. QED BY <1>2, <3>2, <3>3
  <2>3. QED BY <2>1, <2>2
<1> HIDE DEF G
<1>5. Nat \subseteq G
  BY <1>3, <1>4, Induction
<1>6. s[n] <= place
  BY <1>1, <1>2, <1>5 DEF G
<1>7. place = s[n] + 0
  BY <1>1, <1>2, <1>6
<1>8. PlaceAt(q, n, s, place, n, 0)
  BY <1>1, <1>2, <1>7 DEF PlaceAt
<1>9. QED BY <1>8

LEMMA LineOfPlace ==
  ASSUME NEW q, NEW n, NEW s, Layout(q, n, s), NEW place, NEW l, NEW k,
         PlaceAt(q, n, s, place, l, k)
  PROVE  /\ TextEdit!LineOf(q, place) = l
         /\ TextEdit!InLine(q, place) = SubSeq(q[l], 1, k)
<1>1. /\ n \in Nat \ {0} /\ Len(q) = n /\ s \in [1..n -> Nat]
      /\ \A m \in 1..n : TextEdit!Before(q, m) = s[m]
      /\ l \in 1..n /\ k \in Nat /\ place = s[l] + k /\ (l < n => k < Len(q[l]))
  BY DEF Layout, PlaceAt
<1>2. PICK S : S = {m \in 1..Len(q) : TextEdit!Before(q, m) <= place}
  OBVIOUS
<1>3. \A m : m \in S <=> m \in 1..n /\ s[m] <= place
  BY <1>1, <1>2
<1>4. l \in S
  <2>1. s[l] \in Nat
    BY <1>1
  <2>2. QED BY <1>1, <1>3, <2>1
<1>5. ASSUME NEW m \in S PROVE m <= l /\ m \in Nat
  <2>1. m \in 1..n /\ s[m] <= place
    BY <1>3
  <2>2. CASE m > l
    <3>1. l < n /\ l \in 1..n - 1
      BY <1>1, <2>1, <2>2
    <3>2. Len(q[l]) \in Nat
      BY <3>1 DEF Layout
    <3>3. s[l] + Len(q[l]) <= s[m]
      BY <1>1, <2>1, <2>2, LinesInOrder
    <3>4. s[l] \in Nat /\ s[m] \in Nat
      BY <1>1, <2>1
    <3>5. FALSE
      BY <1>1, <2>1, <3>1, <3>2, <3>3, <3>4
    <3>6. QED BY <3>5
  <2>3. QED BY <1>1, <2>1, <2>2
<1>6. TextEdit!Max(S) = l
  <2>1. \A m \in S : l >= m
    BY <1>1, <1>5
  <2>2. ASSUME NEW x \in S, \A m \in S : x >= m PROVE x = l
    BY <1>1, <1>4, <1>5, <2>2
  <2>3. QED BY <1>4, <2>1, <2>2 DEF TextEdit!Max
<1>7. TextEdit!LineOf(q, place) = l
  BY <1>2, <1>6 DEF TextEdit!LineOf
<1>8. place - TextEdit!Before(q, l) = k
  <2>1. s[l] \in Nat
    BY <1>1
  <2>2. QED BY <1>1, <2>1
<1>9. QED BY <1>7, <1>8 DEF TextEdit!InLine

-----------------------------------------------------------------------------
(***************************************************************************)
(* The names of a place, and what is made of them.                         *)
(***************************************************************************)

LEMMA MinIs ==
  ASSUME NEW a \in Int, NEW b \in Int
  PROVE  TextEdit!Min({a, b}) = IF a <= b THEN a ELSE b
<1>1. PICK m : m = IF a <= b THEN a ELSE b
  OBVIOUS
<1>2. m \in {a, b} /\ \A y \in {a, b} : m <= y
  BY <1>1
<1>3. ASSUME NEW x \in {a, b}, \A y \in {a, b} : x <= y PROVE x = m
  BY <1>1, <1>3
<1>4. TextEdit!Min({a, b}) = m
  BY <1>2, <1>3 DEF TextEdit!Min
<1>5. QED BY <1>1, <1>4

\* Place and line, and the widths of that line.
PlaceKnown(q, n, s, place, l, k, m, bytes, units) ==
  /\ Layout(q, n, s) /\ PlaceAt(q, n, s, place, l, k)
  /\ m = Len(q[l]) /\ Widths(q[l], m, bytes, units)

LEMMA KnownAt ==
  ASSUME NEW q, NEW n, NEW s, Layout(q, n, s), NEW place, NEW l, NEW k, PlaceAt(q, n, s, place, l, k)
  PROVE  \E m, bytes, units : PlaceKnown(q, n, s, place, l, k, m, bytes, units)
<1>1. PICK C : q \in Seq(Seq(C)) /\ Len(q) = n
  BY DEF Layout
<1>2. q[l] \in Seq(C)
  BY <1>1 DEF PlaceAt
<1>3. PICK bytes, units : Widths(q[l], Len(q[l]), bytes, units)
  BY <1>2, WidthsExist
<1>4. PlaceKnown(q, n, s, place, l, k, Len(q[l]), bytes, units)
  BY <1>3 DEF PlaceKnown
<1>5. QED BY <1>4

LEMMA KnownPlace ==
  ASSUME NEW q, NEW n, NEW s, Layout(q, n, s), NEW place \in TextEdit!Places(q)
  PROVE  \E l, k, m, bytes, units : PlaceKnown(q, n, s, place, l, k, m, bytes, units)
<1>1. PICK l, k : PlaceAt(q, n, s, place, l, k)
  BY EveryPlace
<1>2. QED BY <1>1, KnownAt

\* What is needed of it.
LEMMA KnownFacts ==
  ASSUME NEW q, NEW n, NEW s, NEW place, NEW l, NEW k, NEW m, NEW bytes, NEW units,
         PlaceKnown(q, n, s, place, l, k, m, bytes, units)
  PROVE  /\ n \in Nat \ {0} /\ Len(q) = n /\ l \in 1..n /\ m \in Nat /\ Len(q[l]) = m
         /\ k \in 0..m /\ (l < n => k < m) /\ (l = n => m = 0 /\ k = 0)
         /\ s[l] \in Nat /\ place = s[l] + k
         /\ bytes \in [0..m -> Nat] /\ bytes[0] = 0 /\ Increases(bytes, m)
         /\ units \in [0..m -> Nat] /\ units[0] = 0 /\ Increases(units, m)
         /\ \A j \in 0..m : /\ TextEdit!CharToByte(q[l], j) = bytes[j]
                            /\ TextEdit!CharToUnit(q[l], j) = units[j]
         /\ TextEdit!BytesOf(q[l]) = bytes[m] /\ TextEdit!UnitsOf(q[l]) = units[m]
<1>1. /\ n \in Nat \ {0} /\ Len(q) = n /\ s \in [1..n -> Nat] /\ q[n] = <<>>
      /\ \A i \in 1..n - 1 : Len(q[i]) \in Nat
      /\ l \in 1..n /\ k \in Nat /\ place = s[l] + k /\ (l < n => k < Len(q[l])) /\ (l = n => k = 0)
      /\ m = Len(q[l]) /\ Widths(q[l], m, bytes, units)
  BY DEF PlaceKnown, Layout, PlaceAt
<1>2. CASE l < n
  <2>1. l \in 1..n - 1
    BY <1>1, <1>2
  <2>2. m \in Nat /\ k \in 0..m
    BY <1>1, <1>2, <2>1
  <2>3. QED BY <1>1, <1>2, <2>2 DEF Widths
<1>3. CASE l = n
  <2>1. m = 0 /\ k \in 0..m
    BY <1>1, <1>3
  <2>2. QED BY <1>1, <1>3, <2>1 DEF Widths
<1>4. QED BY <1>1, <1>2, <1>3

LEMMA Names ==
  ASSUME NEW q, NEW n, NEW s, NEW place, NEW l, NEW k, NEW m, NEW bytes, NEW units,
         PlaceKnown(q, n, s, place, l, k, m, bytes, units), NEW enc
  PROVE  /\ TextEdit!LspName(q, enc, place) =
              [line |-> l - 1, character |-> IF enc = "utf8" THEN bytes[k] ELSE units[k]]
         /\ TextEdit!KakouneName(q, place) = [line |-> l, column |-> bytes[k] + 1]
<1>1. TextEdit!LineOf(q, place) = l /\ TextEdit!InLine(q, place) = SubSeq(q[l], 1, k)
  BY LineOfPlace DEF PlaceKnown
<1>2. TextEdit!CharToByte(q[l], k) = bytes[k] /\ TextEdit!CharToUnit(q[l], k) = units[k]
  BY KnownFacts
<1>3. /\ TextEdit!BytesOf(SubSeq(q[l], 1, k)) = bytes[k]
      /\ TextEdit!UnitsOf(SubSeq(q[l], 1, k)) = units[k]
  BY <1>2 DEF TextEdit!CharToByte, TextEdit!CharToUnit
<1>4. QED BY <1>1, <1>3 DEF TextEdit!LspName, TextEdit!KakouneName

\* Bytes and code units lead back to the character.
LEMMA BackToChar ==
  ASSUME NEW q, NEW n, NEW s, NEW place, NEW l, NEW k, NEW m, NEW bytes, NEW units,
         PlaceKnown(q, n, s, place, l, k, m, bytes, units)
  PROVE  /\ TextEdit!ByteToChar(q[l], bytes[k]) = k
         /\ TextEdit!UnitToChar(q[l], units[k]) = k
<1>1. /\ m \in Nat /\ Len(q[l]) = m /\ k \in 0..m
      /\ bytes \in [0..m -> Nat] /\ Increases(bytes, m)
      /\ units \in [0..m -> Nat] /\ Increases(units, m)
      /\ \A j \in 0..m : /\ TextEdit!CharToByte(q[l], j) = bytes[j]
                         /\ TextEdit!CharToUnit(q[l], j) = units[j]
  BY KnownFacts
<1>2. /\ bytes[k] \in Int /\ bytes[k] <= bytes[k] /\ (k < m => bytes[k] < bytes[k + 1])
      /\ units[k] \in Int /\ units[k] <= units[k] /\ (k < m => units[k] < units[k + 1])
  <2>1. bytes[k] \in Nat /\ units[k] \in Nat
    BY <1>1
  <2>2. ASSUME k < m PROVE k + 1 \in 0..m /\ k < k + 1
    BY <1>1, <2>2
  <2>3. QED BY <1>1, <2>1, <2>2 DEF Increases
<1>3. /\ TextEdit!Cardinality(UpTo(bytes, m, bytes[k])) = k
      /\ TextEdit!Cardinality(UpTo(units, m, units[k])) = k
  <2>1. PICK x, y \in Int : x = bytes[k] /\ y = units[k]
    BY <1>2
  <2>2. TextEdit!Cardinality(UpTo(bytes, m, x)) = k
    BY <1>1, <1>2, <2>1, CharOf
  <2>3. TextEdit!Cardinality(UpTo(units, m, y)) = k
    BY <1>1, <1>2, <2>1, CharOf
  <2>4. QED BY <2>1, <2>2, <2>3
<1>4. /\ {j \in 1..m : TextEdit!CharToByte(q[l], j) <= bytes[k]} = UpTo(bytes, m, bytes[k])
      /\ {j \in 1..m : TextEdit!CharToUnit(q[l], j) <= units[k]} = UpTo(units, m, units[k])
  BY <1>1 DEF UpTo
<1>5. QED BY <1>1, <1>3, <1>4 DEF TextEdit!ByteToChar, TextEdit!UnitToChar

\* A column from the first byte of a character up to its last names it; the newline has
\* all columns behind it, too.
LEMMA ClampIs ==
  ASSUME NEW q, NEW n, NEW s, NEW place, NEW l, NEW k, NEW m, NEW bytes, NEW units,
         PlaceKnown(q, n, s, place, l, k, m, bytes, units), l < n,
         NEW column \in Int, bytes[k] <= column - 1, k < m - 1 => column - 1 < bytes[k + 1]
  PROVE  TextEdit!Clamp(q, [line |-> l, column |-> column]) = place
<1>1. /\ n \in Nat \ {0} /\ Len(q) = n /\ l \in 1..n /\ m \in Nat /\ Len(q[l]) = m
      /\ k \in 0..m /\ k < m
      /\ place = s[l] + k
      /\ bytes \in [0..m -> Nat] /\ Increases(bytes, m)
      /\ \A j \in 0..m : TextEdit!CharToByte(q[l], j) = bytes[j]
  BY KnownFacts
<1>2. TextEdit!Min({l, Len(q) - 1}) = l
  <2>1. l \in Int /\ n - 1 \in Int /\ l <= n - 1
    BY <1>1
  <2>2. QED BY <1>1, <2>1, MinIs
<1>3. PICK chars : chars = TextEdit!ByteToChar(q[l], column - 1)
  OBVIOUS
<1>4. chars = TextEdit!Cardinality(UpTo(bytes, m, column - 1))
  <2>1. {j \in 1..m : TextEdit!CharToByte(q[l], j) <= column - 1} = UpTo(bytes, m, column - 1)
    BY <1>1 DEF UpTo
  <2>2. QED BY <1>1, <1>3, <2>1 DEF TextEdit!ByteToChar
<1>5. chars \in Int /\ (IF chars <= m - 1 THEN chars ELSE m - 1) = k
  <2>1. CASE column - 1 < bytes[k + 1]
    <3>1. chars = k
      <4>1. PICK to \in Int : to = column - 1
        OBVIOUS
      <4>2. bytes[k] <= to /\ (k < m => to < bytes[k + 1])
        BY <2>1, <4>1
      <4>3. m \in Nat /\ bytes \in [0..m -> Nat] /\ Increases(bytes, m) /\ k \in 0..m
        BY <1>1
      <4>4. TextEdit!Cardinality(UpTo(bytes, m, to)) = k
        BY <4>2, <4>3, CharOf
      <4>5. QED BY <1>4, <4>1, <4>4
    <3>2. QED BY <1>1, <3>1
  <2>2. CASE ~(column - 1 < bytes[k + 1])
    <3>1. k = m - 1 /\ m \in 0..m /\ k + 1 = m
      BY <1>1, <2>2
    <3>2. bytes[m] <= column - 1
      <4>1. bytes[m] \in Nat
        BY <1>1, <3>1
      <4>2. QED BY <2>2, <3>1, <4>1
    <3>3. chars = m
      <4>1. PICK to \in Int : to = column - 1
        OBVIOUS
      <4>2. bytes[m] <= to /\ (m < m => to < bytes[m + 1])
        BY <1>1, <3>2, <4>1
      <4>3. m \in Nat /\ bytes \in [0..m -> Nat] /\ Increases(bytes, m) /\ m \in 0..m
        BY <1>1, <3>1
      <4>4. TextEdit!Cardinality(UpTo(bytes, m, to)) = m
        BY <4>2, <4>3, CharOf
      <4>5. QED BY <1>4, <4>1, <4>4
    <3>4. QED BY <1>1, <3>1, <3>3
  <2>3. QED BY <2>1, <2>2
<1>6. TextEdit!Min({chars, Len(q[l]) - 1}) = k
  <2>1. m - 1 \in Int
    BY <1>1
  <2>2. QED BY <1>1, <1>5, <2>1, MinIs
<1>7. TextEdit!Before(q, l) = s[l]
  BY <1>1 DEF PlaceKnown, Layout
<1>8. QED BY <1>1, <1>2, <1>3, <1>6, <1>7 DEF TextEdit!Clamp

\* The editor's name of a place is turned into the server's.
LEMMA OfEditor ==
  ASSUME NEW q, NEW n, NEW s, NEW place, NEW l, NEW k, NEW m, NEW bytes, NEW units,
         PlaceKnown(q, n, s, place, l, k, m, bytes, units), NEW enc
  PROVE  TextEdit!KakounePositionToLsp(q, enc, TextEdit!KakouneName(q, place)) = TextEdit!LspName(q, enc, place)
<1>1. /\ n \in Nat \ {0} /\ Len(q) = n /\ l \in 1..n /\ m \in Nat /\ k \in 0..m
      /\ (l < n => k < m) /\ (l = n => m = 0 /\ k = 0)
      /\ bytes \in [0..m -> Nat] /\ bytes[0] = 0 /\ Increases(bytes, m)
      /\ units \in [0..m -> Nat] /\ units[0] = 0
      /\ TextEdit!CharToUnit(q[l], k) = units[k]
      /\ TextEdit!BytesOf(q[l]) = bytes[m]
  BY KnownFacts
<1>2. PICK x, y \in Nat : x = bytes[k] /\ y = units[k]
  BY <1>1
<1>3. PICK p : p = [line |-> l, column |-> x + 1]
  OBVIOUS
<1>4. /\ TextEdit!KakouneName(q, place) = p
      /\ TextEdit!LspName(q, enc, place) = [line |-> l - 1, character |-> IF enc = "utf8" THEN x ELSE y]
  BY <1>2, <1>3, Names
<1>5. p.line = l /\ p.column = x + 1 /\ p.line - 1 = l - 1 /\ p.column - 1 = x /\ ~(p.line > Len(q))
  BY <1>1, <1>3
<1>6. CASE enc = "utf8"
  BY <1>4, <1>5, <1>6 DEF TextEdit!KakounePositionToLsp
<1>7. CASE enc # "utf8" /\ p.column > TextEdit!BytesOf(q[l])
  <2>1. x = 0 /\ y = 0
    <3>1. CASE l = n
      BY <1>1, <1>2, <3>1
    <3>2. CASE l < n
      <4>1. k < m /\ m \in 0..m /\ bytes[m] \in Nat
        BY <1>1, <3>2
      <4>2. x < bytes[m]
        BY <1>1, <1>2, <4>1 DEF Increases
      <4>3. QED BY <1>1, <1>5, <1>7, <4>1, <4>2
    <3>3. QED BY <1>1, <3>1, <3>2
  <2>2. QED BY <1>4, <1>5, <1>7, <2>1 DEF TextEdit!KakounePositionToLsp
<1>8. CASE enc # "utf8" /\ ~(p.column > TextEdit!BytesOf(q[l]))
  <2>1. TextEdit!CharToUnit(q[l], TextEdit!ByteToChar(q[l], x)) = y
    BY <1>1, <1>2, BackToChar
  <2>2. TextEdit!KakounePositionToLsp(q, enc, p) =
          [[line |-> l - 1, character |-> x] EXCEPT
             !.character = TextEdit!CharToUnit(q[l], TextEdit!ByteToChar(q[l], @))]
    BY <1>5, <1>8 DEF TextEdit!KakounePositionToLsp
  <2>3. TextEdit!KakounePositionToLsp(q, enc, p) = [line |-> l - 1, character |-> y]
    BY <2>1, <2>2
  <2>4. QED BY <1>4, <1>8, <2>3
<1>9. QED BY <1>6, <1>7, <1>8

\* The column that stands for the end of a line lies behind the line.
ShortLines(q, n) ==
  \A l \in 1..n - 1 : TextEdit!CharToByte(q[l], Len(q[l]) - 1) < TextEdit!EolOffset

\* The server's name of a place is understood by the editor, unless its code units are taken
\* for a number of characters that lies behind the line.
Behind(enc, k, m, units) == enc # "utf8" /\ k < m - 1 /\ units[k] >= m

LEMMA OfServer ==
  ASSUME NEW q, NEW n, NEW s, NEW place, NEW l, NEW k, NEW m, NEW bytes, NEW units,
         PlaceKnown(q, n, s, place, l, k, m, bytes, units), NEW enc, l < n, ShortLines(q, n)
  PROVE  TextEdit!Clamp(q, TextEdit!LspPositionToKakoune(q, enc, TextEdit!LspName(q, enc, place))) = place
           <=> ~Behind(enc, k, m, units)
<1>1. /\ n \in Nat \ {0} /\ Len(q) = n /\ l \in 1..n - 1 /\ m \in Nat /\ Len(q[l]) = m /\ k \in 0..m - 1
      /\ place = s[l] + k /\ s[l] \in Nat
      /\ bytes \in [0..m -> Nat] /\ Increases(bytes, m)
      /\ units \in [0..m -> Nat]
      /\ \A j \in 0..m : /\ TextEdit!CharToByte(q[l], j) = bytes[j]
                         /\ TextEdit!CharToUnit(q[l], j) = units[j]
  <2>1. /\ n \in Nat \ {0} /\ Len(q) = n /\ l \in 1..n /\ m \in Nat /\ Len(q[l]) = m /\ k \in 0..m /\ k < m
        /\ place = s[l] + k /\ s[l] \in Nat
        /\ bytes \in [0..m -> Nat] /\ Increases(bytes, m)
        /\ units \in [0..m -> Nat]
        /\ \A j \in 0..m : /\ TextEdit!CharToByte(q[l], j) = bytes[j]
                           /\ TextEdit!CharToUnit(q[l], j) = units[j]
    BY KnownFacts
  <2>2. l \in 1..n - 1 /\ k \in 0..m - 1
    <3>1. n \in Nat /\ l \in 1..n /\ m \in Nat /\ k \in 0..m /\ k < m
      BY <2>1
    <3>2. QED BY <3>1
  <2>3. QED BY <2>1, <2>2, Zenon
<1>2. PICK x, y \in Nat : x = bytes[k] /\ y = units[k]
  BY <1>1
<1>3. PICK p : p = [line |-> l - 1, character |-> IF enc = "utf8" THEN x ELSE y]
  OBVIOUS
<1>4. TextEdit!LspName(q, enc, place) = p
  BY <1>2, <1>3, Names
<1>5. p.line + 1 = l /\ p.line = l - 1 /\ ~(p.line >= Len(q))
  BY <1>1, <1>3
<1>6. bytes[k] <= (x + 1) - 1 /\ (k < m - 1 => (x + 1) - 1 < bytes[k + 1])
  <2>1. ASSUME k < m - 1 PROVE k + 1 \in 0..m /\ k < k + 1 /\ k \in 0..m
    BY <1>1, <2>1
  <2>2. QED BY <1>1, <1>2, <2>1 DEF Increases
<1>7. TextEdit!Clamp(q, [line |-> l, column |-> x + 1]) = place
  BY <1>2, <1>6, ClampIs
<1>8. CASE enc = "utf8"
  <2>1. TextEdit!LspPositionToKakoune(q, enc, p) = [line |-> l, column |-> x + 1]
    BY <1>3, <1>5, <1>8 DEF TextEdit!LspPositionToKakoune
  <2>2. QED BY <1>4, <1>7, <1>8, <2>1 DEF Behind
<1>9. CASE enc # "utf8"
  <2>1. TextEdit!GetLine(q, p.line) = q[l]
    <3>1. TextEdit!Min({l, n}) = l
      BY <1>1, MinIs
    <3>2. QED BY <1>1, <1>5, <3>1 DEF TextEdit!GetLine
  <2>2. p.character = y
    BY <1>3, <1>9
  <2>3. TextEdit!CharToByte(q[l], TextEdit!UnitToChar(q[l], y)) = x
    <3>1. k \in 0..m
      BY <1>1
    <3>2. TextEdit!UnitToChar(q[l], y) = k
      BY <1>2, BackToChar
    <3>3. QED BY <1>1, <1>2, <3>1, <3>2
  <2>4. CASE y >= Len(q[l])
    <3>1. PICK h, there : h = m - 1 /\ there = s[l] + h
      OBVIOUS
    <3>2. PlaceAt(q, n, s, there, l, h)
      <4>1. h \in Nat /\ h < m /\ l \in 1..n /\ ~(l = n)
        BY <1>1, <3>1
      <4>2. QED BY <1>1, <3>1, <4>1 DEF PlaceAt
    <3>3. PICK hm, hbytes, hunits : PlaceKnown(q, n, s, there, l, h, hm, hbytes, hunits)
      <4>1. Layout(q, n, s)
        BY DEF PlaceKnown
      <4>2. QED BY <3>2, <4>1, KnownAt
    <3>4. /\ hm = m /\ hbytes[h] \in Nat /\ TextEdit!CharToByte(q[l], h) = hbytes[h]
      <4>1. /\ hm = Len(q[l]) /\ h \in 0..hm /\ hbytes \in [0..hm -> Nat]
            /\ \A j \in 0..hm : TextEdit!CharToByte(q[l], j) = hbytes[j]
        BY <3>3, KnownFacts
      <4>2. QED BY <1>1, <4>1
    <3>5. hbytes[h] <= TextEdit!FarRight - 1
      <4>1. TextEdit!CharToByte(q[l], Len(q[l]) - 1) < TextEdit!EolOffset
        BY <1>1 DEF ShortLines
      <4>2. hbytes[h] < TextEdit!EolOffset
        BY <1>1, <3>1, <3>4, <4>1
      <4>3. QED BY <3>4, <4>2 DEF TextEdit!EolOffset, TextEdit!FarRight
    <3>6. TextEdit!FarRight \in Int /\ ~(h < hm - 1)
      BY <1>1, <3>1, <3>4 DEF TextEdit!FarRight
    <3>7. TextEdit!Clamp(q, [line |-> l, column |-> TextEdit!FarRight]) = there
      BY <3>3, <3>5, <3>6, ClampIs
    <3>8. TextEdit!LspPositionToKakoune(q, enc, p) = [line |-> l, column |-> TextEdit!FarRight]
      BY <1>5, <1>9, <2>1, <2>2, <2>4 DEF TextEdit!LspPositionToKakoune
    <3>9. there = place <=> ~(k < m - 1)
      <4>1. PICK base \in Nat : base = s[l]
        BY <1>1
      <4>2. there = base + (m - 1) /\ place = base + k
        BY <1>1, <3>1, <4>1
      <4>3. m \in Nat /\ k \in 0..m - 1
        BY <1>1
      <4>4. QED BY <4>2, <4>3
    <3>10. Behind(enc, k, m, units) <=> k < m - 1
      BY <1>1, <1>2, <1>9, <2>4 DEF Behind
    <3>11. QED BY <1>4, <3>7, <3>8, <3>9, <3>10
  <2>5. CASE ~(y >= Len(q[l]))
    <3>1. TextEdit!LspPositionToKakoune(q, enc, p) = [line |-> l, column |-> x + 1]
      BY <1>5, <1>9, <2>1, <2>2, <2>3, <2>5 DEF TextEdit!LspPositionToKakoune
    <3>2. ~Behind(enc, k, m, units)
      BY <1>1, <1>2, <2>5 DEF Behind
    <3>3. QED BY <1>4, <1>7, <3>1, <3>2
  <2>6. QED BY <2>4, <2>5
<1>10. QED BY <1>8, <1>9

LEMMA ByteIndexIs ==
  ASSUME NEW q, NEW n, NEW s, NEW place, NEW l, NEW k, NEW m, NEW bytes, NEW units,
         PlaceKnown(q, n, s, place, l, k, m, bytes, units)
  PROVE  TextEdit!ByteIndex(q, [line |-> l - 1, character |-> units[k]]) = bytes[k]
<1>1. /\ n \in Nat \ {0} /\ Len(q) = n /\ l \in 1..n /\ m \in Nat /\ k \in 0..m
      /\ units \in [0..m -> Nat] /\ Increases(units, m)
      /\ TextEdit!CharToByte(q[l], k) = bytes[k]
      /\ TextEdit!UnitsOf(q[l]) = units[m]
  BY KnownFacts
<1>2. PICK p : p = [line |-> l - 1, character |-> units[k]]
  OBVIOUS
<1>3. TextEdit!GetLine(q, p.line) = q[l]
  <2>1. p.line + 1 = l /\ TextEdit!Min({l, n}) = l
    BY <1>1, <1>2, MinIs
  <2>2. QED BY <1>1, <2>1 DEF TextEdit!GetLine
<1>4. TextEdit!Min({p.character, TextEdit!UnitsOf(q[l])}) = units[k]
  <2>1. units[k] \in Nat /\ units[m] \in Nat /\ units[k] <= units[m]
    <3>1. m \in 0..m /\ units[k] \in Nat /\ units[m] \in Nat
      BY <1>1
    <3>2. k = m \/ k < m
      BY <1>1
    <3>3. QED BY <1>1, <3>1, <3>2 DEF Increases
  <2>2. QED BY <1>1, <1>2, <2>1, MinIs
<1>5. TextEdit!UnitToChar(q[l], units[k]) = k
  BY BackToChar
<1>6. QED BY <1>1, <1>2, <1>3, <1>4, <1>5 DEF TextEdit!ByteIndex

\* Both encodings come to a range of bytes.
LEMMA RangeIs ==
  ASSUME NEW q, NEW n, NEW s, NEW enc,
         NEW place, NEW l, NEW k, NEW m, NEW bytes, NEW units,
         PlaceKnown(q, n, s, place, l, k, m, bytes, units),
         NEW other, NEW ol, NEW ok, NEW om, NEW obytes, NEW ounits,
         PlaceKnown(q, n, s, other, ol, ok, om, obytes, ounits)
  PROVE  TextEdit!LspRangeToKakoune(q, enc, TextEdit!LspName(q, enc, place), TextEdit!LspName(q, enc, other))
           = TextEdit!ToInclusive([line |-> l - 1, character |-> bytes[k]],
                                  [line |-> ol - 1, character |-> obytes[ok]])
<1>1. CASE enc = "utf8"
  BY <1>1, Names DEF TextEdit!LspRangeToKakoune
<1>2. CASE enc # "utf8"
  <2>1. PICK a, b : /\ a = [line |-> l - 1, character |-> units[k]]
                    /\ b = [line |-> ol - 1, character |-> ounits[ok]]
    OBVIOUS
  <2>2. TextEdit!LspName(q, enc, place) = a /\ TextEdit!LspName(q, enc, other) = b
    BY <1>2, <2>1, Names
  <2>3. TextEdit!ByteIndex(q, a) = bytes[k] /\ TextEdit!ByteIndex(q, b) = obytes[ok]
    BY <2>1, ByteIndexIs
  <2>4. /\ [a EXCEPT !.character = TextEdit!ByteIndex(q, a)] = [line |-> l - 1, character |-> bytes[k]]
        /\ [b EXCEPT !.character = TextEdit!ByteIndex(q, b)] = [line |-> ol - 1, character |-> obytes[ok]]
    BY <2>1, <2>3
  <2>5. QED BY <1>2, <2>2, <2>4 DEF TextEdit!LspRangeToKakoune
<1>3. QED BY <1>1, <1>2

\* The range of a server becomes the one from its first to its last character.
ServersRange(q, enc, place, other) ==
  TextEdit!LspRangeToKakoune(q, enc, TextEdit!LspName(q, enc, place), TextEdit!LspName(q, enc, other))
Spans(q, range, place, last) == TextEdit!Clamp(q, range.start) = place /\ TextEdit!Clamp(q, range.end) = last

LEMMA OfRange ==
  ASSUME NEW q, NEW n, NEW s, NEW enc, Layout(q, n, s), ShortLines(q, n),
         NEW place, NEW other, place \in TextEdit!Places(q), other \in TextEdit!Places(q), place < other
  PROVE  Spans(q, ServersRange(q, enc, place, other), place, other - 1)
<1> DEFINE range == ServersRange(q, enc, place, other)
<1>1. PICK l, k, m, bytes, units : PlaceKnown(q, n, s, place, l, k, m, bytes, units)
  BY KnownPlace
<1>2. PICK ol, ok, om, obytes, ounits : PlaceKnown(q, n, s, other, ol, ok, om, obytes, ounits)
  BY KnownPlace
<1>3. /\ n \in Nat \ {0} /\ l \in 1..n /\ m \in Nat /\ m = Len(q[l]) /\ k \in 0..m
      /\ (l < n => k < m) /\ (l = n => k = 0)
      /\ s[l] \in Nat /\ place = s[l] + k
      /\ bytes \in [0..m -> Nat] /\ Increases(bytes, m)
      /\ \A j \in 0..m : TextEdit!CharToByte(q[l], j) = bytes[j]
  BY <1>1, KnownFacts
<1>4. /\ ol \in 1..n /\ om \in Nat /\ om = Len(q[ol]) /\ ok \in 0..om
      /\ (ol < n => ok < om) /\ (ol = n => om = 0 /\ ok = 0)
      /\ s[ol] \in Nat /\ other = s[ol] + ok
      /\ obytes \in [0..om -> Nat] /\ obytes[0] = 0 /\ Increases(obytes, om)
      /\ \A j \in 0..om : TextEdit!CharToByte(q[ol], j) = obytes[j]
  BY <1>2, KnownFacts
<1>5. /\ s[1] = 0 /\ other \in 0..s[n] /\ s[n] \in Nat
      /\ \A i \in 1..n - 1 : Len(q[i]) \in Nat \ {0} /\ s[i + 1] = s[i] + Len(q[i])
      /\ \A i \in 1..n : s[i] \in Nat
  <2>1. /\ s[1] = 0 /\ s \in [1..n -> Nat] /\ Len(TextEdit!Characters(q)) = s[n]
        /\ \A i \in 1..n - 1 : Len(q[i]) \in Nat \ {0} /\ s[i + 1] = s[i] + Len(q[i])
    BY DEF Layout
  <2>2. n \in 1..n
    BY <1>3
  <2>3. other \in 0..s[n]
    BY <2>1 DEF TextEdit!Places
  <2>4. QED BY <2>1, <2>2, <2>3
<1>6. l < n
  BY <1>3, <1>5
<1>7. PICK x, y \in Nat : x = bytes[k] /\ y = obytes[ok]
  BY <1>3, <1>4
<1>8. PICK a, b : a = [line |-> l - 1, character |-> x] /\ b = [line |-> ol - 1, character |-> y]
  OBVIOUS
<1>9. range = TextEdit!ToInclusive(a, b)
  BY <1>1, <1>2, <1>7, <1>8, RangeIs DEF ServersRange
<1> HIDE DEF range
<1>10. a.line + 1 = l /\ b.line = ol - 1 /\ b.line + 1 = ol /\ a.character = x /\ b.character = y
  BY <1>3, <1>4, <1>8
<1>11. a # b
  <2>1. CASE l = ol
    <3>1. k < ok /\ m = om
      BY <1>3, <1>4, <2>1
    <3>2. obytes[ok] = bytes[ok] /\ bytes[k] < bytes[ok] /\ bytes[k] \in Nat
      BY <1>3, <1>4, <2>1, <3>1 DEF Increases
    <3>3. x # y
      BY <1>7, <3>2
    <3>4. QED BY <1>10, <3>3
  <2>2. CASE l # ol
    BY <1>10, <2>2
  <2>3. QED BY <2>1, <2>2
<1>12. TextEdit!Clamp(q, range.start) = place
  <2>1. range.start = [line |-> l, column |-> x + 1]
    BY <1>9, <1>10 DEF TextEdit!ToInclusive
  <2>2. bytes[k] <= (x + 1) - 1 /\ (k < m - 1 => (x + 1) - 1 < bytes[k + 1])
    <3>1. ASSUME k < m - 1 PROVE k + 1 \in 0..m /\ k < k + 1
      BY <1>3, <3>1
    <3>2. QED BY <1>3, <1>7, <3>1 DEF Increases
  <2>3. x + 1 \in Int
    OBVIOUS
  <2>4. QED BY <1>1, <1>6, <2>1, <2>2, <2>3, ClampIs
<1>13. CASE ok = 0
  <2>1. y = 0
    BY <1>4, <1>7, <1>13
  <2>2. range.end = [line |-> ol - 1, column |-> TextEdit!EolOffset]
    BY <1>9, <1>10, <1>11, <2>1 DEF TextEdit!ToInclusive
  <2>3. PICK i : i = ol - 1
    OBVIOUS
  <2>4. i \in 1..n - 1 /\ i < n /\ i + 1 = ol
    <3>1. ol # 1
      <4>1. place \in Nat /\ other \in Nat /\ place < other
        <5>1. place \in Nat
          BY <1>3
        <5>2. other \in Nat
          BY <1>4
        <5>3. QED BY <5>1, <5>2
      <4>2. ASSUME ol = 1 PROVE other = 0
        BY <1>4, <1>5, <1>13, <4>2
      <4>3. other # 0
        BY <4>1
      <4>4. QED BY <4>2, <4>3
    <3>2. QED BY <1>3, <1>4, <2>3, <3>1
  <2>5. PICK h : h = Len(q[i]) - 1
    OBVIOUS
  <2>6. PlaceAt(q, n, s, other - 1, i, h)
    <3>1. Len(q[i]) \in Nat \ {0} /\ s[ol] = s[i] + Len(q[i]) /\ s[i] \in Nat
      <4>1. i \in 1..n /\ i \in 1..n - 1
        BY <1>3, <2>4
      <4>2. s[i + 1] = s[i] + Len(q[i]) /\ Len(q[i]) \in Nat \ {0} /\ s[i] \in Nat
        BY <1>5, <4>1
      <4>3. QED BY <2>4, <4>2
    <3>2. h \in Nat /\ other - 1 = s[i] + h /\ h < Len(q[i])
      BY <1>4, <1>13, <2>5, <3>1
    <3>3. i \in 1..n /\ i # n
      BY <1>3, <2>4
    <3>4. QED BY <3>2, <3>3 DEF PlaceAt
  <2>7. PICK im, ibytes, iunits : PlaceKnown(q, n, s, other - 1, i, h, im, ibytes, iunits)
    BY <2>6, KnownAt
  <2>8. /\ im \in Nat /\ im = Len(q[i]) /\ h \in 0..im /\ ibytes \in [0..im -> Nat]
        /\ \A j \in 0..im : TextEdit!CharToByte(q[i], j) = ibytes[j]
    BY <2>7, KnownFacts
  <2>9. ibytes[h] <= TextEdit!EolOffset - 1 /\ ~(h < im - 1) /\ TextEdit!EolOffset \in Int
    <3>1. ibytes[h] \in Nat /\ ibytes[h] < TextEdit!EolOffset
      BY <2>4, <2>5, <2>8 DEF ShortLines
    <3>2. QED BY <2>5, <2>8, <3>1 DEF TextEdit!EolOffset
  <2>10. TextEdit!Clamp(q, [line |-> i, column |-> TextEdit!EolOffset]) = other - 1
    BY <2>4, <2>7, <2>9, ClampIs
  <2>11. QED BY <1>12, <2>2, <2>3, <2>10 DEF Spans, range
<1>14. CASE ok # 0
  <2>1. y # 0 /\ ol < n
    <3>1. 0 \in 0..om /\ 0 < ok
      BY <1>4, <1>14
    <3>2. obytes[0] < obytes[ok]
      BY <1>4, <3>1 DEF Increases
    <3>3. QED BY <1>3, <1>4, <1>7, <1>14, <3>2
  <2>2. range.end = [line |-> ol, column |-> y]
    BY <1>9, <1>10, <1>11, <2>1 DEF TextEdit!ToInclusive
  <2>3. PlaceAt(q, n, s, other - 1, ol, ok - 1)
    <3>1. ok - 1 \in Nat /\ other - 1 = s[ol] + (ok - 1) /\ ok - 1 < Len(q[ol]) /\ ol # n
      BY <1>3, <1>4, <1>14, <2>1
    <3>2. QED BY <1>4, <3>1 DEF PlaceAt
  <2>4. PlaceKnown(q, n, s, other - 1, ol, ok - 1, om, obytes, ounits)
    BY <1>2, <2>3 DEF PlaceKnown
  <2>5. obytes[ok - 1] <= y - 1 /\ (ok - 1 < om - 1 => y - 1 < obytes[(ok - 1) + 1])
    <3>1. ok - 1 \in 0..om /\ ok - 1 < ok /\ (ok - 1) + 1 = ok
      BY <1>4, <1>14
    <3>2. obytes[ok - 1] \in Nat /\ obytes[ok - 1] < obytes[ok]
      BY <1>4, <3>1 DEF Increases
    <3>3. QED BY <1>7, <3>1, <3>2
  <2>6. TextEdit!Clamp(q, [line |-> ol, column |-> y]) = other - 1
    BY <2>1, <2>4, <2>5, ClampIs
  <2>7. QED BY <1>12, <2>2, <2>6 DEF Spans, range
<1>15. QED BY <1>13, <1>14

-----------------------------------------------------------------------------
(***************************************************************************)
(* The text stays a document, and its lines are short.                     *)
(***************************************************************************)

DocumentInv == text \in TextEdit!Documents

LEMMA DocumentLines ==
  ASSUME DocumentInv
  PROVE  \E n, s : Layout(text, n, s) /\ ShortLines(text, n)
<1>1. PICK m, c : m \in 1..MaxLines /\ c \in [1..m -> Contents] /\ text = TextEdit!Document(c)
  BY DEF DocumentInv, TextEdit!Documents
<1>2. PICK C : C = {TextEdit!Narrow, TextEdit!Wide}
  OBVIOUS
<1>3. m \in Nat /\ \A l \in 1..m : c[l] \in Seq(C) /\ TextEdit!BytesOf(c[l]) < TextEdit!EolOffset
  BY <1>1, <1>2, PositionsAssumption
<1>4. c \in Seq(Seq(C)) /\ Len(c) = m
  <2>1. PICK S : S = Seq(C)
    OBVIOUS
  <2>2. c \in [1..m -> S] /\ m \in Nat
    BY <1>1, <1>3, <2>1
  <2>3. c \in Seq(S) /\ Len(c) = m
    BY <2>2
  <2>4. QED BY <2>1, <2>3
<1>5. PICK s : Layout(text, m + 1, s)
  BY <1>1, <1>4, LayoutExists
<1>6. ASSUME NEW l \in 1..(m + 1) - 1
      PROVE  TextEdit!CharToByte(text[l], Len(text[l]) - 1) < TextEdit!EolOffset
  <2>1. l \in 1..m
    BY <1>3, <1>6
  <2>2. PICK line, ls : line = c[l] /\ ls = [j \in 1..m |-> Append(c[j], TextEdit!Newline)]
    OBVIOUS
  <2>3. PICK k \in Nat : k = Len(line)
    BY <1>3, <2>1, <2>2
  <2>4. text[l] = Append(line, TextEdit!Newline)
    <3>1. text = ls \o << <<>> >>
      BY <1>1, <1>4, <2>2 DEF TextEdit!Document
    <3>2. PICK S : \A j \in 1..m : ls[j] \in S
      <4>1. \A j \in 1..m : ls[j] \in {ls[i] : i \in 1..m}
        OBVIOUS
      <4>2. QED BY <4>1
    <3>3. ls \in Seq(S) /\ Len(ls) = m
      <4>1. ls \in [1..m -> S]
        BY <2>2, <3>2
      <4>2. QED BY <1>3, <2>2, <4>1
    <3>4. text[l] = ls[l]
      BY <2>1, <3>1, <3>3
    <3>5. QED BY <2>1, <2>2, <3>4
  <2>5. line \in Seq(C)
    BY <1>3, <2>1, <2>2
  <2>6. Len(text[l]) - 1 = k
    <3>1. PICK D : D = C \cup {TextEdit!Newline}
      OBVIOUS
    <3>2. line \in Seq(D) /\ TextEdit!Newline \in D
      BY <2>5, <3>1
    <3>3. Len(Append(line, TextEdit!Newline)) = Len(line) + 1
      BY <3>2
    <3>4. QED BY <2>3, <2>4, <3>3
  <2>7. SubSeq(text[l], 1, k) = line
    <3>1. PICK D, e : D = C \cup {TextEdit!Newline} /\ e = TextEdit!Newline
      OBVIOUS
    <3>2. line \in Seq(D) /\ e \in D
      BY <2>5, <3>1
    <3>3. SubSeq(Append(line, e), 1, Len(line)) = line
      BY <3>2
    <3>4. QED BY <2>3, <2>4, <3>1, <3>3
  <2>8. TextEdit!CharToByte(text[l], k) = TextEdit!BytesOf(line)
    BY <2>7 DEF TextEdit!CharToByte
  <2>9. QED BY <1>3, <2>1, <2>2, <2>6, <2>8
<1>7. ShortLines(text, m + 1)
  BY <1>6 DEF ShortLines
<1>8. QED BY <1>5, <1>7

LEMMA DocumentInvariant == Spec => [](part = "text edits" => DocumentInv)
<1> DEFINE I == part = "text edits" => DocumentInv
<1>1. Init => I
  BY DEF Init, TextEdit!Init, DocumentInv
<1>2. I /\ [Next]_vars => I'
  <2> SUFFICES ASSUME I, [Next]_vars, part' = "text edits" PROVE DocumentInv'
    OBVIOUS
  <2>1. part = "text edits"
    BY DEF Next, vars
  <2>2. TextEdit!Next \/ UNCHANGED ofTextEdits
    BY <2>1 DEF Next, vars
  <2>3. UNCHANGED text
    BY <2>2 DEF ofTextEdits, TextEdit!Next, TextEdit!Ask, TextEdit!Apply, TextEdit!Done, TextEdit!vars
  <2>4. QED BY <2>1, <2>3 DEF DocumentInv, TextEdit!Documents
<1>3. QED BY <1>1, <1>2, PTL DEF Spec

\* A place that the editor or a server names is that place for the other, and a range is
\* what lies between its ends, whatever characters a line has; only a column in code units
\* that is at least the line's number of characters is taken for the end of the line
\* (position.rs).
THEOREM PlacesAreKept == Spec => []PositionsAgree
<1>1. ASSUME DocumentInv PROVE TextEdit!PositionsAgree
  <2>1. PICK n, s : Layout(text, n, s) /\ ShortLines(text, n)
    BY <1>1, DocumentLines
  <2>2. PICK size : size = Len(TextEdit!Characters(text))
    OBVIOUS
  <2>3. size = s[n] /\ s[n] \in Nat /\ n \in Nat \ {0} /\ TextEdit!Places(text) = 0..size
    <3>1. n \in Nat \ {0} /\ s \in [1..n -> Nat] /\ size = s[n]
      BY <2>1, <2>2 DEF Layout
    <3>2. n \in 1..n
      BY <3>1
    <3>3. QED BY <2>2, <3>1, <3>2 DEF TextEdit!Places
  <2>4. ASSUME NEW place \in TextEdit!Places(text), NEW lsp, lsp = TextEdit!LspName(text, encoding, place)
        PROVE  /\ TextEdit!KakounePositionToLsp(text, encoding, TextEdit!KakouneName(text, place)) = lsp
               /\ place < size =>
                    (TextEdit!Clamp(text, TextEdit!LspPositionToKakoune(text, encoding, lsp)) = place
                       <=> ~TextEdit!TakenForEnd(place))
    <3>1. PICK l, k, m, bytes, units : PlaceKnown(text, n, s, place, l, k, m, bytes, units)
      BY <2>1, KnownPlace
    <3>2. TextEdit!KakounePositionToLsp(text, encoding, TextEdit!KakouneName(text, place)) = lsp
      BY <2>4, <3>1, OfEditor
    <3>3. ASSUME place < size
          PROVE  TextEdit!Clamp(text, TextEdit!LspPositionToKakoune(text, encoding, lsp)) = place
                   <=> ~TextEdit!TakenForEnd(place)
      <4>1. /\ l \in 1..n /\ m \in Nat /\ Len(text[l]) = m /\ k \in 0..m /\ (l = n => k = 0)
            /\ s[l] \in Nat /\ place = s[l] + k
            /\ units \in [0..m -> Nat]
            /\ TextEdit!CharToUnit(text[l], k) = units[k]
        BY <3>1, KnownFacts
      <4>2. l < n /\ l \in 1..n - 1
        BY <2>3, <3>3, <4>1
      <4>3. TextEdit!Before(text, l + 1) = s[l] + m
        <5>1. l + 1 \in 1..n
          BY <2>3, <4>2
        <5>2. TextEdit!Before(text, l + 1) = s[l + 1] /\ s[l + 1] = s[l] + m
          BY <2>1, <4>1, <4>2, <5>1 DEF Layout
        <5>3. QED BY <5>2
      <4>4. TextEdit!LineOf(text, place) = l /\ TextEdit!InLine(text, place) = SubSeq(text[l], 1, k)
        BY <3>1, LineOfPlace DEF PlaceKnown
      <4>5. TextEdit!UnitsOf(TextEdit!InLine(text, place)) = units[k]
        BY <4>1, <4>4 DEF TextEdit!CharToUnit
      <4>6. place + 1 < s[l] + m <=> k < m - 1
        BY <4>1
      <4>7. TextEdit!TakenForEnd(place) <=> Behind(encoding, k, m, units)
        BY <4>1, <4>3, <4>4, <4>5, <4>6 DEF TextEdit!TakenForEnd, Behind
      <4>8. QED BY <2>1, <2>4, <3>1, <4>2, <4>7, OfServer
    <3>4. QED BY <3>2, <3>3
  <2>5. ASSUME NEW place \in TextEdit!Places(text), NEW other \in place + 1..size,
               NEW range,
               range = TextEdit!LspRangeToKakoune(text, encoding, TextEdit!LspName(text, encoding, place),
                                                  TextEdit!LspName(text, encoding, other))
        PROVE  TextEdit!Clamp(text, range.start) = place /\ TextEdit!Clamp(text, range.end) = other - 1
    <3>1. place < other /\ other \in TextEdit!Places(text)
      BY <2>3, <2>5
    <3>2. range = ServersRange(text, encoding, place, other)
      BY <2>5 DEF ServersRange
    <3>3. Spans(text, range, place, other - 1)
      BY <2>1, <2>5, <3>1, <3>2, OfRange
    <3>4. QED BY <3>3 DEF Spans
  <2>6. QED BY <2>2, <2>4, <2>5 DEF TextEdit!PositionsAgree
<1>2. (part = "text edits" => DocumentInv) => PositionsAgree
  BY <1>1 DEF PositionsAgree
<1>3. QED BY <1>2, DocumentInvariant, PTL
=============================================================================

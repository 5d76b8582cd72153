---------------------------- MODULE PsicaProofs -----------------------------
(***************************************************************************)
(* Theorems about Psica: that packing, padding, tournaments, rotation and  *)
(* aggregation lose and invent nothing, for any number of slots, size of   *)
(* the filters, hash function and sets of elements.                        *)
(***************************************************************************)
EXTENDS Psica, TLAPS, WellFoundedInduction, FiniteSetTheorems
-----------------------------------------------------------------------------
(* Induction over natural numbers, as a statement about sets.              *)
LEMMA SetInduction ==
  ASSUME NEW S, 0 \in S, \A n \in Nat : n \in S => n + 1 \in S
  PROVE  \A n \in Nat : n \in S
  <1> DEFINE R == OpToRel(<, Nat)
             T == Nat \ S
  <1> SUFFICES ASSUME T # {} PROVE FALSE
      OBVIOUS
  <1>1. IsWellFoundedOn(R, Nat)
      BY NatLessThanWellFounded
  <1>2. \A x, y \in Nat : <<y, x>> \in R <=> y < x
      BY DEF OpToRel
  <1>3. T \subseteq Nat
      OBVIOUS
  <1>4. \E x \in T : \A y \in T : ~ (<<y, x>> \in R)
      <2> HIDE DEF T, R
      <2> QED BY <1>1, <1>3, WFMin
  <1>5. PICK x \in Nat : x \notin S /\ \A y \in Nat : y \notin S => ~ (y < x)
      BY <1>2, <1>4
  <1>6. x - 1 \in Nat /\ x - 1 < x /\ (x - 1) + 1 = x
      BY <1>5
  <1> QED BY <1>5, <1>6

(* A function defined by recursion exists: its value at n comes from that  *)
(* at some smaller number P[n].                                            *)
Follows(f, V, a, P, G) ==
  f \in [Nat -> V] /\ f[0] = a /\ \A n \in Nat \ {0} : f[n] = G[n][f[P[n]]]

LEMMA Recursion ==
  ASSUME NEW V, NEW a \in V, NEW P, \A n \in Nat \ {0} : P[n] \in 0 .. n - 1,
         NEW G \in [Nat -> [V -> V]]
  PROVE  \E f : Follows(f, V, a, P, G)
  <1> DEFINE Good(f, n) == /\ f \in [0 .. n -> V]
                           /\ f[0] = a
                           /\ \A m \in 1 .. n : f[m] = G[m][f[P[m]]]
             F == [n \in Nat |-> CHOOSE f : Good(f, n)]
             h == [n \in Nat |-> F[n][n]]
  <1>1. \A n \in Nat : \E f : Good(f, n)
      <2> DEFINE S == {n \in Nat : \E f : Good(f, n)}
      <2>1. 0 \in S
          <3>1. Good([m \in 0 .. 0 |-> a], 0)
              OBVIOUS
          <3> QED BY <3>1
      <2>2. ASSUME NEW n \in Nat, n \in S PROVE n + 1 \in S
          <3>1. PICK f : Good(f, n)
              BY <2>2
          <3> DEFINE b == G[n + 1][f[P[n + 1]]]
                     g == [m \in 0 .. n + 1 |-> IF m = n + 1 THEN b ELSE f[m]]
          <3>2. n + 1 \in Nat \ {0} /\ (n + 1) - 1 = n
              OBVIOUS
          <3>3. P[n + 1] \in 0 .. n
              BY <3>2
          <3>4. b \in V
              BY <3>1, <3>2, <3>3
          <3> HIDE DEF b
          <3>5. g \in [0 .. n + 1 -> V] /\ g[0] = a
              BY <3>1, <3>4
          <3>6. ASSUME NEW m \in 1 .. n + 1 PROVE g[m] = G[m][g[P[m]]]
              <4>1. m \in Nat \ {0}
                  OBVIOUS
              <4>2. P[m] \in 0 .. m - 1
                  BY <4>1
              <4>3. g[P[m]] = f[P[m]]
                  BY <4>2
              <4>4. CASE m = n + 1
                  BY <4>3, <4>4 DEF b
              <4>5. CASE m # n + 1
                  BY <3>1, <4>3, <4>5
              <4> QED BY <4>4, <4>5
          <3> HIDE DEF g
          <3>7. Good(g, n + 1)
              BY <3>5, <3>6
          <3> QED BY <3>2, <3>7
      <2> HIDE DEF S
      <2>3. \A n \in Nat : n \in S
          BY <2>1, <2>2, SetInduction
      <2> QED BY <2>3 DEF S
  <1>2. ASSUME NEW n \in Nat, NEW m \in Nat, NEW f, NEW g, Good(f, n), Good(g, m), n <= m
        PROVE  \A k \in 0 .. n : f[k] = g[k]
      <2> DEFINE S == {k \in Nat : \A j \in 0 .. k : j <= n => f[j] = g[j]}
      <2>1. 0 \in S
          BY <1>2
      <2>2. ASSUME NEW k \in Nat, k \in S PROVE k + 1 \in S
          <3>1. ASSUME NEW j \in 1 .. n, j = k + 1 PROVE f[j] = g[j]
              <4>1. P[j] \in 0 .. k
                  BY <3>1
              <4>2. f[P[j]] = g[P[j]]
                  BY <2>2, <3>1, <4>1
              <4>3. j \in 1 .. m
                  BY <1>2
              <4>4. f[j] = G[j][f[P[j]]] /\ g[j] = G[j][g[P[j]]]
                  BY <1>2, <4>3
              <4> QED BY <4>2, <4>4
          <3> QED BY <2>2, <3>1
      <2> HIDE DEF S
      <2>3. ASSUME NEW k \in 0 .. n PROVE f[k] = g[k]
          <3>1. k \in S
              BY <2>1, <2>2, SetInduction
          <3> QED BY <3>1 DEF S
      <2> QED BY <2>3
  <1>3. \A n \in Nat : Good(F[n], n)
      BY <1>1
  <1> HIDE DEF F
  <1>4. h \in [Nat -> V]
      <2>1. ASSUME NEW n \in Nat PROVE F[n][n] \in V
          <3>1. F[n] \in [0 .. n -> V] /\ n \in 0 .. n
              BY <1>3
          <3> QED BY <3>1
      <2> QED BY <2>1
  <1>5. h[0] = a
      BY <1>3
  <1>6. ASSUME NEW n \in Nat \ {0} PROVE h[n] = G[n][h[P[n]]]
      <2>1. P[n] \in Nat /\ P[n] \in 0 .. P[n] /\ P[n] <= n
          OBVIOUS
      <2>2. Good(F[n], n) /\ Good(F[P[n]], P[n])
          BY <1>3, <2>1
      <2> HIDE DEF Good
      <2>3. F[P[n]][P[n]] = F[n][P[n]]
          BY <1>2, <2>1, <2>2
      <2>4. F[n][n] = G[n][F[n][P[n]]]
          <3>1. n \in 1 .. n
              OBVIOUS
          <3> QED BY <2>2, <3>1 DEF Good
      <2> QED BY <2>1, <2>3, <2>4
  <1> QED BY <1>4, <1>5, <1>6 DEF Follows
-----------------------------------------------------------------------------
LEMMA PowerFacts ==
  /\ Power[0] = 1
  /\ \A k \in Nat : /\ Power[k] \in Nat \ {0}
                    /\ Power[k + 1] = 2 * Power[k]
                    /\ Power[k] > k
  <1> DEFINE G == [n \in Nat |-> [w \in Nat |-> 2 * w]]
             P == [n \in Nat |-> n - 1]
  <1>1. PICK f : Follows(f, Nat, 1, P, G)
      <2>1. G \in [Nat -> [Nat -> Nat]]
          OBVIOUS
      <2>2. \A n \in Nat \ {0} : P[n] \in 0 .. n - 1
          OBVIOUS
      <2>3. 1 \in Nat
          OBVIOUS
      <2> HIDE DEF G, P
      <2> QED BY <2>1, <2>2, <2>3, Recursion, Zenon
  <1>2. f = [k \in Nat |-> IF k = 0 THEN 1 ELSE 2 * f[k - 1]]
      <2>1. ASSUME NEW n \in Nat \ {0} PROVE f[n] = 2 * f[n - 1]
          <3>1. f[n - 1] \in Nat
              BY <1>1 DEF Follows
          <3> QED BY <1>1, <3>1 DEF Follows
      <2> QED BY <1>1, <2>1 DEF Follows
  <1>3. Power = [k \in Nat |-> IF k = 0 THEN 1 ELSE 2 * Power[k - 1]]
      BY <1>2 DEF Power
  <1>4. Power[0] = 1 /\ \A k \in Nat : Power[k + 1] = 2 * Power[k]
      BY <1>3
  <1> DEFINE S == {k \in Nat : Power[k] \in Nat \ {0} /\ Power[k] > k}
  <1>5. 0 \in S /\ \A k \in Nat : k \in S => k + 1 \in S
      BY <1>4
  <1> HIDE DEF S
  <1>6. \A k \in Nat : k \in S
      BY <1>5, SetInduction
  <1> QED BY <1>4, <1>6 DEF S

(* The binary digits of a number are at least one.                         *)
LEMMA BinaryFacts ==
  \A n \in Nat :
    /\ decomposeIntoBinary[n] \in Seq({0, 1}) /\ Len(decomposeIntoBinary[n]) \in Nat \ {0}
    /\ decomposeIntoBinary[n] =
         IF n \div 2 = 0 THEN <<n % 2>> ELSE <<n % 2>> \o decomposeIntoBinary[n \div 2]
  <1> DEFINE B == {s \in Seq({0, 1}) : Len(s) # 0}
             G == [n \in Nat |-> [w \in B |-> IF n \div 2 = 0 THEN <<n % 2>> ELSE <<n % 2>> \o w]]
             P == [n \in Nat |-> n \div 2]
  <1>0. \A n \in Nat : n % 2 \in {0, 1} /\ n \div 2 \in Nat
      OBVIOUS
  <1>1. G \in [Nat -> [B -> B]]
      <2>1. ASSUME NEW n \in Nat, NEW w \in B
            PROVE  (IF n \div 2 = 0 THEN <<n % 2>> ELSE <<n % 2>> \o w) \in B
          BY <1>0
      <2> QED BY <2>1
  <1>2. \A n \in Nat \ {0} : P[n] \in 0 .. n - 1
      OBVIOUS
  <1>3. <<0>> \in B
      OBVIOUS
  <1> HIDE DEF B
  <1>4. PICK f : Follows(f, B, <<0>>, P, G)
      <2> HIDE DEF G, P
      <2> QED BY <1>1, <1>2, <1>3, Recursion, Zenon
  <1>5. f = [n \in Nat |-> IF n \div 2 = 0 THEN <<n % 2>> ELSE <<n % 2>> \o f[n \div 2]]
      <2>1. ASSUME NEW n \in Nat \ {0}
            PROVE  f[n] = IF n \div 2 = 0 THEN <<n % 2>> ELSE <<n % 2>> \o f[n \div 2]
          <3>1. f[n \div 2] \in B
              BY <1>0, <1>4 DEF Follows
          <3> QED BY <1>0, <1>4, <3>1 DEF Follows
      <2> QED BY <1>4, <2>1 DEF Follows
  <1>6. decomposeIntoBinary = [n \in Nat |-> IF n \div 2 = 0 THEN <<n % 2>>
                                 ELSE <<n % 2>> \o decomposeIntoBinary[n \div 2]]
      BY <1>5 DEF decomposeIntoBinary
  <1> DEFINE S == {n \in Nat : \A m \in 0 .. n : decomposeIntoBinary[m] \in B}
  <1>7. 0 \in S
      BY <1>1, <1>3, <1>6
  <1>8. ASSUME NEW n \in Nat, n \in S PROVE n + 1 \in S
      <2> DEFINE m == n + 1
                 v == decomposeIntoBinary[m \div 2]
      <2>1. m \in Nat /\ m \div 2 \in 0 .. n
          OBVIOUS
      <2>2. v \in B
          BY <1>8, <2>1
      <2>3. decomposeIntoBinary[m] = IF m \div 2 = 0 THEN <<m % 2>> ELSE <<m % 2>> \o v
          BY <1>6, <2>1
      <2> HIDE DEF m, v
      <2>4. G[m][v] = decomposeIntoBinary[m]
          BY <2>1, <2>2, <2>3
      <2>5. decomposeIntoBinary[m] \in B
          <3> HIDE DEF G
          <3> QED BY <1>1, <2>1, <2>2, <2>4
      <2> QED BY <1>8, <2>5 DEF m
  <1> HIDE DEF S
  <1>9. \A n \in Nat : n \in S
      BY <1>7, <1>8, SetInduction
  <1>10. \A n \in Nat : decomposeIntoBinary[n] \in B
      BY <1>9 DEF S
  <1>11. \A n \in Nat : /\ decomposeIntoBinary[n] \in Seq({0, 1})
                        /\ Len(decomposeIntoBinary[n]) \in Nat \ {0}
      BY <1>10 DEF B
  <1>12. \A n \in Nat : decomposeIntoBinary[n]
           = IF n \div 2 = 0 THEN <<n % 2>> ELSE <<n % 2>> \o decomposeIntoBinary[n \div 2]
      BY <1>6
  <1> QED BY <1>11, <1>12
-----------------------------------------------------------------------------
(* Tournaments.                                                            *)
LEMMA SetOps ==
  /\ \A a, b : myAND(a, b) = a \cap b
  /\ \A a, b : myOR(a, b) = a \cup b
  BY DEF myAND, myOR, myXOR

LEMMA RoundFacts ==
  ASSUME NEW U, NEW size \in Nat \ {0}, NEW op \in {"AND", "OR"},
         NEW array \in [0 .. size - 1 -> SUBSET U], NEW i \in Nat \ {0}
  PROVE  /\ Round(op, array, i) \in [0 .. size - 1 -> SUBSET U]
         /\ \A j \in 0 .. size - 1 :
              Round(op, array, i)[j] =
                IF j % (2 * i) = 0 /\ j + i < size THEN Combine(op, array[j], array[j + i])
                                                   ELSE array[j]
  <1>1. Cardinality(DOMAIN array) = size
      BY FS_Interval
  <1>2. \A a, b \in SUBSET U : Combine(op, a, b) \in SUBSET U
      BY SetOps DEF Combine
  <1>3. \A j \in 0 .. size - 1 : j + i < size => j + i \in 0 .. size - 1
      OBVIOUS
  <1> QED BY <1>1, <1>2, <1>3 DEF Round

RoundByRound(op, array, acc, U, size) ==
  /\ acc[0] = array
  /\ \A k \in Nat : /\ acc[k] \in [0 .. size - 1 -> SUBSET U]
                    /\ acc[k + 1] = Round(op, acc[k], Power[k])

LEMMA RoundsFacts ==
  ASSUME NEW U, NEW size \in Nat \ {0}, NEW op \in {"AND", "OR"},
         NEW array \in [0 .. size - 1 -> SUBSET U]
  PROVE  RoundByRound(op, array, Rounds(op, array), U, size)
  <1> DEFINE V == [0 .. size - 1 -> SUBSET U]
             G == [n \in Nat |-> [w \in V |-> IF n = 0 THEN w ELSE Round(op, w, Power[n - 1])]]
             P == [n \in Nat |-> n - 1]
             H == Rounds(op, array)
  <1>1. G \in [Nat -> [V -> V]]
      <2>1. ASSUME NEW n \in Nat, NEW w \in V
            PROVE  (IF n = 0 THEN w ELSE Round(op, w, Power[n - 1])) \in V
          <3>1. CASE n # 0
              <4>1. n - 1 \in Nat
                  BY <3>1
              <4>2. Power[n - 1] \in Nat \ {0}
                  BY <4>1, PowerFacts
              <4> QED BY <3>1, <4>2, RoundFacts
          <3> QED BY <3>1
      <2> HIDE DEF V
      <2> QED BY <2>1
  <1>2. \A n \in Nat \ {0} : P[n] \in 0 .. n - 1
      OBVIOUS
  <1>3. array \in V
      OBVIOUS
  <1> HIDE DEF V
  <1>4. PICK f : Follows(f, V, array, P, G)
      <2> HIDE DEF G, P
      <2> QED BY <1>1, <1>2, <1>3, Recursion, Zenon
  <1>5. f = [n \in Nat |-> IF n = 0 THEN array ELSE Round(op, f[n - 1], Power[n - 1])]
      <2>1. ASSUME NEW n \in Nat \ {0} PROVE f[n] = Round(op, f[n - 1], Power[n - 1])
          <3>1. f[n - 1] \in V
              BY <1>4 DEF Follows
          <3> QED BY <1>4, <3>1 DEF Follows
      <2> QED BY <1>4, <2>1 DEF Follows
  <1>6. H = [n \in Nat |-> IF n = 0 THEN array ELSE Round(op, H[n - 1], Power[n - 1])]
      BY <1>5 DEF Rounds
  <1> HIDE DEF H
  <1>7. H[0] = array /\ \A k \in Nat : H[k + 1] = Round(op, H[k], Power[k])
      BY <1>6
  <1> DEFINE S == {k \in Nat : H[k] \in V}
  <1>8. 0 \in S
      BY <1>3, <1>7
  <1>9. ASSUME NEW k \in Nat, k \in S PROVE k + 1 \in S
      <2>1. Power[k] \in Nat \ {0}
          BY PowerFacts
      <2>2. Round(op, H[k], Power[k]) \in V
          <3>1. H[k] \in [0 .. size - 1 -> SUBSET U]
              BY <1>9 DEF V
          <3> HIDE DEF S
          <3> QED BY <2>1, <3>1, RoundFacts DEF V
      <2>3. H[k + 1] \in V
          BY <1>7, <2>2
      <2> QED BY <2>3
  <1> HIDE DEF S
  <1>10. \A k \in Nat : k \in S
      BY <1>8, <1>9, SetInduction
  <1> QED BY <1>7, <1>10 DEF S, V, H, RoundByRound

(* After k rounds, element Power[k] * q holds the combination of the       *)
(* Power[k] elements from there on, or of those of them that there are.    *)
Over(op, s, array, T) == IF op = "AND" THEN \A t \in T : s \in array[t]
                                       ELSE \E t \in T : s \in array[t]

Run(size, p, q) == {t \in 0 .. size - 1 : p * q <= t /\ t < p * q + p}

Combined(op, U, size, array, acc, p) ==
  \A q \in Nat : p * q < size =>
    \A s \in U : s \in acc[p * q] <=> Over(op, s, array, Run(size, p, q))

LEMMA Multiple ==
  ASSUME NEW d \in Nat \ {0}, NEW q \in Nat PROVE (d * q) % d = 0
  OBVIOUS

LEMMA CombinedRound ==
  ASSUME NEW U, NEW size \in Nat \ {0}, NEW op \in {"AND", "OR"},
         NEW array \in [0 .. size - 1 -> SUBSET U], NEW acc \in [0 .. size - 1 -> SUBSET U],
         NEW p \in Nat \ {0}, Combined(op, U, size, array, acc, p)
  PROVE  Combined(op, U, size, array, Round(op, acc, p), 2 * p)
  <1> SUFFICES ASSUME NEW q \in Nat, (2 * p) * q < size, NEW s \in U
               PROVE  s \in Round(op, acc, p)[(2 * p) * q]
                        <=> Over(op, s, array, Run(size, 2 * p, q))
      BY DEF Combined
  <1> DEFINE j == (2 * p) * q
  <1>1. j \in 0 .. size - 1 /\ j = p * (2 * q) /\ j + p = p * (2 * q + 1)
      OBVIOUS
  <1>2. 2 * q \in Nat /\ 2 * q + 1 \in Nat
      OBVIOUS
  <1>3. j % (2 * p) = 0
      <2>1. 2 * p \in Nat \ {0}
          OBVIOUS
      <2> QED BY <2>1, Multiple
  <1> DEFINE R == Round(op, acc, p)
  <1>0. \A x \in 0 .. size - 1 :
          R[x] = IF x % (2 * p) = 0 /\ x + p < size THEN Combine(op, acc[x], acc[x + p])
                                                    ELSE acc[x]
      <2>1. DOMAIN acc = 0 .. size - 1 /\ Cardinality(0 .. size - 1) = size
          BY FS_Interval
      <2> QED BY <2>1 DEF Round
  <1> HIDE DEF R
  <1>4. s \in acc[j] <=> Over(op, s, array, Run(size, p, 2 * q))
      BY <1>1, <1>2 DEF Combined
  <1>5. CASE j + p < size
      <2>1. s \in acc[j + p] <=> Over(op, s, array, Run(size, p, 2 * q + 1))
          BY <1>1, <1>2, <1>5 DEF Combined
      <2>2. R[j] = Combine(op, acc[j], acc[j + p])
          <3> HIDE DEF j
          <3> QED BY <1>0, <1>1, <1>3, <1>5
      <2>3. s \in Combine(op, acc[j], acc[j + p])
              <=> IF op = "AND" THEN s \in acc[j] /\ s \in acc[j + p]
                                ELSE s \in acc[j] \/ s \in acc[j + p]
          BY SetOps DEF Combine
      <2>4. Run(size, 2 * p, q) = Run(size, p, 2 * q) \cup Run(size, p, 2 * q + 1)
          BY <1>1 DEF Run
      <2> DEFINE T1 == Run(size, p, 2 * q)
                 T2 == Run(size, p, 2 * q + 1)
      <2> HIDE DEF T1, T2
      <2>5. Over(op, s, array, T1 \cup T2)
              <=> IF op = "AND" THEN Over(op, s, array, T1) /\ Over(op, s, array, T2)
                                ELSE Over(op, s, array, T1) \/ Over(op, s, array, T2)
          BY DEF Over
      <2> QED BY <1>4, <2>1, <2>2, <2>3, <2>4, <2>5 DEF T1, T2, R
  <1>6. CASE ~ (j + p < size)
      <2>1. R[j] = acc[j]
          <3> HIDE DEF j
          <3> QED BY <1>0, <1>1, <1>6
      <2>2. Run(size, 2 * p, q) = Run(size, p, 2 * q)
          BY <1>1, <1>6 DEF Run
      <2> QED BY <1>4, <2>1, <2>2 DEF R
  <1> QED BY <1>5, <1>6

LEMMA TournamentFacts ==
  ASSUME NEW U, NEW size \in Nat \ {0}, NEW op \in {"AND", "OR"},
         NEW array \in [0 .. size - 1 -> SUBSET U]
  PROVE  /\ Tournament(op, array) \in SUBSET U
         /\ \A s \in U : s \in Tournament(op, array) <=> Over(op, s, array, 0 .. size - 1)
  <1> DEFINE H == Rounds(op, array)
             S == {k \in Nat : Combined(op, U, size, array, H[k], Power[k])}
  <1>1. /\ H[0] = array
        /\ \A k \in Nat : /\ H[k] \in [0 .. size - 1 -> SUBSET U]
                          /\ H[k + 1] = Round(op, H[k], Power[k])
      <2>1. RoundByRound(op, array, H, U, size)
          BY RoundsFacts
      <2> HIDE DEF H
      <2> QED BY <2>1 DEF RoundByRound
  <1> HIDE DEF H
  <1>2. Power[0] = 1
      BY PowerFacts
  <1>3. 0 \in S
      <2>1. ASSUME NEW q \in Nat, 1 * q < size, NEW s \in U
            PROVE  s \in array[1 * q] <=> Over(op, s, array, Run(size, 1, q))
          <3>1. Run(size, 1, q) = {q} /\ 1 * q = q
              BY <2>1 DEF Run
          <3> QED BY <3>1 DEF Over
      <2> QED BY <1>1, <1>2, <2>1 DEF Combined
  <1>4. ASSUME NEW k \in Nat, k \in S PROVE k + 1 \in S
      <2>1. Power[k] \in Nat \ {0} /\ Power[k + 1] = 2 * Power[k]
          BY PowerFacts
      <2>2. Combined(op, U, size, array, Round(op, H[k], Power[k]), 2 * Power[k])
          BY <1>1, <1>4, <2>1, CombinedRound
      <2>3. Combined(op, U, size, array, H[k + 1], Power[k + 1])
          BY <1>1, <2>1, <2>2
      <2> QED BY <2>3
  <1> HIDE DEF S
  <1>5. size \in S
      BY <1>3, <1>4, SetInduction
  <1>6. Combined(op, U, size, array, H[size], Power[size])
      BY <1>5 DEF S
  <1>7. Power[size] \in Nat /\ Power[size] > size
      BY PowerFacts
  <1>8. Power[size] * 0 = 0 /\ Run(size, Power[size], 0) = 0 .. size - 1
      BY <1>7 DEF Run
  <1>9. \A s \in U : s \in H[size][0] <=> Over(op, s, array, 0 .. size - 1)
      BY <1>6, <1>8 DEF Combined
  <1>10. Tournament(op, array) = H[size][0]
      <2>1. Cardinality(0 .. size - 1) = size
          BY FS_Interval
      <2> QED BY <2>1 DEF Tournament, H
  <1>11. H[size][0] \in SUBSET U
      <2>1. H[size] \in [0 .. size - 1 -> SUBSET U] /\ 0 \in 0 .. size - 1
          BY <1>1
      <2> QED BY <2>1
  <1> QED BY <1>9, <1>10, <1>11

LEMMA ProductArray ==
  ASSUME NEW U, NEW size \in Nat \ {0}, NEW array \in [0 .. size - 1 -> SUBSET U]
  PROVE  tournamentProductArray(array) = {s \in U : \A t \in 0 .. size - 1 : s \in array[t]}
  <1>1. /\ Tournament("AND", array) \in SUBSET U
        /\ \A s \in U : s \in Tournament("AND", array) <=> Over("AND", s, array, 0 .. size - 1)
      BY TournamentFacts
  <1> QED BY <1>1 DEF tournamentProductArray, Over

LEMMA OROfArray ==
  ASSUME NEW U, NEW size \in Nat \ {0}, NEW array \in [0 .. size - 1 -> SUBSET U]
  PROVE  Tournament("OR", array) = UNION {array[t] : t \in 0 .. size - 1}
  <1>1. /\ Tournament("OR", array) \in SUBSET U
        /\ \A s \in U : s \in Tournament("OR", array) <=> Over("OR", s, array, 0 .. size - 1)
      BY TournamentFacts
  <1> QED BY <1>1 DEF Over
-----------------------------------------------------------------------------
(* Rotation, and the product over all slots.                               *)
LEMMA Division ==
  ASSUME NEW d \in Nat \ {0}, NEW a \in Int
  PROVE  a \div d \in Int /\ a % d \in 0 .. d - 1 /\ a = d * (a \div d) + (a % d)
  <1>1. d \in Int /\ d > 0
      OBVIOUS
  <1> QED BY <1>1

LEMMA Quotient ==
  ASSUME NEW d \in Nat \ {0}, NEW q \in Int, NEW r \in 0 .. d - 1
  PROVE  (d * q + r) % d = r /\ (d * q + r) \div d = q
  BY SMT

LEMMA RotateOnes ==
  ASSUME NEW n \in Nat \ {0}, NEW k \in Int
  PROVE  rotate(0 .. n - 1, k, n) = 0 .. n - 1
  <1>1. ASSUME NEW s \in 0 .. n - 1 PROVE (s + k) % n \in 0 .. n - 1
      BY Division
  <1>2. ASSUME NEW t \in 0 .. n - 1 PROVE \E s \in 0 .. n - 1 : t = (s + k) % n
      <2> DEFINE q == (t - k) \div n
                 s == (t - k) % n
      <2>1. q \in Int /\ s \in 0 .. n - 1 /\ t - k = n * q + s
          <3>1. t - k \in Int
              OBVIOUS
          <3> QED BY <3>1, Division
      <2> HIDE DEF q, s
      <2>2. s + k = n * (-q) + t /\ -q \in Int
          BY <2>1
      <2>3. (s + k) % n = t
          BY <2>2, Quotient
      <2> QED BY <2>1, <2>3
  <1> QED BY <1>1, <1>2 DEF rotate

LEMMA ListFacts ==
  ASSUME NEW n \in Nat \ {0}, NEW top \in Nat, NEW v \in Ctxt(n)
  PROVE  LET L == mulPowerOfTwoShiftList(v, top, n)
         IN  /\ \A i \in 0 .. top : L[i] \in Ctxt(n)
             /\ L[0] = v
             /\ \A i \in 1 .. top : L[i] = L[i - 1] \cap rotate(L[i - 1], Power[i - 1], n)
  <1> DEFINE Next(i, w) == myAND(w, rotate(w, Power[i - 1], n))
             G == [i \in Nat |-> [w \in Ctxt(n) |-> Next(i, w)]]
             P == [i \in Nat |-> i - 1]
             L == mulPowerOfTwoShiftList(v, top, n)
  <1>1. \A i, w : Next(i, w) = w \cap rotate(w, Power[i - 1], n)
      BY SetOps
  <1> HIDE DEF Next
  <1>2. G \in [Nat -> [Ctxt(n) -> Ctxt(n)]]
      <2>1. ASSUME NEW i \in Nat, NEW w \in Ctxt(n) PROVE Next(i, w) \in Ctxt(n)
          BY <1>1 DEF Ctxt
      <2> QED BY <2>1
  <1>3. \A i \in Nat \ {0} : P[i] \in 0 .. i - 1
      OBVIOUS
  <1>4. PICK f : Follows(f, Ctxt(n), v, P, G)
      <2> HIDE DEF G, P
      <2> QED BY <1>2, <1>3, Recursion, Zenon
  <1> DEFINE g == [i \in 0 .. top |-> f[i]]
  <1>5. g = [i \in 0 .. top |-> IF i = 0 THEN v ELSE Next(i, g[i - 1])]
      <2>1. ASSUME NEW i \in 0 .. top, i # 0 PROVE f[i] = Next(i, g[i - 1])
          <3>1. i \in Nat \ {0} /\ i - 1 \in 0 .. top /\ i - 1 \in Nat
              BY <2>1
          <3>2. f[i - 1] \in Ctxt(n) /\ f[i] = G[i][f[i - 1]]
              BY <1>4, <3>1 DEF Follows
          <3> QED BY <3>1, <3>2
      <2> QED BY <1>4, <2>1 DEF Follows
  <1>6. L = [i \in 0 .. top |-> IF i = 0 THEN v ELSE Next(i, L[i - 1])]
      BY <1>5 DEF mulPowerOfTwoShiftList, Next
  <1> HIDE DEF L
  <1>7. L[0] = v /\ \A i \in 1 .. top : L[i] = Next(i, L[i - 1])
      BY <1>6
  <1> DEFINE S == {i \in Nat : i <= top => L[i] \in Ctxt(n)}
  <1>8. 0 \in S
      BY <1>7
  <1>9. ASSUME NEW i \in Nat, i \in S PROVE i + 1 \in S
      <2>1. ASSUME i + 1 <= top PROVE L[i + 1] \in Ctxt(n)
          <3>1. L[i] \in Ctxt(n) /\ (i + 1) - 1 = i /\ i + 1 \in 1 .. top
              BY <1>9, <2>1
          <3>2. L[i + 1] = Next(i + 1, L[i])
              BY <1>7, <3>1
          <3> QED BY <1>1, <3>1, <3>2 DEF Ctxt
      <2> QED BY <2>1
  <1> HIDE DEF S
  <1>10. \A i \in Nat : i \in S
      BY <1>8, <1>9, SetInduction
  <1>11. \A i \in 0 .. top : L[i] \in Ctxt(n)
      BY <1>10 DEF S
  <1> QED BY <1>1, <1>7, <1>11 DEF L

LEMMA OnesList ==
  ASSUME NEW n \in Nat \ {0}, NEW top \in Nat
  PROVE  \A i \in 0 .. top : mulPowerOfTwoShiftList(0 .. n - 1, top, n)[i] = 0 .. n - 1
  <1> DEFINE One == 0 .. n - 1
             L == mulPowerOfTwoShiftList(One, top, n)
             S == {i \in Nat : i <= top => L[i] = One}
  <1>1. /\ L[0] = One
        /\ \A i \in 1 .. top : L[i] = L[i - 1] \cap rotate(L[i - 1], Power[i - 1], n)
      <2>1. One \in Ctxt(n)
          BY DEF Ctxt
      <2> HIDE DEF One
      <2> QED BY <2>1, ListFacts
  <1>2. ASSUME NEW i \in Nat PROVE rotate(One, Power[i], n) = One
      <2>1. Power[i] \in Int
          BY PowerFacts
      <2> QED BY <2>1, RotateOnes
  <1> HIDE DEF L, One
  <1>3. 0 \in S
      BY <1>1
  <1>4. ASSUME NEW i \in Nat, i \in S PROVE i + 1 \in S
      <2>1. ASSUME i + 1 <= top PROVE L[i + 1] = One
          <3>1. L[i] = One /\ (i + 1) - 1 = i /\ i + 1 \in 1 .. top
              BY <1>4, <2>1
          <3>2. L[i + 1] = L[i] \cap rotate(L[i], Power[i], n)
              BY <1>1, <3>1
          <3> QED BY <1>2, <3>1, <3>2
      <2> QED BY <2>1
  <1> HIDE DEF S
  <1>5. \A i \in Nat : i \in S
      BY <1>3, <1>4, SetInduction
  <1>6. \A i \in 0 .. top : L[i] = One
      BY <1>5 DEF S
  <1> QED BY <1>6 DEF L, One

(* list[i] has the slots that are 1 together with the 2^i - 1 before them. *)
LEMMA Neighbours ==
  ASSUME NEW n \in Nat \ {0}, NEW top \in Nat, NEW v \in Ctxt(n)
  PROVE  \A i \in 0 .. top : \A s \in mulPowerOfTwoShiftList(v, top, n)[i] :
           \A j \in 0 .. Power[i] - 1 : (s - j) % n \in v
  <1> DEFINE L == mulPowerOfTwoShiftList(v, top, n)
             Held(i) == \A s \in L[i] : \A j \in 0 .. Power[i] - 1 : (s - j) % n \in v
             S == {i \in Nat : i <= top => Held(i)}
  <1>1. /\ \A i \in 0 .. top : L[i] \in Ctxt(n)
        /\ L[0] = v
        /\ \A i \in 1 .. top : L[i] = L[i - 1] \cap rotate(L[i - 1], Power[i - 1], n)
      BY ListFacts
  <1> HIDE DEF L
  <1>2. Held(0)
      <2> SUFFICES ASSUME NEW s \in v, NEW j \in 0 .. Power[0] - 1 PROVE (s - j) % n \in v
          BY <1>1
      <2>1. j = 0 /\ s \in 0 .. n - 1
          BY PowerFacts DEF Ctxt
      <2>2. (n * 0 + s) % n = s
          BY <2>1, Quotient
      <2>3. s - j = n * 0 + s
          BY <2>1
      <2> QED BY <2>2, <2>3
  <1>3. ASSUME NEW i \in Nat, i + 1 <= top, Held(i) PROVE Held(i + 1)
      <2> SUFFICES ASSUME NEW s \in L[i + 1], NEW j \in 0 .. Power[i + 1] - 1
                   PROVE  (s - j) % n \in v
          OBVIOUS
      <2>1. (i + 1) - 1 = i /\ i + 1 \in 1 .. top /\ i \in 0 .. top
          BY <1>3
      <2>2. L[i + 1] = L[i] \cap rotate(L[i], Power[i], n)
          BY <1>1, <2>1
      <2>3. Power[i] \in Nat /\ Power[i + 1] = 2 * Power[i]
          BY PowerFacts
      <2>4. CASE j < Power[i]
          BY <1>3, <2>2, <2>3, <2>4
      <2>5. CASE j >= Power[i]
          <3> DEFINE k == j - Power[i]
          <3>1. k \in 0 .. Power[i] - 1 /\ j = k + Power[i]
              BY <2>3, <2>5
          <3> HIDE DEF k
          <3>2. PICK t \in L[i] : s = (t + Power[i]) % n
              BY <2>2 DEF rotate
          <3>3. t \in Int
              BY <1>1, <2>1 DEF Ctxt
          <3>4. PICK q \in Int : t + Power[i] = n * q + s /\ s \in Int
              <4>1. t + Power[i] \in Int
                  BY <2>3, <3>3
              <4>2. /\ (t + Power[i]) \div n \in Int /\ s \in 0 .. n - 1
                    /\ t + Power[i] = n * ((t + Power[i]) \div n) + s
                  BY <3>2, <4>1, Division
              <4> QED BY <4>2
          <3>5. (t - k) % n \in v
              BY <1>3, <3>1
          <3> DEFINE r == (s - j) % n
                     p == (s - j) \div n
          <3>6. p \in Int /\ r \in 0 .. n - 1 /\ s - j = n * p + r
              <4>1. s - j \in Int
                  BY <3>1, <3>4
              <4> QED BY <4>1, Division
          <3> HIDE DEF r, p
          <3> DEFINE u == q + p
          <3>7. t - k = n * u + r /\ u \in Int
              BY <2>3, <3>1, <3>3, <3>4, <3>6
          <3> HIDE DEF u
          <3>8. (n * u + r) % n = r
              BY <3>6, <3>7, Quotient
          <3>9. (t - k) % n = r
              BY <3>7, <3>8
          <3> QED BY <3>5, <3>9 DEF r
      <2> QED BY <2>3, <2>4, <2>5
  <1> HIDE DEF Held
  <1>4. 0 \in S /\ \A i \in Nat : i \in S => i + 1 \in S
      BY <1>2, <1>3
  <1> HIDE DEF S
  <1>5. \A i \in Nat : i \in S
      BY <1>4, SetInduction
  <1>6. \A i \in 0 .. top : Held(i)
      BY <1>5 DEF S
  <1> QED BY <1>6 DEF Held, L

LEMMA OnesProducts ==
  ASSUME NEW n \in Nat \ {0}, NEW list, NEW binary \in Seq({0, 1}), Len(binary) \in Nat \ {0},
         \A i \in 0 .. Len(binary) - 1 : list[i] = 0 .. n - 1
  PROVE  /\ productSet(list, binary, n)[Len(binary) - 1] \in Seq({0 .. n - 1})
         /\ Len(productSet(list, binary, n)[Len(binary) - 1]) \in Nat \ {0}
  <1> DEFINE One == 0 .. n - 1
             top == Len(binary) - 1
             V == {s \in Seq({One}) : Len(s) # 0}
             Turned(k, w) == rotate(list[top - k], Power[top - 1] * (Len(w) + 1), n)
             Longer(k, w) == IF binary[top - k + 1] = 1 THEN Append(w, Turned(k, w)) ELSE w
             G == [k \in Nat |-> [w \in V |-> IF k \in 1 .. top THEN Longer(k, w) ELSE w]]
             P == [k \in Nat |-> k - 1]
             H == productSet(list, binary, n)
  <1>1. top \in Nat /\ \A k \in 0 .. top : list[top - k] = One
      OBVIOUS
  <1>2. ASSUME NEW k \in 1 .. top, NEW w \in V PROVE Longer(k, w) \in V
      <2>1. top - 1 \in Nat /\ list[top - k] = One
          BY <1>1
      <2>2. Power[top - 1] * (Len(w) + 1) \in Int
          <3>1. Power[top - 1] \in Nat
              BY <2>1, PowerFacts
          <3>2. w \in Seq({One})
              OBVIOUS
          <3>3. Len(w) \in Nat
              BY <3>2
          <3> HIDE DEF V, top
          <3> QED BY <3>1, <3>3
      <2>3. Turned(k, w) = One
          BY <2>1, <2>2, RotateOnes
      <2> HIDE DEF One
      <2>4. Append(w, One) \in V
          OBVIOUS
      <2> QED BY <2>3, <2>4
  <1> HIDE DEF V, Longer
  <1>3. G \in [Nat -> [V -> V]]
      BY <1>2
  <1>4. \A k \in Nat \ {0} : P[k] \in 0 .. k - 1
      OBVIOUS
  <1>5. <<list[top]>> \in V
      BY <1>1 DEF V
  <1>6. PICK f : Follows(f, V, <<list[top]>>, P, G)
      <2> HIDE DEF G, P, top
      <2> QED BY <1>3, <1>4, <1>5, Recursion, Zenon
  <1> DEFINE g == [k \in 0 .. top |-> f[k]]
  <1>7. g = [k \in 0 .. top |-> IF k = 0 THEN <<list[top]>> ELSE Longer(k, g[k - 1])]
      <2>1. ASSUME NEW k \in 0 .. top, k # 0 PROVE f[k] = Longer(k, g[k - 1])
          <3>1. k \in Nat \ {0} /\ k \in 1 .. top /\ k - 1 \in 0 .. top /\ k - 1 \in Nat
              BY <1>1, <2>1
          <3>2. f[k - 1] \in V /\ f[k] = G[k][f[k - 1]]
              BY <1>6, <3>1 DEF Follows
          <3> DEFINE w == f[k - 1]
          <3>3. g[k - 1] = w
              BY <3>1
          <3> HIDE DEF w, top
          <3>4. G[k][w] = Longer(k, w)
              BY <3>1, <3>2 DEF w
          <3> QED BY <3>2, <3>3, <3>4 DEF w
      <2> QED BY <1>6, <2>1 DEF Follows
  <1>8. H = [k \in 0 .. top |-> IF k = 0 THEN <<list[top]>> ELSE Longer(k, H[k - 1])]
      BY <1>7, Zenon DEF productSet, Longer
  <1> HIDE DEF H, top
  <1> DEFINE S == {k \in Nat : k <= top => H[k] \in V}
  <1>9. 0 \in S
      BY <1>1, <1>5, <1>8
  <1>10. ASSUME NEW k \in Nat, k \in S PROVE k + 1 \in S
      <2>1. ASSUME k + 1 <= top PROVE H[k + 1] \in V
          <3>1. H[k] \in V /\ (k + 1) - 1 = k /\ k + 1 \in 1 .. top /\ k + 1 \in 0 .. top
              BY <1>1, <1>10, <2>1
          <3>2. \A j \in 1 .. top : H[j] = Longer(j, H[j - 1])
              BY <1>1, <1>8
          <3>3. H[k + 1] = Longer(k + 1, H[k])
              BY <3>1, <3>2
          <3> QED BY <1>2, <3>1, <3>3
      <2> QED BY <2>1
  <1> HIDE DEF S
  <1>11. top \in S
      BY <1>1, <1>9, <1>10, SetInduction
  <1>12. H[top] \in V
      BY <1>1, <1>11 DEF S
  <1> QED BY <1>12 DEF V, H, top

(* The product of a ciphertext all of whose slots are 1 is that            *)
(* ciphertext, whatever the number of slots.                               *)
LEMMA ProductOfOnes ==
  ASSUME NEW n \in Nat \ {0}
  PROVE  totalProduct(getZZXOne(n), n) = getZZXOne(n)
  <1> DEFINE One == 0 .. n - 1
             binary == decomposeIntoBinary[n]
             top == Len(binary) - 1
             list == mulPowerOfTwoShiftList(One, top, n)
             products == productSet(list, binary, n)[top]
             terms == [t \in 0 .. Len(products) - 1 |-> products[t + 1]]
  <1>1. binary \in Seq({0, 1}) /\ Len(binary) \in Nat \ {0}
      BY BinaryFacts
  <1>2. \A i \in 0 .. top : list[i] = One
      <2>1. top \in Nat
          BY <1>1
      <2> HIDE DEF top
      <2> QED BY <2>1, OnesList
  <1>3. products \in Seq({One}) /\ Len(products) \in Nat \ {0}
      <2> HIDE DEF binary, list
      <2> QED BY <1>1, <1>2, OnesProducts
  <1> HIDE DEF products
  <1>4. terms \in [0 .. Len(products) - 1 -> {One}]
      <2>1. ASSUME NEW t \in 0 .. Len(products) - 1 PROVE products[t + 1] = One
          <3>1. t + 1 \in 1 .. Len(products)
              BY <1>3
          <3>2. products[t + 1] \in {One}
              BY <1>3, <3>1
          <3> QED BY <3>2
      <2> QED BY <2>1
  <1> HIDE DEF terms
  <1>5. tournamentProductArray(terms) = One
      <2>1. terms \in [0 .. Len(products) - 1 -> SUBSET One]
          BY <1>4
      <2>2. tournamentProductArray(terms)
              = {s \in One : \A t \in 0 .. Len(products) - 1 : s \in terms[t]}
          BY <1>3, <2>1, ProductArray
      <2> QED BY <1>4, <2>2
  <1> QED BY <1>5 DEF totalProduct, getZZXOne, terms, products
(* A power of two has a single digit 1, the highest, so that the product   *)
(* is list[top]: one AND of all the slots.                                 *)
LEMMA PowerDigits ==
  \A k \in Nat : LET binary == decomposeIntoBinary[Power[k]]
                 IN  Len(binary) = k + 1 /\ \A d \in 1 .. k : binary[d] = 0
  <1> DEFINE B(k) == decomposeIntoBinary[Power[k]]
             S == {k \in Nat : Len(B(k)) = k + 1 /\ \A d \in 1 .. k : B(k)[d] = 0}
  <1>1. 0 \in S
      <2>1. 1 \in Nat /\ 1 \div 2 = 0 /\ 1 % 2 = 1
          OBVIOUS
      <2>2. B(0) = <<1>>
          BY <2>1, PowerFacts, BinaryFacts
      <2> HIDE DEF B
      <2> QED BY <2>2
  <1>2. ASSUME NEW k \in Nat, k \in S PROVE k + 1 \in S
      <2> DEFINE p == Power[k]
      <2>1. p \in Nat \ {0} /\ Power[k + 1] = 2 * p
          BY PowerFacts
      <2> HIDE DEF p
      <2>2. 2 * p \in Nat /\ (2 * p) \div 2 = p /\ (2 * p) % 2 = 0
          BY <2>1
      <2>3. B(k + 1) = <<0>> \o B(k)
          BY <2>1, <2>2, BinaryFacts DEF p
      <2>4. B(k) \in Seq({0, 1})
          BY <2>1, BinaryFacts DEF p
      <2> HIDE DEF B
      <2>5. Len(B(k)) = k + 1 /\ \A d \in 1 .. k : B(k)[d] = 0
          BY <1>2
      <2>6. Len(B(k + 1)) = (k + 1) + 1
          BY <2>3, <2>4, <2>5
      <2>7. ASSUME NEW d \in 1 .. k + 1 PROVE B(k + 1)[d] = 0
          <3>1. CASE d = 1
              BY <2>3, <2>4, <3>1
          <3>2. CASE d # 1
              <4>1. d - 1 \in 1 .. k
                  BY <3>2
              <4>2. B(k + 1)[d] = B(k)[d - 1]
                  BY <2>3, <2>4, <2>5, <4>1
              <4> QED BY <2>5, <4>1, <4>2
          <3> QED BY <3>1, <3>2
      <2> QED BY <2>6, <2>7
  <1> HIDE DEF S
  <1>3. \A k \in Nat : k \in S
      BY <1>1, <1>2, SetInduction
  <1> QED BY <1>3 DEF S

LEMMA SingleProduct ==
  ASSUME NEW n, NEW list, NEW binary, Len(binary) - 1 \in Nat,
         \A d \in 1 .. Len(binary) - 1 : binary[d] = 0
  PROVE  productSet(list, binary, n)[Len(binary) - 1] = <<list[Len(binary) - 1]>>
  <1> DEFINE top == Len(binary) - 1
             H == productSet(list, binary, n)
             Longer(k, w) == IF binary[top - k + 1] = 1
                               THEN Append(w, rotate(list[top - k], Power[top - 1] * (Len(w) + 1), n))
                               ELSE w
             g == [k \in 0 .. top |-> <<list[top]>>]
             S == {k \in Nat : k <= top => H[k] = <<list[top]>>}
  <1>0. top \in Nat
      OBVIOUS
  <1>1. \A k \in 1 .. top : \A w : Longer(k, w) = w
      <2>1. ASSUME NEW k \in 1 .. top PROVE binary[top - k + 1] = 0
          <3> DEFINE d == top - k + 1
          <3>1. d \in 1 .. top
              <4> HIDE DEF top
              <4> QED BY <1>0
          <3> HIDE DEF d
          <3> QED BY <3>1 DEF d
      <2> QED BY <2>1
  <1>2. H = [k \in 0 .. top |-> IF k = 0 THEN <<list[top]>> ELSE Longer(k, H[k - 1])]
      <2> HIDE DEF Longer
      <2>1. g = [k \in 0 .. top |-> IF k = 0 THEN <<list[top]>> ELSE Longer(k, g[k - 1])]
          <3> HIDE DEF top
          <3>1. ASSUME NEW k \in 0 .. top, k # 0 PROVE Longer(k, g[k - 1]) = <<list[top]>>
              <4>1. k \in 1 .. top /\ k - 1 \in 0 .. top
                  BY <1>0, <3>1
              <4> QED BY <1>1, <4>1
          <3> QED BY <3>1
      <2> QED BY <2>1, Zenon DEF productSet, Longer
  <1> HIDE DEF H, Longer, top
  <1>3. 0 \in S
      BY <1>0, <1>2
  <1>4. ASSUME NEW k \in Nat, k \in S PROVE k + 1 \in S
      <2>1. ASSUME k + 1 <= top PROVE H[k + 1] = <<list[top]>>
          <3>0. k <= top /\ (k + 1) - 1 = k /\ k + 1 \in 1 .. top
              BY <1>0, <2>1
          <3>1. H[k] = <<list[top]>>
              BY <1>4, <3>0
          <3>2. \A j \in 1 .. top : H[j] = Longer(j, H[j - 1])
              BY <1>0, <1>2
          <3> QED BY <1>1, <3>0, <3>1, <3>2
      <2> QED BY <2>1
  <1> HIDE DEF S
  <1>5. top \in S
      BY <1>0, <1>3, <1>4, SetInduction
  <1> QED BY <1>0, <1>5 DEF S, H, top

(* The product over n slots is 1 in its last slot only for a ciphertext    *)
(* that is 1 everywhere, which is so for some n and not for others.        *)
Exact(n) == \A v \in Ctxt(n) : n - 1 \in totalProduct(v, n) => v = getZZXOne(n)

(* The product over 2^k slots is exact, for every k: a check says included *)
(* only if it is.                                                          *)
THEOREM ExactForPowers == \A k \in Nat : Exact(Power[k])
  <1> SUFFICES ASSUME NEW k \in Nat, NEW v \in Ctxt(Power[k]),
                      Power[k] - 1 \in totalProduct(v, Power[k])
               PROVE  v = getZZXOne(Power[k])
      BY DEF Exact
  <1> DEFINE n == Power[k]
             binary == decomposeIntoBinary[n]
             top == Len(binary) - 1
             list == mulPowerOfTwoShiftList(v, top, n)
             products == productSet(list, binary, n)[top]
             terms == [t \in 0 .. Len(products) - 1 |-> products[t + 1]]
  <1>1. n \in Nat \ {0}
      BY PowerFacts
  <1>2. top = k /\ \A d \in 1 .. top : binary[d] = 0
      <2>1. Len(binary) = k + 1 /\ \A d \in 1 .. k : binary[d] = 0
          BY PowerDigits
      <2> QED BY <2>1
  <1>3. totalProduct(v, n) = tournamentProductArray(terms)
      BY DEF totalProduct
  <1>4. products = <<list[top]>>
      <2> HIDE DEF list, binary
      <2>1. top \in Nat
          BY <1>2
      <2> QED BY <1>2, <2>1, SingleProduct
  <1>5. list[top] \in Ctxt(n) /\ \A s \in list[top] : \A j \in 0 .. n - 1 : (s - j) % n \in v
      <2>1. top \in Nat /\ top \in 0 .. top /\ v \in Ctxt(n) /\ n = Power[top]
          BY <1>2
      <2> HIDE DEF n, top
      <2>2. \A i \in 0 .. top : list[i] \in Ctxt(n)
          BY <1>1, <2>1, ListFacts
      <2>3. \A i \in 0 .. top : \A s \in list[i] : \A j \in 0 .. Power[i] - 1 : (s - j) % n \in v
          BY <1>1, <2>1, Neighbours
      <2> HIDE DEF list
      <2> QED BY <2>1, <2>2, <2>3
  <1> HIDE DEF list
  <1>6. terms = [t \in 0 .. 0 |-> list[top]]
      BY <1>4
  <1> HIDE DEF n, top, terms
  <1>7. tournamentProductArray(terms) = list[top]
      <2> DEFINE U == 0 .. n - 1
      <2>1. list[top] \in SUBSET U
          BY <1>5 DEF Ctxt
      <2>2. PICK size \in Nat \ {0} : size = 1
          OBVIOUS
      <2>3. terms \in [0 .. size - 1 -> SUBSET U]
          BY <1>6, <2>1, <2>2
      <2> HIDE DEF U
      <2>4. tournamentProductArray(terms) = {s \in U : \A t \in 0 .. size - 1 : s \in terms[t]}
          BY <2>3, ProductArray
      <2>5. \A t \in 0 .. size - 1 : terms[t] = list[top]
          BY <1>6, <2>2
      <2>6. 0 \in 0 .. size - 1
          BY <2>2
      <2> QED BY <2>1, <2>4, <2>5, <2>6
  <1>8. n - 1 \in list[top]
      BY <1>3, <1>7 DEF n
  <1>9. ASSUME NEW s \in 0 .. n - 1 PROVE s \in v
      <2> DEFINE j == n - 1 - s
      <2>1. j \in 0 .. n - 1 /\ (n - 1) - j = n * 0 + s
          BY <1>1
      <2> HIDE DEF j
      <2>2. ((n - 1) - j) % n = s
          BY <1>1, <2>1, Quotient
      <2> QED BY <1>5, <1>8, <2>1, <2>2
  <1>10. v \subseteq 0 .. n - 1
      BY DEF Ctxt, n
  <1> QED BY <1>9, <1>10 DEF getZZXOne, n
-----------------------------------------------------------------------------
(* Filters and packs.                                                      *)
Sizes ==
  /\ nslots \in SlotCounts
  /\ algorithm \in Algorithms
  /\ params \in [filter_size : Nat \ {0}, num_hashes : Nat]
  /\ \E n \in Nat \ {0} : setA \in [0 .. n - 1 -> Element] /\ setB \in [0 .. n - 1 -> Element]

Bit == 0 .. params.filter_size - 1

LEMMA SizesFacts ==
  ASSUME Sizes PROVE nslots \in Nat \ {0} /\ params.filter_size \in Nat \ {0}
  BY PsicaAssumption DEF Sizes

LEMMA BitsFit ==
  ASSUME Sizes, NEW e \in Element PROVE BitsOf(params, e) \subseteq Bit
  <1> SUFFICES ASSUME NEW n \in 0 .. params.num_hashes - 1
               PROVE  nthHash(params, n, Murmur[e]) \in Bit
      BY DEF BitsOf
  <1>1. Murmur[e][1] \in Nat /\ Murmur[e][2] \in Nat /\ n \in Nat
      BY BloomAssumption, SMTT(20) DEF Sizes
  <1>2. Murmur[e][1] + n * Murmur[e][2] \in Int
      BY <1>1
  <1>3. (Murmur[e][1] + n * Murmur[e][2]) % UINT64 \in Int
      BY <1>2, BloomAssumption, Division
  <1> QED BY <1>3, SizesFacts, Division DEF nthHash, Bit

LEMMA FilterFits ==
  ASSUME Sizes PROVE FilterOf(setA) \subseteq Bit
  BY BitsFit DEF FilterOf, add, Sizes

\* Every bit of a filter is in some pack.
LEMMA PackFacts ==
  ASSUME Sizes
  PROVE  /\ npacks \in Nat \ {0}
         /\ \A b \in Bit : \E n \in Pack, j \in 0 .. nslots - 1 : b = n * nslots + j
  <1> DEFINE fs == params.filter_size
             q == fs \div nslots
             r == fs % nslots
  <1>1. nslots \in Nat \ {0} /\ fs \in Nat \ {0}
      BY SizesFacts
  <1>2. q \in Int /\ r \in 0 .. nslots - 1 /\ fs = nslots * q + r
      <2>1. fs \in Int
          BY <1>1
      <2> HIDE DEF fs
      <2> QED BY <1>1, <2>1, Division
  <1>3. npacks = IF fs > nslots THEN IF r = 0 THEN q ELSE q + 1 ELSE 1
      BY DEF npacks, calculateNPacks
  <1> HIDE DEF fs, q, r
  <1>4. q >= 0
      BY <1>1, <1>2
  <1>5. fs > nslots => q > 0
      BY <1>1, <1>2
  <1>6. npacks \in Nat \ {0}
      BY <1>2, <1>3, <1>4, <1>5
  <1>7. ASSUME NEW b \in Bit
        PROVE \E n \in Pack, j \in 0 .. nslots - 1 : b = n * nslots + j
      <2> DEFINE n == b \div nslots
                 j == b % nslots
      <2>1. b \in Int /\ 0 <= b /\ b < fs
          BY <1>1 DEF Bit, fs
      <2>2. n \in Int /\ j \in 0 .. nslots - 1 /\ b = nslots * n + j
          BY <1>1, <2>1, Division
      <2> HIDE DEF n, j
      <2>3. n >= 0
          BY <1>1, <2>1, <2>2
      <2>4. n < npacks
          <3>1. CASE fs > nslots /\ r = 0
              <4>1. nslots * n < nslots * q
                  BY <1>1, <1>2, <2>1, <2>2, <3>1
              <4> QED BY <1>1, <1>2, <1>3, <2>2, <3>1, <4>1
          <3>2. CASE fs > nslots /\ r # 0
              <4>1. nslots * n < nslots * (q + 1)
                  BY <1>1, <1>2, <2>1, <2>2
              <4> QED BY <1>1, <1>2, <1>3, <2>2, <3>2, <4>1
          <3>3. CASE ~ (fs > nslots)
              <4>1. nslots * n < nslots * 1
                  BY <1>1, <2>1, <2>2, <3>3
              <4> QED BY <1>1, <1>3, <2>2, <3>3, <4>1
          <3> QED BY <3>1, <3>2, <3>3
      <2>5. n \in Pack /\ b = n * nslots + j
          BY <1>1, <1>6, <2>2, <2>3, <2>4 DEF Pack
      <2> QED BY <2>2, <2>5
  <1> QED BY <1>6, <1>7

\* The bits of pack n, and the slots in front of them that are left 0.
BitsIn(n) == {j \in 0 .. nslots - 1 : n * nslots + j < params.filter_size}
Pad(n)    == nslots - Cardinality(BitsIn(n))

LEMMA PadFacts ==
  ASSUME Sizes, NEW n \in Pack
  PROVE  Pad(n) \in Nat /\ \A j \in BitsIn(n) : Pad(n) + j \in 0 .. nslots - 1
  <1> DEFINE rest == params.filter_size - n * nslots
  <1>1. nslots \in Nat \ {0} /\ params.filter_size \in Nat \ {0} /\ n \in Nat
      BY SizesFacts, PackFacts DEF Pack
  <1>2. rest \in Int
      BY <1>1
  <1>3. BitsIn(n) = {j \in 0 .. nslots - 1 : j < rest}
      BY <1>1 DEF BitsIn
  <1> HIDE DEF rest
  <1>4. CASE rest <= 0
      <2>1. BitsIn(n) = {}
          BY <1>2, <1>3, <1>4
      <2> QED BY <1>1, <2>1, FS_EmptySet DEF Pad
  <1>5. CASE rest > 0 /\ rest <= nslots
      <2>1. BitsIn(n) = 0 .. rest - 1
          BY <1>1, <1>2, <1>3, <1>5
      <2>2. Cardinality(0 .. rest - 1) = rest
          BY <1>2, <1>5, FS_Interval
      <2> QED BY <1>1, <1>2, <1>5, <2>1, <2>2 DEF Pad
  <1>6. CASE rest > nslots
      <2>1. BitsIn(n) = 0 .. nslots - 1
          BY <1>1, <1>2, <1>3, <1>6
      <2>2. Cardinality(0 .. nslots - 1) = nslots
          BY <1>1, FS_Interval
      <2> QED BY <1>1, <2>1, <2>2 DEF Pad
  <1> QED BY <1>1, <1>2, <1>4, <1>5, <1>6

LEMMA EnBloomFilterFacts ==
  ASSUME Sizes, NEW bf
  PROVE  /\ EnBloomFilter(bf) \in [Pack -> Ctxt(nslots)]
         /\ \A n \in Pack :
              EnBloomFilter(bf)[n] = {Pad(n) + j : j \in {j \in BitsIn(n) : n * nslots + j \in bf}}
  <1>1. EnBloomFilter(bf) =
          [n \in Pack |-> {Pad(n) + j : j \in {j \in BitsIn(n) : n * nslots + j \in bf}}]
      BY DEF EnBloomFilter, Pad, BitsIn
  <1>2. ASSUME NEW n \in Pack, NEW j \in BitsIn(n) PROVE Pad(n) + j \in 0 .. nslots - 1
      BY PadFacts
  <1> QED BY <1>1, <1>2 DEF Ctxt

\* One filter is included in another if it is in every pack.
LEMMA IncludedByPacks ==
  ASSUME Sizes, NEW b1 \in SUBSET Bit, NEW b2
  PROVE  b1 \subseteq b2 <=> \A n \in Pack : EnBloomFilter(b1)[n] \subseteq EnBloomFilter(b2)[n]
  <1>1. ASSUME b1 \subseteq b2, NEW n \in Pack
        PROVE  EnBloomFilter(b1)[n] \subseteq EnBloomFilter(b2)[n]
      BY <1>1, EnBloomFilterFacts
  <1>2. ASSUME \A n \in Pack : EnBloomFilter(b1)[n] \subseteq EnBloomFilter(b2)[n], NEW b \in b1
        PROVE  b \in b2
      <2>1. PICK n \in Pack, j \in 0 .. nslots - 1 : b = n * nslots + j
          BY PackFacts
      <2>2. nslots \in Nat \ {0} /\ params.filter_size \in Nat \ {0} /\ n \in Nat
          BY SizesFacts, PackFacts DEF Pack
      <2>3. j \in BitsIn(n)
          BY <2>1, <2>2 DEF BitsIn, Bit
      <2>4. Pad(n) + j \in EnBloomFilter(b1)[n]
          BY <2>1, <2>3, EnBloomFilterFacts
      <2>5. Pad(n) + j \in EnBloomFilter(b2)[n]
          BY <1>2, <2>4
      <2>6. PICK i \in BitsIn(n) : Pad(n) + j = Pad(n) + i /\ n * nslots + i \in b2
          BY <2>5, EnBloomFilterFacts
      <2>7. i \in Int /\ j \in Int /\ Pad(n) \in Int
          BY PadFacts DEF BitsIn
      <2>8. i = j
          BY <2>6, <2>7
      <2> QED BY <2>1, <2>6, <2>8
  <1> QED BY <1>1, <1>2
-----------------------------------------------------------------------------
(* The steps of the protocols.                                             *)
LEMMA MergedFilter ==
  ASSUME Sizes
  PROVE  mergeEncryptedBFs(EnBFs(setA)) = EnBloomFilter(FilterOf(setA))
  <1> DEFINE bf(i) == add(params, {}, setA[i])
             E == EnBFs(setA)
  <1>1. PICK m \in Nat \ {0} : setA \in [0 .. m - 1 -> Element]
      BY DEF Sizes
  <1>2. E = [i \in 0 .. m - 1 |-> EnBloomFilter(bf(i))]
      BY <1>1 DEF EnBFs, createBFs
  <1>3. FilterOf(setA) = UNION {bf(i) : i \in 0 .. m - 1}
      BY <1>1 DEF FilterOf
  <1> HIDE DEF bf, E
  <1>4. ASSUME NEW n \in Pack
        PROVE  Tournament("OR", [i \in DOMAIN E |-> E[i][n]]) = EnBloomFilter(FilterOf(setA))[n]
      <2> DEFINE array == [i \in 0 .. m - 1 |-> EnBloomFilter(bf(i))[n]]
      <2>1. [i \in DOMAIN E |-> E[i][n]] = array
          BY <1>2
      <2>2. \A i \in 0 .. m - 1 :
              array[i] = {Pad(n) + j : j \in {j \in BitsIn(n) : n * nslots + j \in bf(i)}}
          BY EnBloomFilterFacts
      <2>3. array \in [0 .. m - 1 -> SUBSET (0 .. nslots - 1)]
          BY EnBloomFilterFacts DEF Ctxt
      <2> HIDE DEF array
      <2>4. Tournament("OR", array) = UNION {array[t] : t \in 0 .. m - 1}
          BY <2>3, OROfArray
      <2>5. EnBloomFilter(FilterOf(setA))[n]
              = {Pad(n) + j : j \in {j \in BitsIn(n) : n * nslots + j \in FilterOf(setA)}}
          BY EnBloomFilterFacts
      <2>6. UNION {array[t] : t \in 0 .. m - 1}
              = {Pad(n) + j : j \in {j \in BitsIn(n) : n * nslots + j \in FilterOf(setA)}}
          BY <1>3, <2>2
      <2> QED BY <2>1, <2>4, <2>5, <2>6
  <1>5. mergeEncryptedBFs(E) = [n \in Pack |-> EnBloomFilter(FilterOf(setA))[n]]
      BY <1>4 DEF mergeEncryptedBFs
  <1>6. EnBloomFilter(FilterOf(setA)) = [n \in Pack |-> EnBloomFilter(FilterOf(setA))[n]]
      BY EnBloomFilterFacts
  <1> QED BY <1>5, <1>6 DEF E

LEMMA SlotIncludedFacts ==
  ASSUME Sizes, NEW n, enbloomSum[n] \in Ctxt(nslots), NEW bloom, bloom[n] \in Ctxt(nslots)
  PROVE  /\ SlotIncluded(n, bloom) \in Ctxt(nslots)
         /\ SlotIncluded(n, bloom) = getZZXOne(nslots) <=> bloom[n] \subseteq enbloomSum[n]
  <1>1. SlotIncluded(n, bloom) = (0 .. nslots - 1) \ (bloom[n] \ enbloomSum[n])
      BY DEF SlotIncluded, myNOT, myXOR, myAND, getZZXOne, Ctxt
  <1> QED BY <1>1 DEF Ctxt, getZZXOne

Merged == enbloomSum = EnBloomFilter(FilterOf(setA))

LEMMA InclusionInPacks ==
  ASSUME Sizes, Merged, NEW i \in IndexB
  PROVE  /\ EnBFs(setB)[i] \in [Pack -> Ctxt(nslots)]
         /\ \A n \in Pack : enbloomSum[n] \in Ctxt(nslots)
         /\ i \in Included <=> \A n \in Pack : EnBFs(setB)[i][n] \subseteq enbloomSum[n]
  <1> DEFINE b == add(params, {}, setB[i])
  <1>1. b = BitsOf(params, setB[i]) /\ setB[i] \in Element
      BY DEF add, Sizes, IndexB
  <1>2. EnBFs(setB)[i] = EnBloomFilter(b)
      BY DEF EnBFs, createBFs, IndexB
  <1>3. b \in SUBSET Bit
      BY <1>1, BitsFit
  <1>4. i \in Included <=> b \subseteq FilterOf(setA)
      BY <1>1 DEF Included, constains, BitsOf
  <1> HIDE DEF b
  <1> QED BY <1>2, <1>3, <1>4, EnBloomFilterFacts, IncludedByPacks DEF Merged

LEMMA BasicCheckFacts ==
  ASSUME Sizes, Merged, NEW i \in IndexB, algorithm = "Basic"
  PROVE  /\ Check(i) \in [Pack -> Ctxt(nslots)]
         /\ (\A n \in Pack : Check(i)[n] = getZZXOne(nslots)) <=> i \in Included
  <1> DEFINE bloom == EnBFs(setB)[i]
  <1>1. /\ bloom \in [Pack -> Ctxt(nslots)]
        /\ \A n \in Pack : enbloomSum[n] \in Ctxt(nslots)
        /\ i \in Included <=> \A n \in Pack : bloom[n] \subseteq enbloomSum[n]
      BY InclusionInPacks
  <1>2. Check(i) = [n \in Pack |-> SlotIncluded(n, bloom)]
      BY DEF Check, BasicCheck
  <1> HIDE DEF bloom
  <1>3. \A n \in Pack : /\ SlotIncluded(n, bloom) \in Ctxt(nslots)
                        /\ SlotIncluded(n, bloom) = getZZXOne(nslots)
                             <=> bloom[n] \subseteq enbloomSum[n]
      BY <1>1, SlotIncludedFacts
  <1> QED BY <1>1, <1>2, <1>3

\* The slot of its pack in which the check of index i answers.
OwnSlot(i) == nslots - 1 - (i % nslots)

LEMMA FriendlyCheckFacts ==
  ASSUME Sizes, Merged, NEW i \in IndexB, algorithm # "Basic"
  PROVE  /\ Check(i) \in {{}, {OwnSlot(i)}}
         /\ i \in Included => Check(i) # {}
         /\ Exact(nslots) /\ Check(i) # {} => i \in Included
  <1> DEFINE bloom == EnBFs(setB)[i]
             last == nslots - 1
             F == QuerierFavoriteCheck(bloom)
             T == tournamentProductArray(F)
             Product(n) == totalProduct(SlotIncluded(n, bloom), nslots)
  <1>1. /\ bloom \in [Pack -> Ctxt(nslots)]
        /\ \A n \in Pack : enbloomSum[n] \in Ctxt(nslots)
        /\ i \in Included <=> \A n \in Pack : bloom[n] \subseteq enbloomSum[n]
      BY InclusionInPacks
  <1>2. nslots \in Nat \ {0} /\ npacks \in Nat \ {0} /\ Pack = 0 .. npacks - 1 /\ i \in Nat
      <2>1. i \in Nat
          BY DEF IndexB, Sizes
      <2> QED BY <2>1, SizesFacts, PackFacts DEF Pack
  <1>3. Check(i) = rotate(T, -(i % nslots), nslots)
      BY DEF Check
  <1> HIDE DEF bloom
  <1>4. \A n \in Pack : /\ SlotIncluded(n, bloom) \in Ctxt(nslots)
                        /\ SlotIncluded(n, bloom) = getZZXOne(nslots)
                             <=> bloom[n] \subseteq enbloomSum[n]
      BY <1>1, SlotIncludedFacts
  <1>5. F = [n \in 0 .. npacks - 1 |-> Product(n) \cap {last}]
      BY <1>2 DEF QuerierFavoriteCheck, myANDConstant, myAND, getZZXOOne
  <1> HIDE DEF F, Product
  <1>6. T = {s \in {last} : \A n \in 0 .. npacks - 1 : s \in F[n]}
      <2> DEFINE U == {last}
      <2>1. F \in [0 .. npacks - 1 -> SUBSET U]
          BY <1>5
      <2>2. npacks \in Nat \ {0}
          BY <1>2
      <2> HIDE DEF U
      <2>3. tournamentProductArray(F) = {s \in U : \A n \in 0 .. npacks - 1 : s \in F[n]}
          BY <2>1, <2>2, ProductArray
      <2> QED BY <2>3 DEF U
  <1> HIDE DEF T
  <1>7. T = IF \A n \in Pack : last \in Product(n) THEN {last} ELSE {}
      BY <1>2, <1>5, <1>6
  <1>8. Check(i) = IF \A n \in Pack : last \in Product(n) THEN {OwnSlot(i)} ELSE {}
      <2>1. i % nslots \in 0 .. nslots - 1
          BY <1>2, Division
      <2> DEFINE r == i % nslots
      <2> HIDE DEF r
      <2> DEFINE w == last - r
      <2> PICK zero \in Int : zero = 0
          OBVIOUS
      <2>2. last + (-r) = nslots * zero + w /\ w \in 0 .. nslots - 1
          BY <1>2, <2>1 DEF r
      <2>3. (last + (-r)) % nslots = w
          <3> HIDE DEF w
          <3>1. (nslots * zero + w) % nslots = w
              BY <1>2, <2>2, Quotient
          <3> QED BY <2>2, <3>1
      <2> QED BY <1>3, <1>7, <2>3 DEF rotate, OwnSlot, r
  <1>9. ASSUME i \in Included, NEW n \in Pack PROVE last \in Product(n)
      <2>1. Product(n) = getZZXOne(nslots)
          BY <1>1, <1>2, <1>4, <1>9, ProductOfOnes DEF Product
      <2> QED BY <1>2, <2>1 DEF getZZXOne
  <1>10. ASSUME Exact(nslots), NEW n \in Pack, last \in Product(n)
         PROVE  bloom[n] \subseteq enbloomSum[n]
      BY <1>4, <1>10 DEF Exact, Product
  <1> QED BY <1>1, <1>8, <1>9, <1>10
-----------------------------------------------------------------------------
(* The rows of answers and their count.                                    *)
Tells(i, answer) ==
  IF algorithm = "Basic"
    THEN /\ answer \in [Pack -> Ctxt(nslots)]
         /\ (\A n \in Pack : answer[n] = getZZXOne(nslots)) <=> i \in Included
    ELSE /\ answer \in {{}, {OwnSlot(i)}}
         /\ i \in Included => answer # {}
         /\ Exact(nslots) /\ answer # {} => i \in Included

Answered(i) == Tells(i, checks[i])

Positive == {i \in IndexB : IF algorithm = "Basic" THEN i \in Included ELSE checks[i] # {}}

InRow(n) == {i \in IndexB : i \div nslots = n}
Row(n)   == UNION {checks[i] : i \in InRow(n)}

LEMMA IndexFacts ==
  ASSUME Sizes
  PROVE  /\ IndexB \subseteq Nat /\ IsFiniteSet(IndexB)
         /\ \E m \in Nat \ {0} : IndexB = 0 .. m - 1 /\ Cardinality(IndexB) = m
  <1>1. PICK m \in Nat \ {0} : IndexB = 0 .. m - 1
      BY DEF Sizes, IndexB
  <1>2. IsFiniteSet(0 .. m - 1) /\ Cardinality(0 .. m - 1) = m
      BY FS_Interval
  <1> QED BY <1>1, <1>2

LEMMA RowFacts ==
  ASSUME Sizes, NEW i \in IndexB
  PROVE  i \div nslots \in 0 .. re_npacks - 1
  <1> DEFINE q == i \div nslots
  <1>1. PICK m \in Nat \ {0} : IndexB = 0 .. m - 1 /\ Cardinality(IndexB) = m
      BY IndexFacts
  <1>2. nslots \in Nat \ {0} /\ i \in Int /\ m \in Int /\ 0 <= i /\ i < m
      BY <1>1, SizesFacts
  <1> DEFINE Q == m \div nslots
             R == m % nslots
  <1>3. re_npacks = Q + (IF R # 0 THEN 1 ELSE 0)
      BY <1>1 DEF re_npacks
  <1>4. q \in Int /\ i % nslots \in 0 .. nslots - 1 /\ i = nslots * q + (i % nslots)
      BY <1>2, Division
  <1>5. Q \in Int /\ R \in 0 .. nslots - 1 /\ m = nslots * Q + R
      BY <1>2, Division
  <1> HIDE DEF q, Q, R
  <1>6. q >= 0
      BY <1>2, <1>4
  <1>7. R = 0 => nslots * q < nslots * Q
      BY <1>2, <1>4, <1>5
  <1>8. R # 0 => nslots * q < nslots * (Q + 1)
      BY <1>2, <1>4, <1>5
  <1>9. q < re_npacks
      BY <1>2, <1>3, <1>4, <1>5, <1>7, <1>8
  <1>10. re_npacks \in Int
      BY <1>3, <1>5
  <1> QED BY <1>4, <1>6, <1>9, <1>10 DEF q

\* The slot in which a check answers is one of its ciphertext, and its own.
LEMMA OwnSlotFacts ==
  ASSUME Sizes, NEW i \in IndexB
  PROVE  /\ OwnSlot(i) \in 0 .. nslots - 1
         /\ \A j \in IndexB : i \div nslots = j \div nslots /\ OwnSlot(i) = OwnSlot(j) => i = j
  <1>1. nslots \in Nat \ {0} /\ IndexB \subseteq Nat
      BY SizesFacts, IndexFacts
  <1>2. i \in Int /\ i % nslots \in 0 .. nslots - 1 /\ i = nslots * (i \div nslots) + (i % nslots)
      BY <1>1, Division
  <1>3. ASSUME NEW j \in IndexB, i \div nslots = j \div nslots, OwnSlot(i) = OwnSlot(j)
        PROVE  i = j
      <2>1. j \in Int /\ j % nslots \in 0 .. nslots - 1 /\ j = nslots * (j \div nslots) + (j % nslots)
          BY <1>1, Division
      <2>2. i % nslots = j % nslots
          BY <1>1, <1>2, <1>3, <2>1 DEF OwnSlot
      <2> QED BY <1>2, <1>3, <2>1, <2>2
  <1> QED BY <1>1, <1>2, <1>3 DEF OwnSlot

LEMMA AggregatedRow ==
  ASSUME Sizes, algorithm # "Basic", \A i \in IndexB : Answered(i), NEW n \in Nat
  PROVE  tournamentORope(tournamentORs(n)) = Row(n)
  <1> DEFINE U == 0 .. nslots - 1
             array == tournamentORs(n)
  <1>1. nslots \in Nat \ {0} /\ IndexB \subseteq Nat
      BY SizesFacts, IndexFacts
  <1>2. ASSUME NEW i \in IndexB PROVE checks[i] \in SUBSET U
      <2>1. OwnSlot(i) \in U
          BY OwnSlotFacts
      <2>2. checks[i] \in {{}, {OwnSlot(i)}}
          BY DEF Answered, Tells
      <2> QED BY <2>1, <2>2
  <1> HIDE DEF U
  <1>3. /\ array \in [0 .. nslots - 1 -> SUBSET U]
        /\ \A t \in 0 .. nslots - 1 :
             array[t] = IF n * nslots + t \in IndexB THEN checks[n * nslots + t] ELSE {}
      BY <1>2 DEF tournamentORs
  <1> HIDE DEF array
  <1>4. tournamentORope(array) = UNION {array[t] : t \in 0 .. nslots - 1}
      BY <1>1, <1>3, OROfArray DEF tournamentORope
  <1>5. ASSUME NEW i \in InRow(n)
        PROVE  \E t \in 0 .. nslots - 1 : i = n * nslots + t
      <2>1. i \in Int /\ i \div nslots = n
          BY <1>1 DEF InRow
      <2>2. i % nslots \in 0 .. nslots - 1 /\ i = nslots * (i \div nslots) + (i % nslots)
          BY <1>1, <2>1, Division
      <2>3. i = n * nslots + (i % nslots)
          BY <1>1, <2>1, <2>2
      <2> QED BY <2>2, <2>3
  <1>6. ASSUME NEW t \in 0 .. nslots - 1, n * nslots + t \in IndexB
        PROVE  n * nslots + t \in InRow(n)
      <2>1. n * nslots + t = nslots * n + t
          BY <1>1
      <2>2. (nslots * n + t) \div nslots = n
          BY <1>1, Quotient
      <2> QED BY <1>6, <2>1, <2>2 DEF InRow
  <1>7. UNION {array[t] : t \in 0 .. nslots - 1} = Row(n)
      <2>1. ASSUME NEW s, NEW t \in 0 .. nslots - 1, s \in array[t] PROVE s \in Row(n)
          <3>1. n * nslots + t \in IndexB /\ s \in checks[n * nslots + t]
              BY <1>3, <2>1
          <3> QED BY <1>6, <3>1 DEF Row
      <2>2. ASSUME NEW s, NEW i \in InRow(n), s \in checks[i]
            PROVE  \E t \in 0 .. nslots - 1 : s \in array[t]
          <3>1. PICK t \in 0 .. nslots - 1 : i = n * nslots + t
              BY <1>5
          <3>2. i \in IndexB
              BY DEF InRow
          <3> QED BY <1>3, <2>2, <3>1, <3>2
      <2> QED BY <2>1, <2>2 DEF Row
  <1> QED BY <1>4, <1>7 DEF array

(* Counting the slots that are 1 counts the answers that are: no two share *)
(* a slot.                                                                 *)
LEMMA CountedSlots ==
  ASSUME Sizes, algorithm # "Basic", \A i \in IndexB : Answered(i)
  PROVE  Cardinality(UNION {{n} \X Row(n) : n \in 0 .. re_npacks - 1}) = Cardinality(Positive)
  <1> DEFINE T == UNION {{n} \X Row(n) : n \in 0 .. re_npacks - 1}
             f == [i \in Positive |-> <<i \div nslots, OwnSlot(i)>>]
  <1>1. nslots \in Nat \ {0} /\ IndexB \subseteq Nat
      BY SizesFacts, IndexFacts
  <1>2. Positive \subseteq IndexB /\ \A i \in Positive : checks[i] = {OwnSlot(i)}
      BY DEF Positive, Answered, Tells
  <1>3. ASSUME NEW i \in Positive PROVE f[i] \in T
      <2>1. i \div nslots \in 0 .. re_npacks - 1
          BY <1>2, RowFacts
      <2>2. OwnSlot(i) \in Row(i \div nslots)
          BY <1>2 DEF Row, InRow
      <2> QED BY <2>1, <2>2
  <1>4. ASSUME NEW p \in T PROVE \E i \in Positive : f[i] = p
      <2>1. PICK n \in 0 .. re_npacks - 1 : \E s \in Row(n) : p = <<n, s>>
          OBVIOUS
      <2>5. PICK s \in Row(n) : p = <<n, s>>
          BY <2>1
      <2>2. PICK i \in IndexB : i \div nslots = n /\ s \in checks[i]
          BY DEF Row, InRow
      <2>3. i \in Positive
          BY <2>2 DEF Positive
      <2>4. s = OwnSlot(i)
          BY <1>2, <2>2, <2>3
      <2> QED BY <2>2, <2>3, <2>4, <2>5
  <1>5. ASSUME NEW i \in Positive, NEW j \in Positive, f[i] = f[j] PROVE i = j
      BY <1>2, <1>5, OwnSlotFacts
  <1>6. IsFiniteSet(Positive)
      BY <1>2, IndexFacts, FS_Subset
  <1> HIDE DEF T
  <1>7. f \in Surjection(Positive, T) /\ f \in Injection(Positive, T)
      <2>1. f \in [Positive -> T]
          BY <1>3
      <2> HIDE DEF f
      <2> QED BY <1>4, <1>5, <2>1 DEF Surjection, Injection, IsInjective
  <1> HIDE DEF f
  <1>8. Cardinality(T) = Cardinality(Positive)
      BY <1>6, <1>7, FS_Surjection
  <1> QED BY <1>8 DEF T
-----------------------------------------------------------------------------
(* The inductive invariant: each check that was made tells whether its     *)
(* element is included, and the result file holds the rows of them all.    *)
Rows == IF algorithm = "Basic" THEN checks
        ELSE [row \in {0} |-> [n \in 0 .. re_npacks - 1 |-> Row(n)]]

PsicaInv ==
  /\ Sizes
  /\ phase \in {"merge", "check", "decrypt", "counted"}
  /\ done \subseteq IndexB
  /\ phase = "merge" => done = {}
  /\ phase # "merge" => Merged /\ DOMAIN checks = IndexB
  /\ \A i \in done : Answered(i)
  /\ phase \in {"decrypt", "counted"} => done = IndexB /\ results = Rows
  /\ phase = "counted" => sum = Cardinality(Positive)
  /\ sum \in 0 .. Cardinality(IndexB)

LEMMA ParamsFacts ==
  ASSUME NEW setting \in Settings
  PROVE  createParams(setting[1], setting[2]) \in [filter_size : Nat \ {0}, num_hashes : Nat]
  <1> DEFINE n == setting[1]
             negLog == setting[2]
             a == n * negLog
             size == a \div 4805
             b == size * 6931
             d == 10000 * n
             hashes == b \div d
  <1>1. n \in Nat \ {0} /\ negLog \in Nat /\ hashes > 0
      BY PsicaAssumption DEF createParams
  <1>2. createParams(n, negLog) = [filter_size |-> size, num_hashes |-> hashes]
      BY DEF createParams
  <1> HIDE DEF n, negLog
  <1>3. a \in Nat /\ d \in Nat \ {0}
      BY <1>1
  <1> HIDE DEF a, d
  <1>4. size \in Int /\ a % 4805 \in 0 .. 4805 - 1 /\ a = 4805 * size + (a % 4805)
      <2>1. 4805 \in Nat \ {0} /\ a \in Int
          BY <1>3
      <2> QED BY <2>1, Division
  <1> HIDE DEF size
  <1>5. size \in Nat /\ b \in Int /\ (size = 0 => b = 0)
      BY <1>3, <1>4
  <1> HIDE DEF b
  <1>6. hashes \in Int /\ b % d \in 0 .. d - 1 /\ b = d * hashes + (b % d)
      BY <1>3, <1>5, Division
  <1> HIDE DEF hashes
  <1>7. d * hashes > 0
      <2>1. \A x, y \in Nat \ {0} : x * y > 0
          OBVIOUS
      <2> QED BY <1>1, <1>3, <1>6, <2>1
  <1>8. size # 0
      <2> DEFINE e == d * hashes
                 r == b % d
      <2>1. e \in Int /\ e > 0 /\ r \in Int /\ 0 <= r /\ b = e + r
          BY <1>3, <1>6, <1>7
      <2> HIDE DEF e, r
      <2> QED BY <1>5, <2>1
  <1> QED BY <1>1, <1>2, <1>5, <1>6, <1>8 DEF n, negLog

LEMMA InitInv == PsicaInit => PsicaInv
  <1> SUFFICES ASSUME PsicaInit PROVE PsicaInv
      OBVIOUS
  <1>1. PICK n \in 1 .. MaxElements : /\ setA \in [0 .. n - 1 -> Element]
                                      /\ setB \in [0 .. n - 1 -> Element]
      BY DEF PsicaInit
  <1>2. n \in Nat \ {0}
      BY <1>1, PsicaAssumption
  <1>3. params \in [filter_size : Nat \ {0}, num_hashes : Nat]
      BY ParamsFacts DEF PsicaInit
  <1>4. Sizes
      BY <1>1, <1>2, <1>3 DEF Sizes, PsicaInit
  <1>5. Cardinality(IndexB) \in Nat
      BY <1>4, IndexFacts
  <1>6. sum \in 0 .. Cardinality(IndexB)
      BY <1>5 DEF PsicaInit
  <1> QED BY <1>4, <1>6 DEF PsicaInit, PsicaInv

(* What a step leaves alone as long as the files, the parameters and the   *)
(* protocol stay the same, which they do.                                  *)
LEMMA Frame ==
  ASSUME Sizes, UNCHANGED <<nslots, algorithm, params, setA, setB>>
  PROVE  /\ Sizes' /\ IndexB' = IndexB /\ Included' = Included /\ Pack' = Pack
         /\ re_npacks' = re_npacks
         /\ EnBloomFilter(FilterOf(setA))' = EnBloomFilter(FilterOf(setA))
         /\ \A i \in IndexB : \A answer : checks'[i] = answer /\ Tells(i, answer) => Answered(i)'
  <1>1. Sizes'
      BY DEF Sizes
  <1>2. IndexB' = IndexB /\ Included' = Included
      BY DEF IndexB, Included, constains, FilterOf, add, BitsOf, nthHash
  <1>3. Pack' = Pack /\ re_npacks' = re_npacks
      BY <1>2 DEF Pack, npacks, calculateNPacks, re_npacks
  <1>4. EnBloomFilter(FilterOf(setA))' = EnBloomFilter(FilterOf(setA))
      <2>1. FilterOf(setA)' = FilterOf(setA)
          BY DEF FilterOf, add, BitsOf, nthHash
      <2> QED BY <1>3, <2>1 DEF EnBloomFilter
  <1>5. ASSUME NEW i \in IndexB, NEW answer, checks'[i] = answer, Tells(i, answer)
        PROVE  Answered(i)'
      <2>1. Ctxt(nslots)' = Ctxt(nslots) /\ getZZXOne(nslots)' = getZZXOne(nslots)
          BY DEF Ctxt, getZZXOne
      <2>2. OwnSlot(i)' = OwnSlot(i) /\ Exact(nslots)' = Exact(nslots)
          BY DEF OwnSlot
      <2> QED BY <1>2, <1>3, <1>5, <2>1, <2>2 DEF Answered, Tells
  <1> QED BY <1>1, <1>2, <1>3, <1>4, <1>5

LEMMA MergeInv ==
  ASSUME PsicaInv, Merge PROVE PsicaInv'
  <1>1. Sizes /\ UNCHANGED <<nslots, algorithm, params, setA, setB>>
      BY DEF PsicaInv, Merge
  <1>2. Sizes' /\ IndexB' = IndexB
      BY <1>1, Frame
  <1>3. enbloomSum' = EnBloomFilter(FilterOf(setA))
      BY <1>1, MergedFilter DEF Merge
  <1>4. EnBloomFilter(FilterOf(setA))' = EnBloomFilter(FilterOf(setA))
      BY <1>1, Frame
  <1>5. Merged'
      BY <1>3, <1>4 DEF Merged
  <1>6. done' = {} /\ phase' = "check" /\ DOMAIN checks' = IndexB'
      BY <1>2 DEF PsicaInv, Merge
  <1>7. sum' \in 0 .. Cardinality(IndexB')
      BY <1>2 DEF PsicaInv, Merge
  <1> QED BY <1>2, <1>5, <1>6, <1>7 DEF PsicaInv

\* What one check tells is true.
LEMMA CheckAnswers ==
  ASSUME Sizes, Merged, NEW i \in IndexB
  PROVE  Tells(i, Check(i))
  <1>1. CASE algorithm = "Basic"
      BY <1>1, BasicCheckFacts DEF Answered, Tells
  <1>2. CASE algorithm # "Basic"
      BY <1>2, FriendlyCheckFacts DEF Answered, Tells
  <1> QED BY <1>1, <1>2

LEMMA CheckInv ==
  ASSUME PsicaInv, NEW k \in IndexB, InclusionCheck(k) PROVE PsicaInv'
  <1>1. /\ Sizes /\ Merged /\ DOMAIN checks = IndexB /\ done \subseteq IndexB
        /\ sum \in 0 .. Cardinality(IndexB)
        /\ \A i \in done : Answered(i)
      BY DEF PsicaInv, InclusionCheck
  <1>2. UNCHANGED <<nslots, algorithm, params, setA, setB, enbloomSum>>
      BY DEF InclusionCheck
  <1>3. /\ Sizes' /\ IndexB' = IndexB /\ Merged'
        /\ EnBloomFilter(FilterOf(setA))' = EnBloomFilter(FilterOf(setA))
      BY <1>1, <1>2, Frame DEF Merged, Answered
  <1>4. /\ phase' = "check" /\ done' = done \cup {k} /\ done' \subseteq IndexB' /\ UNCHANGED sum
        /\ DOMAIN checks' = IndexB'
      BY <1>1, <1>3 DEF InclusionCheck
  <1>5. ASSUME NEW i \in done' PROVE Answered(i)'
      <2>1. CASE i = k
          <3>1. Tells(k, Check(k)) /\ checks'[k] = Check(k)
              BY <1>1, CheckAnswers DEF InclusionCheck
          <3> QED BY <1>1, <1>2, <2>1, <3>1, Frame
      <2>2. CASE i # k
          <3>1. i \in done /\ i \in IndexB /\ checks'[i] = checks[i]
              BY <1>1, <1>4, <2>2 DEF InclusionCheck
          <3> QED BY <1>1, <1>2, <3>1, Frame DEF Answered
      <2> QED BY <2>1, <2>2
  <1>6. sum' \in 0 .. Cardinality(IndexB')
      BY <1>1, <1>3, <1>4
  <1> QED BY <1>3, <1>4, <1>5, <1>6 DEF PsicaInv

LEMMA AggregateInv ==
  ASSUME PsicaInv, Aggregate PROVE PsicaInv'
  <1>1. /\ Sizes /\ Merged /\ DOMAIN checks = IndexB /\ done = IndexB
        /\ sum \in 0 .. Cardinality(IndexB)
        /\ \A i \in IndexB : Answered(i)
      BY DEF PsicaInv, Aggregate
  <1>2. UNCHANGED <<nslots, algorithm, params, setA, setB, enbloomSum, done, checks, sum>>
        /\ phase' = "decrypt"
      BY DEF Aggregate
  <1>3. /\ Sizes' /\ IndexB' = IndexB /\ Merged' /\ re_npacks' = re_npacks
        /\ \A i \in IndexB : Answered(i)'
      BY <1>1, <1>2, Frame DEF Merged, Answered
  <1>4. re_npacks \in Int
      <2>1. nslots \in Nat \ {0} /\ Cardinality(IndexB) \in Int
          BY <1>1, SizesFacts, IndexFacts
      <2>2. Cardinality(IndexB) \div nslots \in Int
          BY <2>1, Division
      <2> QED BY <2>2 DEF re_npacks
  <1>5. results' = Rows
      <2>1. CASE algorithm = "Basic"
          BY <2>1 DEF Aggregate, Rows
      <2>2. CASE algorithm # "Basic"
          <3>1. ASSUME NEW n \in 0 .. re_npacks - 1
                PROVE  tournamentORope(tournamentORs(n)) = Row(n)
              <4>1. n \in Nat
                  BY <1>4
              <4> QED BY <1>1, <2>2, <4>1, AggregatedRow
          <3> QED BY <2>2, <3>1 DEF Aggregate, Rows
      <2> QED BY <2>1, <2>2
  <1>6. Rows' = Rows
      BY <1>2, <1>3 DEF Rows, Row, InRow
  <1>7. sum' \in 0 .. Cardinality(IndexB')
      BY <1>1, <1>2, <1>3
  <1> QED BY <1>1, <1>2, <1>3, <1>5, <1>6, <1>7 DEF PsicaInv

LEMMA CountInv ==
  ASSUME PsicaInv, GetResult PROVE PsicaInv'
  <1>1. /\ Sizes /\ Merged /\ DOMAIN checks = IndexB /\ done = IndexB /\ results = Rows
        /\ \A i \in IndexB : Answered(i)
      BY DEF PsicaInv, GetResult
  <1>2. UNCHANGED <<nslots, algorithm, params, setA, setB, enbloomSum, done, checks, results>>
        /\ phase' = "counted"
      BY DEF GetResult
  <1>3. /\ Sizes' /\ IndexB' = IndexB /\ Included' = Included /\ Merged' /\ re_npacks' = re_npacks
        /\ \A i \in IndexB : Answered(i)'
      BY <1>1, <1>2, Frame DEF Merged, Answered
  <1>4. Rows' = Rows /\ Positive' = Positive
      BY <1>2, <1>3 DEF Rows, Row, InRow, Positive
  <1>5. sum' = Cardinality(Positive)
      <2>1. CASE algorithm = "Basic"
          <3>1. results = checks
              BY <1>1, <2>1 DEF Rows
          <3>2. {row \in DOMAIN results : \A n \in Pack : results[row][n] = getZZXOne(nslots)}
                  = Positive
              BY <1>1, <2>1, <3>1 DEF Positive, Answered, Tells
          <3> QED BY <2>1, <3>2 DEF GetResult
      <2>2. CASE algorithm # "Basic"
          <3> DEFINE row == [n \in 0 .. re_npacks - 1 |-> Row(n)]
          <3>1. results[0] = row
              BY <1>1, <2>2 DEF Rows
          <3>2. UNION {{n} \X results[0][n] : n \in DOMAIN results[0]}
                  = UNION {{n} \X Row(n) : n \in 0 .. re_npacks - 1}
              BY <3>1
          <3>3. sum' = Cardinality(UNION {{n} \X Row(n) : n \in 0 .. re_npacks - 1})
              BY <2>2, <3>2 DEF GetResult
          <3> QED BY <1>1, <2>2, <3>3, CountedSlots
      <2> QED BY <2>1, <2>2
  <1>6. sum' \in 0 .. Cardinality(IndexB')
      <2>1. Positive \subseteq IndexB
          BY DEF Positive
      <2>2. IsFiniteSet(IndexB)
          BY <1>1, IndexFacts
      <2>3. /\ Cardinality(Positive) <= Cardinality(IndexB)
            /\ Cardinality(Positive) \in Nat /\ Cardinality(IndexB) \in Nat
          BY <2>1, <2>2, FS_Subset, FS_CardinalityType
      <2> QED BY <1>3, <1>5, <2>3
  <1> QED BY <1>1, <1>2, <1>3, <1>4, <1>5, <1>6 DEF PsicaInv

LEMMA StutterInv ==
  ASSUME PsicaInv, UNCHANGED psicaVars PROVE PsicaInv'
  <1>1. UNCHANGED <<nslots, algorithm, params, setA, setB, phase, enbloomSum, done, checks,
                    results, sum>> /\ Sizes
      BY DEF psicaVars, PsicaInv
  <1>2. /\ Sizes' /\ IndexB' = IndexB /\ Included' = Included /\ (Merged' <=> Merged)
        /\ re_npacks' = re_npacks
      BY <1>1, Frame DEF Merged
  <1>3. \A i \in done : i \in IndexB => Answered(i)'
      BY <1>1, Frame DEF PsicaInv, Answered
  <1>4. Rows' = Rows /\ Positive' = Positive
      BY <1>1, <1>2 DEF Rows, Row, InRow, Positive
  <1> QED BY <1>1, <1>2, <1>3, <1>4 DEF PsicaInv

LEMMA Inductive == PsicaSpec => []PsicaInv
  <1>1. PsicaInv /\ [PsicaNext]_psicaVars => PsicaInv'
      BY MergeInv, CheckInv, AggregateInv, CountInv, StutterInv DEF PsicaNext
  <1> QED BY <1>1, InitInv, PTL DEF PsicaSpec
-----------------------------------------------------------------------------
(* PsicaTypeOK: the merged filter and every check are ciphertexts of as    *)
(* many slots as there are, in the packs of the filters, and the count is  *)
(* never above the number of elements of B.                                *)
THEOREM PsicaTypeCorrect == PsicaSpec => []PsicaTypeOK
  <1>1. PsicaInv => PsicaTypeOK
      <2> SUFFICES ASSUME PsicaInv PROVE PsicaTypeOK
          OBVIOUS
      <2>1. Sizes /\ done \subseteq IndexB
          BY DEF PsicaInv
      <2>2. phase # "merge" => enbloomSum \in [Pack -> Ctxt(nslots)]
          BY <2>1, EnBloomFilterFacts DEF PsicaInv, Merged
      <2>3. ASSUME NEW i \in done
            PROVE  checks[i] \in IF algorithm = "Basic" THEN [Pack -> Ctxt(nslots)]
                                                        ELSE Ctxt(nslots)
          <3>1. Tells(i, checks[i])
              BY DEF PsicaInv, Answered
          <3>2. OwnSlot(i) \in 0 .. nslots - 1
              BY <2>1, OwnSlotFacts
          <3> QED BY <3>1, <3>2 DEF Tells, Ctxt
      <2> QED BY <2>1, <2>2, <2>3 DEF PsicaInv, PsicaTypeOK, Sizes
  <1> QED BY <1>1, Inductive, PTL

(* SlotOfItsOwn: each check is rotated to a slot that no other check of    *)
(* its pack answers in, in whatever order the threads make them            *)
(* (protocol.cpp:173-174).                                                 *)
THEOREM SlotsAreOwn == PsicaSpec => []SlotOfItsOwn
  <1>1. PsicaInv => SlotOfItsOwn
      <2> SUFFICES ASSUME PsicaInv, algorithm = "QuerierFriendly",
                          NEW i \in done, NEW j \in done, i # j, i \div nslots = j \div nslots
                   PROVE  checks[i] \cap checks[j] = {}
          BY DEF SlotOfItsOwn
      <2>1. Sizes /\ i \in IndexB /\ j \in IndexB
          BY DEF PsicaInv
      <2>2. checks[i] \in {{}, {OwnSlot(i)}} /\ checks[j] \in {{}, {OwnSlot(j)}}
          BY DEF PsicaInv, Answered, Tells
      <2>3. OwnSlot(i) # OwnSlot(j)
          BY <2>1, OwnSlotFacts
      <2> QED BY <2>2, <2>3
  <1> QED BY <1>1, Inductive, PTL

(* NeverUndercounts: packing, padding, the tournaments, the product of the *)
(* slots, rotation and aggregation lose no element that both owners have.  *)
THEOREM NothingLost == PsicaSpec => []NeverUndercounts
  <1>1. PsicaInv => NeverUndercounts
      <2> SUFFICES ASSUME PsicaInv, phase = "counted" PROVE sum >= Cardinality(Common)
          BY DEF NeverUndercounts
      <2>1. Sizes /\ done = IndexB /\ sum = Cardinality(Positive)
          BY DEF PsicaInv
      <2>2. Common \subseteq Included
          <3> SUFFICES ASSUME NEW i \in IndexB, NEW j \in DOMAIN setA, setA[j] = setB[i],
                              NEW k \in 0 .. params.num_hashes - 1
                       PROVE  nthHash(params, k, Murmur[setB[i]]) \in FilterOf(setA)
              BY DEF Common, Included, constains
          <3>1. nthHash(params, k, Murmur[setB[i]]) \in add(params, {}, setA[j])
              BY DEF add, BitsOf
          <3> QED BY <3>1 DEF FilterOf
      <2>3. Included \subseteq Positive
          <3> SUFFICES ASSUME NEW i \in Included PROVE i \in Positive
              OBVIOUS
          <3>1. i \in IndexB
              BY DEF Included
          <3>2. Tells(i, checks[i])
              BY <2>1, <3>1 DEF PsicaInv, Answered
          <3> QED BY <3>1, <3>2 DEF Positive, Tells
      <2>4. Positive \subseteq IndexB /\ IsFiniteSet(IndexB)
          BY <2>1, IndexFacts DEF Positive
      <2>5. IsFiniteSet(Positive)
          BY <2>4, FS_Subset
      <2>6. Cardinality(Common) <= Cardinality(Positive)
          BY <2>2, <2>3, <2>5, FS_Subset
      <2>7. Cardinality(Common) \in Nat /\ Cardinality(Positive) \in Nat
          BY <2>2, <2>3, <2>5, FS_Subset, FS_CardinalityType
      <2> QED BY <2>1, <2>6, <2>7
  <1> QED BY <1>1, Inductive, PTL

(* CountsIncluded: the number that the querier decrypts is the number of   *)
(* the elements of B that the Bloom filter of A would be said to contain.  *)
(* The querier-friendly protocol, unlike the basic one, needs the product  *)
(* of the slots to be exact for the numbers of slots in use: it is not for *)
(* 11 slots, and is for every power of two (ExactForPowers).               *)
THEOREM CountIsExact ==
  ASSUME "QuerierFriendly" \in Algorithms => \A n \in SlotCounts : Exact(n)
  PROVE  PsicaSpec => []CountsIncluded
  <1>1. PsicaInv => CountsIncluded
      <2> SUFFICES ASSUME PsicaInv, phase = "counted" PROVE sum = Cardinality(Included)
          BY DEF CountsIncluded
      <2>1. Sizes /\ done = IndexB /\ sum = Cardinality(Positive)
          BY DEF PsicaInv
      <2>2. algorithm # "Basic" => Exact(nslots)
          BY <2>1, PsicaAssumption DEF Sizes
      <2>3. \A i \in IndexB : Tells(i, checks[i])
          BY <2>1 DEF PsicaInv, Answered
      <2>4. \A i \in IndexB : i \in Positive <=> i \in Included
          BY <2>2, <2>3 DEF Positive, Tells
      <2>5. Positive = Included
          BY <2>4 DEF Positive, Included
      <2> QED BY <2>1, <2>5
  <1> QED BY <1>1, Inductive, PTL
=============================================================================

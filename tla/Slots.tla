------------------------------- MODULE Slots --------------------------------
(***************************************************************************)
(* Ciphertexts as what they encrypt: a vector of n slots over GF(2), here  *)
(* the set of the slots that are 1 (slot n-1 is the last).  The operators  *)
(* are those of opsica_function.cpp; rotate is HElib's.                    *)
(***************************************************************************)
EXTENDS Integers, FiniteSets, Sequences

Ctxt(n) == SUBSET (0 .. n - 1)

myXOR(a, b) == (a \ b) \cup (b \ a)
myAND(a, b) == a \cap b
myOR(a, b)  == myXOR(myAND(a, b), myXOR(a, b))

\* With a constant, an encoded vector instead of a ciphertext.
getZZXOne(n)  == 0 .. n - 1
getZZXOOne(n) == {n - 1}

myNOT(a, zzxOne)      == myXOR(a, zzxOne)
myANDConstant(a, zzx) == myAND(a, zzx)

rotate(a, k, n) == {(s + k) % n : s \in a}

\* 1 << k, the i of round k of a loop that doubles it.
Power[k \in Nat] == IF k = 0 THEN 1 ELSE 2 * Power[k - 1]

(***************************************************************************)
(* A tournament combines array[j] and array[j + i], for j in steps of 2*i  *)
(* and i = 1, 2, 4, ...; the pairs of one round are disjoint.  A round in  *)
(* which i is not below the size, at which the loop ends, has no pairs.    *)
(***************************************************************************)
Combine(op, a, b) == IF op = "AND" THEN myAND(a, b) ELSE myOR(a, b)

Round(op, array, i) ==
  LET size == Cardinality(DOMAIN array)
  IN  [j \in DOMAIN array |->
         IF j % (2 * i) = 0 /\ j + i < size THEN Combine(op, array[j], array[j + i])
                                            ELSE array[j]]

Rounds(op, array) ==
  LET after[k \in Nat] == IF k = 0 THEN array
                                   ELSE Round(op, after[k - 1], Power[k - 1])
  IN  after

Tournament(op, array) == Rounds(op, array)[Cardinality(DOMAIN array)][0]

tournamentProductArray(array) == Tournament("AND", array)
tournamentORope(array)        == Tournament("OR", array)

(***************************************************************************)
(* totalProduct ANDs all slots of a ciphertext, which ends up in the last  *)
(* slot at least: list[i] is the AND of 2^i neighbours, and each binary    *)
(* digit 1 of the number of slots, from the highest down, adds list[i] at  *)
(* its own shift.                                                          *)
(***************************************************************************)
\* The lowest digit comes first.
decomposeIntoBinary[x \in Nat] ==
  IF x \div 2 = 0 THEN <<x % 2>> ELSE <<x % 2>> \o decomposeIntoBinary[x \div 2]

mulPowerOfTwoShiftList(v, k, n) ==
  LET list[i \in 0 .. k] ==
        IF i = 0 THEN v
        ELSE LET prev == list[i - 1]
             IN  myAND(prev, rotate(prev, Power[i - 1], n))
  IN  list

\* The products after the k digits below the highest.
productSet(list, binary, n) ==
  LET top == Len(binary) - 1
      after[k \in 0 .. top] ==
        IF k = 0 THEN <<list[top]>>
        ELSE LET last   == after[k - 1]
                 nshift == Power[top - 1] * (Len(last) + 1)
             IN  IF binary[top - k + 1] = 1
                   THEN Append(last, rotate(list[top - k], nshift, n))
                   ELSE last
  IN  after

totalProduct(v, n) ==
  LET binary   == decomposeIntoBinary[n]
      top      == Len(binary) - 1
      list     == mulPowerOfTwoShiftList(v, top, n)
      products == productSet(list, binary, n)[top]
  IN  tournamentProductArray([t \in 0 .. Len(products) - 1 |-> products[t + 1]])
=============================================================================

------------------------------- MODULE Psica --------------------------------
(***************************************************************************)
(* The computation on the encrypted sets, from the owners' Bloom filters   *)
(* to the number the querier decrypts (opsica_psica.cpp and the two        *)
(* protocols).  Encryption itself is left out: a ciphertext is its slots.  *)
(* The inclusion checks run in any order, each exactly once, which is what *)
(* AsyncEval is shown to provide.                                          *)
(***************************************************************************)
EXTENDS Slots, BloomFilter

CONSTANTS
  Settings,     \* the pairs of parameters nmax and fpmax a querier may send
  MaxElements,  \* bound on the number of elements of an owner's file
  SlotCounts,   \* the numbers of slots of a ciphertext that are tried
  Algorithms    \* the algorithm types a compute request may name

(* The number of hashes fits its uint8_t, and no filter is without one.    *)
ASSUME PsicaAssumption ==
  /\ \A setting \in Settings : /\ setting \in (Nat \ {0}) \X Nat
                               /\ createParams(setting[1], setting[2]).num_hashes \in 1 .. 255
  /\ MaxElements \in Nat
  /\ SlotCounts \subseteq Nat \ {0}
  /\ Algorithms \subseteq {"Basic", "QuerierFriendly"}

VARIABLES
  nslots, algorithm,
  params,      \* of the Bloom filters
  setA, setB,  \* the elements in the owners' files, in order
  phase,
  enbloomSum,  \* the merged filter of A
  done,        \* the indices of B whose inclusion check was made
  checks,      \* per index of B, what its check wrote
  results,     \* the result file: rows of ciphertexts
  sum          \* what the querier counts

psicaVars == <<nslots, algorithm, params, setA, setB, phase, enbloomSum, done, checks,
               results, sum>>

IndexB == DOMAIN setB

(* Files with different numbers of elements are rejected beforehand, so A  *)
(* is always the "larger" one.                                             *)
PsicaInit ==
  /\ nslots \in SlotCounts
  /\ algorithm \in Algorithms
  /\ params \in {createParams(setting[1], setting[2]) : setting \in Settings}
  /\ \E n \in 1 .. MaxElements : /\ setA \in [0 .. n - 1 -> Element]
                                 /\ setB \in [0 .. n - 1 -> Element]
  /\ phase = "merge"
  /\ enbloomSum = <<>> /\ checks = <<>> /\ results = <<>>
  /\ done = {}
  /\ sum = 0
-----------------------------------------------------------------------------
\* Defect: the pack of the remaining bits is forgotten.
calculateNPacksFloor(size) == IF size > nslots THEN size \div nslots ELSE 1

calculateNPacks(size) ==
  IF size > nslots
    THEN IF size % nslots = 0 THEN size \div nslots ELSE size \div nslots + 1
    ELSE 1

npacks == calculateNPacks(params.filter_size)
Pack   == 0 .. npacks - 1

\* Defect: off by one in the padding.
EnBloomFilterShifted(bf) ==
  [n \in Pack |->
     LET bits == {j \in 0 .. nslots - 1 : n * nslots + j < params.filter_size}
         pad  == nslots - Cardinality(bits) + 1
     IN  {pad + j : j \in {j \in bits : n * nslots + j \in bf}}]

(* EnBloomFilter splits a filter into packs; convertToVector puts the bits *)
(* of a pack into the last slots of the ciphertext.                        *)
EnBloomFilter(bf) ==
  [n \in Pack |->
     LET bits == {j \in 0 .. nslots - 1 : n * nslots + j < params.filter_size}
         pad  == nslots - Cardinality(bits)
     IN  {pad + j : j \in {j \in bits : n * nslots + j \in bf}}]

EnBFs(set) == LET bfs == createBFs(params, set)
              IN  [i \in DOMAIN bfs |-> EnBloomFilter(bfs[i])]

mergeEncryptedBFs(enBFs) ==
  [n \in Pack |-> Tournament("OR", [i \in DOMAIN enBFs |-> enBFs[i][n]])]

\* 1 in a slot where bloom is included in the merged filter.
SlotIncluded(n, bloom) ==
  myNOT(myXOR(myAND(enbloomSum[n], bloom[n]), bloom[n]), getZZXOne(nslots))

BasicCheck(bloom) == [n \in Pack |-> SlotIncluded(n, bloom)]

QuerierFavoriteCheck(bloom) ==
  [n \in Pack |-> myANDConstant(totalProduct(SlotIncluded(n, bloom), nslots),
                                getZZXOOne(nslots))]

\* Defect: the answer is left in the last slot.
CheckUnrotated(i) ==
  LET bloom == EnBFs(setB)[i]
  IN  IF algorithm = "Basic" THEN BasicCheck(bloom)
      ELSE tournamentProductArray(QuerierFavoriteCheck(bloom))

(* What the check of index i writes: all packs, or their product, rotated  *)
(* to a slot of its own.                                                   *)
Check(i) ==
  LET bloom == EnBFs(setB)[i]
  IN  IF algorithm = "Basic" THEN BasicCheck(bloom)
      ELSE rotate(tournamentProductArray(QuerierFavoriteCheck(bloom)),
                  -(i % nslots), nslots)
-----------------------------------------------------------------------------
Merge ==
  /\ phase = "merge"
  /\ enbloomSum' = mergeEncryptedBFs(EnBFs(setA))
  /\ checks' = [i \in IndexB |-> {}]
  /\ phase' = "check"
  /\ UNCHANGED <<nslots, algorithm, params, setA, setB, done, results, sum>>

InclusionCheck(i) ==
  /\ phase = "check"
  /\ i \in IndexB \ done
  /\ checks' = [checks EXCEPT ![i] = Check(i)]
  /\ done' = done \cup {i}
  /\ UNCHANGED <<nslots, algorithm, params, setA, setB, phase, enbloomSum, results, sum>>

\* Defect: only full packs of answers are aggregated.
re_npacksFloor == Cardinality(IndexB) \div nslots

(* The element (pack, slot) of tournamentORs is the check of its index; an *)
(* element beyond the last index is an empty ciphertext.                   *)
re_npacks == LET n == Cardinality(IndexB)
             IN  n \div nslots + (IF n % nslots # 0 THEN 1 ELSE 0)

tournamentORs(pack) ==
  [slot \in 0 .. nslots - 1 |->
     LET i == pack * nslots + slot IN IF i \in IndexB THEN checks[i] ELSE {}]

Aggregate ==
  /\ phase = "check"
  /\ done = IndexB
  /\ results' = IF algorithm = "Basic" THEN checks
                ELSE [row \in {0} |->
                       [n \in 0 .. re_npacks - 1 |-> tournamentORope(tournamentORs(n))]]
  /\ phase' = "decrypt"
  /\ UNCHANGED <<nslots, algorithm, params, setA, setB, enbloomSum, done, checks, sum>>

\* get_result: rows that are all one, or slots that are one.
GetResult ==
  /\ phase = "decrypt"
  /\ sum' = IF algorithm = "Basic"
              THEN Cardinality({row \in DOMAIN results :
                     \A n \in Pack : results[row][n] = getZZXOne(nslots)})
              ELSE Cardinality(UNION {{n} \X results[0][n] : n \in DOMAIN results[0]})
  /\ phase' = "counted"
  /\ UNCHANGED <<nslots, algorithm, params, setA, setB, enbloomSum, done, checks, results>>

PsicaNext == Merge \/ (\E i \in IndexB : InclusionCheck(i)) \/ Aggregate \/ GetResult

PsicaSpec == PsicaInit /\ [][PsicaNext]_psicaVars
-----------------------------------------------------------------------------
PsicaTypeOK ==
  /\ nslots \in SlotCounts
  /\ algorithm \in Algorithms
  /\ phase \in {"merge", "check", "decrypt", "counted"}
  /\ phase # "merge" => enbloomSum \in [Pack -> Ctxt(nslots)]
  /\ done \subseteq IndexB
  /\ \A i \in done : checks[i] \in IF algorithm = "Basic" THEN [Pack -> Ctxt(nslots)]
                                                          ELSE Ctxt(nslots)
  /\ sum \in 0 .. Cardinality(IndexB)

(* The elements of B that a Bloom filter with all elements of A contains, *)
(* false positives included: what BloomFilter answers without encryption.  *)
FilterOf(set) == UNION {add(params, {}, set[i]) : i \in DOMAIN set}
Included == {i \in IndexB : constains(params, FilterOf(setA), setB[i])}

(* The elements of B that A has. *)
Common == {i \in IndexB : \E j \in DOMAIN setA : setA[j] = setB[i]}

(* The querier counts exactly the elements of B whose filter is included   *)
(* in that of A: the AND over all slots of all packs is 1 only if every    *)
(* slot is ("1......1 -> 1......1, 0..1...0 -> 0......0", protocol.cpp).   *)
CountsIncluded == phase = "counted" => sum = Cardinality(Included)

(* Packing, padding, rotation and aggregation lose no element that the two *)
(* sets share: the count is never below the size of the intersection.      *)
NeverUndercounts == phase = "counted" => sum >= Cardinality(Common)

(* No two checks whose ciphertexts are ORed leave their answer in the same *)
(* slot, whatever the order in which the threads make them                 *)
(* (protocol.cpp:173-174).                                                 *)
SlotOfItsOwn ==
  algorithm = "QuerierFriendly" =>
    \A i, j \in done : i # j /\ i \div nslots = j \div nslots
      => checks[i] \cap checks[j] = {}
=============================================================================

---------------------------- MODULE BloomFilter -----------------------------
(***************************************************************************)
(* The owners' Bloom filters (BloomParams and BloomFilter), as the sets of *)
(* their bits that are 1.  The hash function, vendored MurmurHash3, is a   *)
(* constant, and so is the logarithm of the probability.                   *)
(***************************************************************************)
EXTENDS Naturals, FiniteSets

CONSTANTS
  Element,    \* what the owners' files may list
  Murmur,     \* per element, its two hash values
  UINT64      \* number of values of uint64_t (2^64 in the code)

ASSUME BloomAssumption ==
  /\ UINT64 \in Nat \ {0}
  /\ Murmur \in [Element -> (0 .. UINT64 - 1) \X (0 .. UINT64 - 1)]

(* The size and the number of hashes from the greatest number of elements  *)
(* and the probability of a false positive, of which negLog is the natural *)
(* logarithm, negated and times 10^4; ln 2 is 0.6931, its square 0.4805.   *)
createParams(num_elements, negLog) ==
  LET size == (num_elements * negLog) \div 4805
  IN  [filter_size |-> size, num_hashes |-> (size * 6931) \div (10000 * num_elements)]

nthHash(params, n, hashes) ==
  ((hashes[1] + n * hashes[2]) % UINT64) % params.filter_size

BitsOf(params, e) == {nthHash(params, i, Murmur[e]) : i \in 0 .. params.num_hashes - 1}

add(params, bloomfilter, e)       == bloomfilter \cup BitsOf(params, e)
constains(params, bloomfilter, e) == \A i \in 0 .. params.num_hashes - 1 :
                                       nthHash(params, i, Murmur[e]) \in bloomfilter

\* One filter per element of a file.
createBFs(params, set) == [i \in DOMAIN set |-> add(params, {}, set[i])]
=============================================================================

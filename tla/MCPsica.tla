------------------------------- MODULE MCPsica -------------------------------
(* For one element and a probability of 0.1, filters of 4 bits and 2 hashes; *)
(* for 0.05, 6 bits and 4 hashes; for two elements and 0.1, 9 bits and 3     *)
(* hashes: one or more packs, padded or not.  And 11 bits with one hash, for *)
(* seven elements and 0.45.                                                  *)
EXTENDS Psica

MCSettings == {<<1, 23026>>, <<1, 29957>>, <<2, 23026>>}
MCMurmur   == [e \in Element |-> IF e = 1 THEN <<0, 3>> ELSE IF e = 2 THEN <<13, 4>> ELSE <<3, 8>>]

MCSetting  == {<<7, 7985>>}
MCOneBit   == [e \in Element |-> <<e, 0>>]
MCBits     == 0 .. 10
=============================================================================

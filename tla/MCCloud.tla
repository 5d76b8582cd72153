------------------------------ MODULE MCCloud -------------------------------
(* The cloud alone, under every sequence of requests at its three ports.   *)
EXTENDS Cloud, TLC

MCBasename == [o \in Owner |-> o]

Symmetry == Permutations(ObjId)
=============================================================================

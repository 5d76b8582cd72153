------------------------------ MODULE MCOpsica ------------------------------
(* Instances of the whole system for TLC: one key per session, as with the *)
(* querier's option -g, and two files per owner.                           *)
EXTENDS Opsica, TLC

MCKeyOf    == [s \in Session |-> s]
MCTwoFiles == [o \in Owner |-> 2]
MCOneFile  == [o \in Owner |-> 1]

MCNoRestart  == [o \in Owner |-> 0]
MCRestartA   == [o \in Owner |-> IF o = "A" THEN 1 ELSE 0]

MCBasename  == [o \in Owner |-> o]
MCEqualName == [o \in Owner |-> "set"]

Symmetry == Permutations(ObjId)
=============================================================================

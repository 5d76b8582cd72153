---------------------------- MODULE MCDataowner -----------------------------
(* The owners alone, under every sequence of requests of queriers.         *)
EXTENDS Dataowner

MCMaxRestart == [o \in Owner |-> 1]
MCNumFiles == [o \in Owner |-> IF o = "A" THEN 2 ELSE 1]
=============================================================================

----------------------------- MODULE MCKeyFiles -----------------------------
(* Three queriers one after the other, each with or without -g: the first  *)
(* leaves a pair, the second spoils it or not, the third uses it.          *)
EXTENDS KeyFiles
=============================================================================

---------------------------- MODULE MCAsyncEval -----------------------------
(* Every size up to twice the number of threads, and every number of       *)
(* threads up to the four of psica.cpp.                                    *)
EXTENDS AsyncEval

MCSizes        == 0 .. 9
MCThreadCounts == 1 .. 4
=============================================================================

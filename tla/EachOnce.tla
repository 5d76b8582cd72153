------------------------------ MODULE EachOnce ------------------------------
(***************************************************************************)
(* What OPSICA_ASYNC_EVAL promises its caller: the function is evaluated   *)
(* exactly once at each index, in any order.                               *)
(***************************************************************************)
EXTENDS Naturals

VARIABLES
  size,     \* the number of indices
  times     \* per index, how often the function was evaluated there

Index == 0 .. size - 1

OnceInit == size \in Nat /\ times = [i \in Index |-> 0]

OnceNext == /\ \E i \in Index : times[i] = 0 /\ times' = [times EXCEPT ![i] = 1]
            /\ UNCHANGED size

OnceSpec == OnceInit /\ [][OnceNext]_<<size, times>>
=============================================================================

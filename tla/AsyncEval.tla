----------------------------- MODULE AsyncEval ------------------------------
(***************************************************************************)
(* The macro OPSICA_ASYNC_EVAL(func, size, nThreads): the calling thread   *)
(* starts one asynchronous task per block of indices, evaluates the rest   *)
(* itself and then joins the tasks.  Every task writes the element of the  *)
(* result at each of its indices, without a lock.                          *)
(***************************************************************************)
EXTENDS Integers

CONSTANTS
  Sizes,         \* the sizes the macro is called with
  ThreadCounts   \* the numbers of threads it is called with (4 in psica.cpp)

ASSUME AsyncEvalAssumption == Sizes \subseteq Nat /\ ThreadCounts \subseteq Nat \ {0}

VARIABLES
  size,       \* the number of indices
  nTh,        \* the number of tasks
  block_size,
  launched,   \* the number of tasks started so far
  begin, end, \* the block of the next task
  next, last, \* per task, the index it evaluates next and the end of its block
  times,      \* per index, how often func was evaluated there
  joined      \* has the macro returned?

asyncVars == <<size, nTh, block_size, launched, begin, end, next, last, times, joined>>

Index == 0 .. size - 1

(* The tasks, by number; the last one is the calling thread's own share. *)
Task    == 0 .. nTh
Running == {w \in Task : w < launched}

AsyncInit ==
  /\ size \in Sizes
  /\ \E nThreads \in ThreadCounts :
       /\ nTh = IF size < nThreads THEN size ELSE nThreads
       /\ block_size = IF size < nThreads THEN 1 ELSE size \div nThreads
  /\ launched = 0
  /\ begin = 0
  /\ end = block_size
  /\ next = [w \in Task |-> 0]
  /\ last = [w \in Task |-> 0]
  /\ times = [i \in Index |-> 0]
  /\ joined = FALSE

\* Defect: every task is given the blocks of those before it, too.
LaunchFromZero ==
  /\ launched < nTh
  /\ next' = [next EXCEPT ![launched] = 0]
  /\ last' = [last EXCEPT ![launched] = end]
  /\ begin' = end
  /\ end' = end + block_size
  /\ launched' = launched + 1
  /\ UNCHANGED <<size, nTh, block_size, times, joined>>

\* std::async starts func(begin, end).
Launch ==
  /\ launched < nTh
  /\ next' = [next EXCEPT ![launched] = begin]
  /\ last' = [last EXCEPT ![launched] = end]
  /\ begin' = end
  /\ end' = end + block_size
  /\ launched' = launched + 1
  /\ UNCHANGED <<size, nTh, block_size, times, joined>>

\* Defect: the calling thread evaluates nothing itself.
CallNothing ==
  /\ launched = nTh
  /\ next' = [next EXCEPT ![nTh] = begin]
  /\ last' = [last EXCEPT ![nTh] = begin]
  /\ launched' = launched + 1
  /\ UNCHANGED <<size, nTh, block_size, begin, end, times, joined>>

\* Defect: the calling thread enters its share more than once.
CallRestAgain ==
  /\ launched >= nTh
  /\ next' = [next EXCEPT ![nTh] = begin]
  /\ last' = [last EXCEPT ![nTh] = size]
  /\ launched' = launched + 1
  /\ UNCHANGED <<size, nTh, block_size, begin, end, times, joined>>

\* The calling thread enters func(begin, size).
CallRest ==
  /\ launched = nTh
  /\ next' = [next EXCEPT ![nTh] = begin]
  /\ last' = [last EXCEPT ![nTh] = size]
  /\ launched' = launched + 1
  /\ UNCHANGED <<size, nTh, block_size, begin, end, times, joined>>

\* Defect: the end of a block is taken to be inside it.
EvaluateInclusive(w) ==
  /\ w \in Running
  /\ next[w] <= last[w]
  /\ times' = [times EXCEPT ![next[w]] = @ + 1]
  /\ next' = [next EXCEPT ![w] = @ + 1]
  /\ UNCHANGED <<size, nTh, block_size, launched, begin, end, last, joined>>

\* Defect: a task never gets to the end of its block.
EvaluateShort(w) ==
  /\ w \in Running
  /\ next[w] < last[w] - 1
  /\ times' = [times EXCEPT ![next[w]] = @ + 1]
  /\ next' = [next EXCEPT ![w] = @ + 1]
  /\ UNCHANGED <<size, nTh, block_size, launched, begin, end, last, joined>>

Evaluate(w) ==
  /\ w \in Running
  /\ next[w] < last[w]
  /\ times' = [times EXCEPT ![next[w]] = @ + 1]
  /\ next' = [next EXCEPT ![w] = @ + 1]
  /\ UNCHANGED <<size, nTh, block_size, launched, begin, end, last, joined>>

\* The calling thread has done its share and get() returned for every future.
Join ==
  /\ ~ joined
  /\ launched = nTh + 1
  /\ \A w \in Task : next[w] >= last[w]
  /\ joined' = TRUE
  /\ UNCHANGED <<size, nTh, block_size, launched, begin, end, next, last, times>>

AsyncNext == Launch \/ CallRest \/ (\E w \in Task : Evaluate(w)) \/ Join

AsyncSpec == AsyncInit /\ [][AsyncNext]_asyncVars

(* The calling thread and every task keep running. *)
AsyncFairSpec == AsyncSpec /\ WF_asyncVars(AsyncNext)
-----------------------------------------------------------------------------
AsyncTypeOK ==
  /\ size \in Nat /\ nTh \in Nat /\ block_size \in Nat
  /\ launched \in 0 .. nTh + 1
  /\ begin \in Nat /\ end \in Nat
  /\ next \in [Task -> Nat]
  /\ last \in [Task -> Nat]
  /\ times \in [Index -> Nat]
  /\ joined \in BOOLEAN

(* The indices a task has still to evaluate. *)
Pending(w) == next[w] .. last[w] - 1

(* No task ever writes outside the result (results is sized to small_size, *)
(* protocol.cpp:55), and no two tasks are left with a common element to    *)
(* write: the unlocked writes do not race (async.hpp:38-45).               *)
NoRace == /\ \A w \in Running : last[w] <= size
          /\ \A v, w \in Running : v # w => Pending(v) \cap Pending(w) = {}

(* When the macro returns, every element of the result has been computed,  *)
(* whatever remainder the division into blocks leaves.                     *)
AllEvaluated == joined => \A i \in Index : times[i] = 1

(* The macro evaluates func once per index, in some order. *)
Once         == INSTANCE EachOnce
EachIsOnce   == Once!OnceSpec

(* The macro returns. *)
Returns == <>joined
=============================================================================

-------------------------- MODULE AsyncEvalProofs ---------------------------
(***************************************************************************)
(* OPSICA_ASYNC_EVAL evaluates its function exactly once at each index,    *)
(* for every size and every number of threads.                             *)
(***************************************************************************)
EXTENDS AsyncEval, TLAPS

(* The blocks handed out, and those still to come, fit in the size.        *)
BlocksFit ==
  launched <= nTh => /\ begin + (nTh - launched) * block_size <= size
                     /\ end = begin + block_size

(* The indices below Covered were handed to some task. *)
Covered == IF launched <= nTh THEN begin ELSE size

TasksWithin == \A w \in Running : next[w] <= last[w] /\ last[w] <= Covered

TasksApart ==
  \A v, w \in Running : v # w => last[v] <= next[w] \/ last[w] <= next[v]

(* An index is 0 while it awaits its evaluation, by a task or by none yet. *)
Awaits(i) == \/ i >= Covered
             \/ \E w \in Running : next[w] <= i /\ i < last[w]

TimesRight ==
  \A i \in Index : times[i] = IF Awaits(i) THEN 0 ELSE 1

JoinedAll ==
  joined => launched = nTh + 1 /\ \A w \in Task : next[w] >= last[w]

AsyncInv == /\ AsyncTypeOK
            /\ BlocksFit
            /\ TasksWithin
            /\ TasksApart
            /\ TimesRight
            /\ JoinedAll
-----------------------------------------------------------------------------
(* Blocks of the quotient fit, whatever the remainder. *)
LEMMA Quotient ==
  ASSUME NEW n \in Nat, NEW d \in Nat \ {0}
  PROVE  n \div d \in Nat /\ d * (n \div d) <= n
  BY SMT

LEMMA InitInv == AsyncInit => AsyncInv
  <1> SUFFICES ASSUME AsyncInit PROVE AsyncInv
      OBVIOUS
  <1> USE AsyncEvalAssumption
  <1>1. PICK nThreads \in ThreadCounts :
          /\ nTh = IF size < nThreads THEN size ELSE nThreads
          /\ block_size = IF size < nThreads THEN 1 ELSE size \div nThreads
      BY DEF AsyncInit
  <1>2. size \in Nat /\ nThreads \in Nat \ {0}
      BY DEF AsyncInit
  <1>3. size \div nThreads \in Nat /\ nThreads * (size \div nThreads) <= size
      BY <1>2, Quotient
  <1>4. nTh \in Nat /\ block_size \in Nat /\ nTh * block_size <= size
      <2>1. CASE size < nThreads
          BY <1>1, <1>2, <2>1
      <2>2. CASE ~ (size < nThreads)
          BY <1>1, <1>2, <1>3, <2>2
      <2> QED BY <2>1, <2>2
  <1>5. AsyncTypeOK
      <2>1. /\ launched = 0 /\ begin = 0 /\ end = block_size /\ joined = FALSE
            /\ next = [w \in Task |-> 0] /\ last = [w \in Task |-> 0]
            /\ times = [i \in Index |-> 0]
          BY DEF AsyncInit
      <2>2. /\ next \in [Task -> Nat] /\ last \in [Task -> Nat]
            /\ times \in [Index -> Nat]
          BY <2>1
      <2>3. launched \in 0 .. nTh + 1
          BY <1>4, <2>1
      <2>4. joined \in BOOLEAN
          BY <2>1
      <2>5. begin \in Nat /\ end \in Nat
          BY <1>4, <2>1
      <2> QED BY <1>2, <1>4, <2>2, <2>3, <2>4, <2>5 DEF AsyncTypeOK
  <1>6. Running = {}
      BY <1>4 DEF AsyncInit, Running, Task
  <1>7. BlocksFit
      <2>1. launched = 0 /\ begin = 0 /\ end = block_size
          BY DEF AsyncInit
      <2>2. (nTh - launched) * block_size = nTh * block_size
          BY <1>4, <2>1
      <2> QED BY <1>4, <2>1, <2>2 DEF BlocksFit
  <1>8. TasksWithin /\ TasksApart
      BY <1>6 DEF TasksWithin, TasksApart
  <1>9. TimesRight
      <2>1. Covered = 0
          BY <1>4 DEF AsyncInit, Covered
      <2>2. \A i \in Index : i >= 0 /\ times[i] = 0
          BY <1>2 DEF AsyncInit, Index
      <2> QED BY <2>1, <2>2 DEF TimesRight, Awaits
  <1>10. JoinedAll
      BY DEF AsyncInit, JoinedAll
  <1> QED BY <1>5, <1>7, <1>8, <1>9, <1>10 DEF AsyncInv
-----------------------------------------------------------------------------
(* A task is started: shared by Launch and CallRest.                       *)
LEMMA LaunchInv == AsyncInv /\ Launch => AsyncInv'
  <1> SUFFICES ASSUME AsyncInv, Launch PROVE AsyncInv'
      OBVIOUS
  <1> USE DEF AsyncInv
  <1>1. /\ launched \in Nat /\ nTh \in Nat /\ launched < nTh
        /\ launched' = launched + 1 /\ nTh' = nTh
        /\ size \in Nat /\ size' = size
        /\ block_size \in Nat /\ block_size' = block_size
        /\ begin \in Nat /\ end \in Nat
        /\ begin' = end /\ end' = end + block_size
        /\ times' = times /\ joined' = joined
        /\ next \in [Task -> Nat] /\ last \in [Task -> Nat]
      BY DEF Launch, AsyncTypeOK
  <1>2. Task' = Task /\ Index' = Index /\ launched \in Task
      BY <1>1 DEF Task, Index
  <1>3. Running' = Running \cup {launched} /\ launched \notin Running
      BY <1>1, <1>2 DEF Running, Task
  <1>4. /\ next' = [next EXCEPT ![launched] = begin]
        /\ last' = [last EXCEPT ![launched] = end]
      BY DEF Launch
  <1>5. \A w \in Running : next'[w] = next[w] /\ last'[w] = last[w]
      BY <1>1, <1>2, <1>3, <1>4 DEF Running
  <1>6. next'[launched] = begin /\ last'[launched] = end
      BY <1>1, <1>2, <1>4
  <1>7. end = begin + block_size /\ begin + (nTh - launched) * block_size <= size
      BY <1>1 DEF BlocksFit
  <1>8. Covered = begin /\ Covered' = end
      BY <1>1 DEF Covered
  <1>9. \A w \in Running : next[w] \in Nat /\ last[w] \in Nat
      BY <1>1 DEF Running
  <1>10. AsyncTypeOK'
      <2>1. next' \in [Task -> Nat] /\ last' \in [Task -> Nat]
          BY <1>1, <1>2, <1>4
      <2>2. times \in [Index -> Nat] /\ joined \in BOOLEAN
          BY DEF AsyncTypeOK
      <2> QED BY <1>1, <1>2, <2>1, <2>2 DEF AsyncTypeOK
  <1>11. BlocksFit'
      <2>1. end + (nTh - (launched + 1)) * block_size
              = begin + (nTh - launched) * block_size
          BY <1>1, <1>7
      <2> QED BY <1>1, <1>7, <2>1 DEF BlocksFit
  <1>12. TasksWithin'
      BY <1>1, <1>3, <1>5, <1>6, <1>7, <1>8, <1>9 DEF TasksWithin
  <1>13. TasksApart'
      BY <1>3, <1>5, <1>6, <1>8 DEF TasksWithin, TasksApart
  <1>14. TimesRight'
      <2>1. \A i \in Index : Awaits(i)' <=> Awaits(i)
          <3> TAKE i \in Index
          <3>1. i \in Int
              BY <1>1 DEF Index
          <3>2. Awaits(i) => Awaits(i)'
              BY <1>1, <1>3, <1>5, <1>6, <1>7, <1>8, <3>1 DEF Awaits
          <3>3. Awaits(i)' => Awaits(i)
              BY <1>1, <1>3, <1>5, <1>6, <1>7, <1>8, <3>1 DEF Awaits
          <3> QED BY <3>2, <3>3
      <2> QED BY <1>1, <1>2, <2>1 DEF TimesRight
  <1>15. JoinedAll'
      BY <1>1 DEF JoinedAll
  <1> QED BY <1>10, <1>11, <1>12, <1>13, <1>14, <1>15

LEMMA CallRestInv == AsyncInv /\ CallRest => AsyncInv'
  <1> SUFFICES ASSUME AsyncInv, CallRest PROVE AsyncInv'
      OBVIOUS
  <1> USE DEF AsyncInv
  <1>1. /\ nTh \in Nat /\ launched = nTh
        /\ launched' = nTh + 1 /\ nTh' = nTh
        /\ size \in Nat /\ size' = size
        /\ block_size \in Nat /\ block_size' = block_size
        /\ begin \in Nat /\ end \in Nat
        /\ begin' = begin /\ end' = end
        /\ times' = times /\ joined' = joined
        /\ next \in [Task -> Nat] /\ last \in [Task -> Nat]
      BY DEF CallRest, AsyncTypeOK
  <1>2. Task' = Task /\ Index' = Index /\ nTh \in Task
      BY <1>1 DEF Task, Index
  <1>3. Running' = Running \cup {nTh} /\ nTh \notin Running
      BY <1>1, <1>2 DEF Running, Task
  <1>4. /\ next' = [next EXCEPT ![nTh] = begin]
        /\ last' = [last EXCEPT ![nTh] = size]
      BY DEF CallRest
  <1>5. \A w \in Running : next'[w] = next[w] /\ last'[w] = last[w]
      BY <1>1, <1>2, <1>3, <1>4 DEF Running
  <1>6. next'[nTh] = begin /\ last'[nTh] = size
      BY <1>1, <1>2, <1>4
  <1>7. begin <= size
      <2>1. (nTh - launched) * block_size = 0
          BY <1>1
      <2> QED BY <1>1, <2>1 DEF BlocksFit
  <1>8. Covered = begin /\ Covered' = size
      BY <1>1 DEF Covered
  <1>9. \A w \in Running : next[w] \in Nat /\ last[w] \in Nat
      BY <1>1 DEF Running
  <1>10. AsyncTypeOK'
      <2>1. next' \in [Task -> Nat] /\ last' \in [Task -> Nat]
          BY <1>1, <1>2, <1>4
      <2>2. times \in [Index -> Nat] /\ joined \in BOOLEAN
          BY DEF AsyncTypeOK
      <2> QED BY <1>1, <1>2, <2>1, <2>2 DEF AsyncTypeOK
  <1>11. BlocksFit'
      BY <1>1 DEF BlocksFit
  <1>12. TasksWithin'
      BY <1>1, <1>3, <1>5, <1>6, <1>7, <1>8, <1>9 DEF TasksWithin
  <1>13. TasksApart'
      BY <1>3, <1>5, <1>6, <1>8 DEF TasksWithin, TasksApart
  <1>14. TimesRight'
      <2>1. \A i \in Index : Awaits(i)' <=> Awaits(i)
          <3> TAKE i \in Index
          <3>1. i \in Int /\ i < size
              BY <1>1 DEF Index
          <3>2. Awaits(i) => Awaits(i)'
              BY <1>1, <1>3, <1>5, <1>6, <1>7, <1>8, <3>1 DEF Awaits
          <3>3. Awaits(i)' => Awaits(i)
              BY <1>1, <1>3, <1>5, <1>6, <1>7, <1>8, <3>1 DEF Awaits
          <3> QED BY <3>2, <3>3
      <2> QED BY <1>1, <1>2, <2>1 DEF TimesRight
  <1>15. JoinedAll'
      BY <1>1 DEF JoinedAll
  <1> QED BY <1>10, <1>11, <1>12, <1>13, <1>14, <1>15
-----------------------------------------------------------------------------
(* What a task evaluates next lies in the result and was not evaluated.    *)
LEMMA EvaluatesFresh ==
  ASSUME AsyncInv, NEW w \in Task, Evaluate(w)
  PROVE  /\ next[w] \in Index
         /\ times[next[w]] = 0
         /\ times' = [times EXCEPT ![next[w]] = 1]
  <1> USE DEF AsyncInv
  <1>1. w \in Running /\ next[w] < last[w]
      BY DEF Evaluate
  <1>2. /\ next[w] \in Nat /\ last[w] \in Nat /\ size \in Nat
        /\ times \in [Index -> Nat]
      BY DEF AsyncTypeOK
  <1>3. last[w] <= Covered /\ Covered \in Nat /\ Covered <= size
      <2>1. last[w] <= Covered
          BY <1>1 DEF TasksWithin
      <2>2. launched \in Nat /\ nTh \in Nat /\ begin \in Nat /\ block_size \in Nat
          BY DEF AsyncTypeOK
      <2>3. CASE launched <= nTh
          <3>1. (nTh - launched) * block_size >= 0
              BY <2>2, <2>3
          <3>2. (nTh - launched) * block_size \in Int
              BY <2>2
          <3> QED BY <1>2, <2>1, <2>2, <2>3, <3>1, <3>2 DEF BlocksFit, Covered
      <2>4. CASE ~ (launched <= nTh)
          BY <1>2, <2>1, <2>4 DEF Covered
      <2> QED BY <2>3, <2>4
  <1>4. next[w] \in Index
      BY <1>1, <1>2, <1>3 DEF Index
  <1>5. Awaits(next[w])
      BY <1>1, <1>2 DEF Awaits
  <1>6. times[next[w]] = 0
      BY <1>4, <1>5 DEF TimesRight
  <1> QED BY <1>2, <1>4, <1>6 DEF Evaluate

LEMMA EvaluateInv ==
  ASSUME AsyncInv, NEW w \in Task, Evaluate(w)
  PROVE  AsyncInv'
  <1> USE DEF AsyncInv
  <1>1. /\ next[w] \in Index /\ times[next[w]] = 0
        /\ times' = [times EXCEPT ![next[w]] = 1]
      BY EvaluatesFresh
  <1>2. /\ w \in Running /\ next[w] < last[w]
        /\ next' = [next EXCEPT ![w] = @ + 1]
        /\ size' = size /\ nTh' = nTh /\ block_size' = block_size
        /\ launched' = launched /\ begin' = begin /\ end' = end
        /\ last' = last /\ joined' = joined
      BY DEF Evaluate
  <1>3. /\ size \in Nat /\ nTh \in Nat /\ launched \in Nat
        /\ next \in [Task -> Nat] /\ last \in [Task -> Nat]
        /\ times \in [Index -> Nat]
      BY DEF AsyncTypeOK
  <1>4. Task' = Task /\ Index' = Index /\ Running' = Running /\ Covered' = Covered
      BY <1>2 DEF Task, Index, Running, Covered
  <1>5. next'[w] = next[w] + 1 /\ \A v \in Running : v # w => next'[v] = next[v]
      BY <1>2, <1>3 DEF Running
  <1>6. \A v \in Running : next[v] \in Nat /\ last[v] \in Nat
      BY <1>3 DEF Running
  <1>7. AsyncTypeOK'
      <2>1. next' \in [Task -> Nat]
          BY <1>2, <1>3
      <2>2. times' \in [Index -> Nat]
          BY <1>1, <1>3
      <2> QED BY <1>2, <1>4, <2>1, <2>2 DEF AsyncTypeOK
  <1>8. BlocksFit'
      BY <1>2 DEF BlocksFit
  <1>9. TasksWithin'
      BY <1>2, <1>4, <1>5, <1>6 DEF TasksWithin
  <1>10. TasksApart'
      BY <1>2, <1>4, <1>5, <1>6 DEF TasksApart
  <1>11. TimesRight'
      <2> SUFFICES ASSUME NEW i \in Index
                   PROVE  times'[i] = IF Awaits(i)' THEN 0 ELSE 1
          BY <1>4 DEF TimesRight
      <2>1. i \in Int /\ i < size
          BY <1>3 DEF Index
      <2>2. CASE i = next[w]
          <3>1. ~ (i >= Covered)
              <4>1. last[w] <= Covered
                  BY <1>2 DEF TasksWithin
              <4>2. Covered \in Nat
                  BY <1>3 DEF Covered, AsyncTypeOK
              <4> QED BY <1>2, <1>6, <2>1, <2>2, <4>1, <4>2
          <3>2. \A v \in Running : ~ (next'[v] <= i /\ i < last[v])
              BY <1>2, <1>5, <1>6, <2>1, <2>2 DEF TasksApart
          <3>3. ~ Awaits(i)'
              BY <1>2, <1>4, <3>1, <3>2 DEF Awaits
          <3> QED BY <1>1, <1>3, <2>2, <3>3
      <2>3. CASE i # next[w]
          <3>1. Awaits(i)' <=> Awaits(i)
              BY <1>2, <1>4, <1>5, <1>6, <2>1, <2>3 DEF Awaits
          <3>2. times'[i] = times[i]
              BY <1>1, <1>3, <2>3
          <3> QED BY <3>1, <3>2 DEF TimesRight
      <2> QED BY <2>2, <2>3
  <1>12. JoinedAll'
      BY <1>2, <1>3, <1>4 DEF JoinedAll
  <1> QED BY <1>7, <1>8, <1>9, <1>10, <1>11, <1>12

LEMMA JoinInv == AsyncInv /\ Join => AsyncInv'
  <1> SUFFICES ASSUME AsyncInv, Join PROVE AsyncInv'
      OBVIOUS
  <1>1. /\ size' = size /\ nTh' = nTh /\ block_size' = block_size
        /\ launched' = launched /\ begin' = begin /\ end' = end
        /\ next' = next /\ last' = last /\ times' = times /\ joined' = TRUE
        /\ launched = nTh + 1 /\ \A w \in Task : next[w] >= last[w]
      BY DEF Join
  <1>2. Task' = Task /\ Index' = Index /\ Running' = Running /\ Covered' = Covered
      BY <1>1 DEF Task, Index, Running, Covered
  <1>3. \A i \in Index : Awaits(i)' <=> Awaits(i)
      BY <1>1, <1>2 DEF Awaits
  <1>4. AsyncTypeOK'
      BY <1>1, <1>2 DEF AsyncInv, AsyncTypeOK
  <1>5. BlocksFit'
      BY <1>1 DEF AsyncInv, BlocksFit
  <1>6. TasksWithin' /\ TasksApart'
      BY <1>1, <1>2 DEF AsyncInv, TasksWithin, TasksApart
  <1>7. TimesRight'
      BY <1>1, <1>2, <1>3 DEF AsyncInv, TimesRight
  <1>8. JoinedAll'
      BY <1>1, <1>2 DEF JoinedAll
  <1> QED BY <1>4, <1>5, <1>6, <1>7, <1>8 DEF AsyncInv

LEMMA StutterInv == AsyncInv /\ UNCHANGED asyncVars => AsyncInv'
  <1> SUFFICES ASSUME AsyncInv, UNCHANGED asyncVars PROVE AsyncInv'
      OBVIOUS
  <1> QED BY DEF asyncVars, AsyncInv, AsyncTypeOK, BlocksFit, TasksWithin,
                 TasksApart, TimesRight, JoinedAll, Awaits, Covered, Running,
                 Task, Index

LEMMA NextInv == AsyncInv /\ [AsyncNext]_asyncVars => AsyncInv'
  <1> SUFFICES ASSUME AsyncInv, [AsyncNext]_asyncVars PROVE AsyncInv'
      OBVIOUS
  <1>1. CASE Launch
      BY <1>1, LaunchInv
  <1>2. CASE CallRest
      BY <1>2, CallRestInv
  <1>3. ASSUME NEW w \in Task, Evaluate(w) PROVE AsyncInv'
      BY <1>3, EvaluateInv
  <1>4. CASE Join
      BY <1>4, JoinInv
  <1>5. CASE UNCHANGED asyncVars
      BY <1>5, StutterInv
  <1> QED BY <1>1, <1>2, <1>3, <1>4, <1>5 DEF AsyncNext

(* The blocks fit, the tasks stay apart, and an index is evaluated once it *)
(* is no longer awaited, in every reachable state.                         *)
THEOREM AsyncInvariant == AsyncSpec => []AsyncInv
  BY InitInv, NextInv, PTL DEF AsyncSpec

(* The locals of the macro and of its tasks keep their types, and no index *)
(* or block passes the end of what is evaluated.                           *)
THEOREM AsyncTypeCorrect == AsyncSpec => []AsyncTypeOK
  <1>1. AsyncInv => AsyncTypeOK
      BY DEF AsyncInv
  <1> QED BY <1>1, AsyncInvariant, PTL

(* The unlocked writes of the tasks never race (async.hpp:38-45).          *)
THEOREM TasksNeverRace == AsyncSpec => []NoRace
  <1>1. AsyncInv => NoRace
      <2> SUFFICES ASSUME AsyncInv PROVE NoRace
          OBVIOUS
      <2>1. /\ size \in Nat /\ nTh \in Nat /\ launched \in Nat /\ begin \in Nat
            /\ block_size \in Nat
            /\ next \in [Task -> Nat] /\ last \in [Task -> Nat]
          BY DEF AsyncInv, AsyncTypeOK
      <2>2. Covered <= size
          <3>1. CASE launched <= nTh
              <4>1. (nTh - launched) * block_size >= 0
                  BY <2>1, <3>1
              <4>2. (nTh - launched) * block_size \in Int
                  BY <2>1
              <4> QED BY <2>1, <3>1, <4>1, <4>2 DEF AsyncInv, BlocksFit, Covered
          <3>2. CASE ~ (launched <= nTh)
              BY <2>1, <3>2 DEF Covered
          <3> QED BY <3>1, <3>2
      <2>3. \A w \in Running : next[w] \in Nat /\ last[w] \in Nat
          BY <2>1 DEF Running
      <2>4. \A w \in Running : last[w] <= size
          BY <2>1, <2>2, <2>3 DEF AsyncInv, TasksWithin, Covered
      <2>5. ASSUME NEW v \in Running, NEW w \in Running, v # w
            PROVE  Pending(v) \cap Pending(w) = {}
          BY <2>3, <2>5 DEF AsyncInv, TasksApart, Pending
      <2> QED BY <2>4, <2>5 DEF NoRace
  <1> QED BY <1>1, AsyncInvariant, PTL

(* Nothing is left out when the macro returns.                             *)
THEOREM AllAreEvaluated == AsyncSpec => []AllEvaluated
  <1>1. AsyncInv => AllEvaluated
      <2> SUFFICES ASSUME AsyncInv, joined, NEW i \in Index PROVE times[i] = 1
          BY DEF AllEvaluated
      <2>1. /\ size \in Nat /\ nTh \in Nat /\ launched = nTh + 1
            /\ \A w \in Task : next[w] >= last[w]
            /\ next \in [Task -> Nat] /\ last \in [Task -> Nat]
          BY DEF AsyncInv, AsyncTypeOK, JoinedAll
      <2>2. i \in Int /\ i < size /\ Covered = size
          BY <2>1 DEF Index, Covered
      <2>3. ~ Awaits(i)
          BY <2>1, <2>2 DEF Awaits, Running
      <2> QED BY <2>3 DEF AsyncInv, TimesRight
  <1> QED BY <1>1, AsyncInvariant, PTL

(* The macro implements its promise: once per index, in some order.        *)
THEOREM AsyncIsOnce == AsyncSpec => EachIsOnce
  <1>1. AsyncInit => Once!OnceInit
      BY AsyncEvalAssumption DEF AsyncInit, Once!OnceInit, Once!Index, Index
  <1>2. AsyncInv /\ [AsyncNext]_asyncVars => [Once!OnceNext]_<<size, times>>
      <2> SUFFICES ASSUME AsyncInv, [AsyncNext]_asyncVars
                   PROVE  [Once!OnceNext]_<<size, times>>
          OBVIOUS
      <2>1. ASSUME NEW w \in Task, Evaluate(w) PROVE Once!OnceNext
          <3>1. /\ next[w] \in Index /\ times[next[w]] = 0
                /\ times' = [times EXCEPT ![next[w]] = 1]
              BY <2>1, EvaluatesFresh
          <3>2. size' = size
              BY <2>1 DEF Evaluate
          <3> QED BY <3>1, <3>2 DEF Once!OnceNext, Once!Index, Index
      <2>2. CASE Launch \/ CallRest \/ Join \/ UNCHANGED asyncVars
          BY <2>2 DEF Launch, CallRest, Join, asyncVars
      <2> QED BY <2>1, <2>2 DEF AsyncNext
  <1> QED BY <1>1, <1>2, AsyncInvariant, PTL DEF AsyncSpec, EachIsOnce, Once!OnceSpec
=============================================================================

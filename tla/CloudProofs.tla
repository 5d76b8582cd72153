---------------------------- MODULE CloudProofs -----------------------------
(***************************************************************************)
(* Proofs about the cloud, for any keys, any number of files and of state  *)
(* objects, and any interleaving of its three threads.                     *)
(***************************************************************************)
EXTENDS Cloud, TLAPS

(* What the events a Connected object remembers say of the files. *)
EventTrue(e) == /\ e = "PubKeyStore"   => HasKey
                /\ e = "StoreRequestA" => AllSaved("A")
                /\ e = "StoreRequestB" => AllSaved("B")
                /\ e = "JoinRequest"   => result # NoResult

(* Every state object, the current one or not, tells the truth. *)
ObjectsTrue ==
  \A i \in ObjId :
    /\ \A e \in heap[i].stored : EventTrue(e)
    /\ heap[i].id \in {"Ready", "Computed"} => HasKey /\ HasAllData
    /\ heap[i].id = "Computed" => result # NoResult

(* Where the thread of an owner is determines the request it serves, and   *)
(* an event is raised only when it is true.                                *)
OwnerThread(o) ==
  /\ pc[o] \in {"idle", "run", "write", "raise", "apply", "reply"}
  /\ pc[o] \in {"run", "write"} => req[o].op = "data"
  /\ pc[o] \in {"raise", "apply"} =>
       \/ req[o].op \in {"connect", "disconnect"}
       \/ req[o].op = "data" /\ AllSaved(o)
  /\ pc[o] = "write" => req[o].index < record[o].num

QuerierThread ==
  /\ pc["Q"] \in {"idle", "run", "read", "raise", "apply", "reply", "threw"}
  /\ pc["Q"] = "run" => req["Q"].op \in {"pubkey", "compute", "download"}
  /\ pc["Q"] = "run" /\ req["Q"].op = "compute" => HasKey /\ HasAllData
  /\ pc["Q"] = "read" => /\ req["Q"].op = "compute"
                         /\ calc.key # NoKey
                         /\ calc.num > 0
                         /\ calc.num = record["A"].num
                         /\ calc.num = record["B"].num
  /\ pc["Q"] \in {"raise", "apply"} =>
       \/ req["Q"].op \in {"connect", "disconnect"}
       \/ req["Q"].op = "pubkey" /\ HasKey
       \/ req["Q"].op = "compute" /\ result # NoResult

RecordsTrue == \A o \in Owner : /\ ~ record[o].init => record[o].num = 0
                                /\ record[o].saved \subseteq 0 .. record[o].num - 1

(* The objects that the context or a callback points to are not freed. *)
RefsTrue == /\ heap[cur] \in Object
            /\ \A t \in Thread : pc[t] = "apply" => /\ ref[t] \in ObjId
                                                    /\ heap[ref[t]] \in Object

CloudInv == /\ CloudTypeOK
            /\ ObjectsTrue
            /\ QuerierThread
            /\ \A o \in Owner : OwnerThread(o)
            /\ RecordsTrue
            /\ RefsTrue
-----------------------------------------------------------------------------
(* A call of set() keeps the id of the object and may add its own event to *)
(* the flags; what it installs is Ready only from a full Connected or from *)
(* Computed, and Computed only from Ready by a JoinRequest.                *)
LEMMA ChangedFacts ==
  ASSUME NEW obj \in Object, NEW e \in Event
  PROVE  /\ Changed(obj, e) \in Object
         /\ Changed(obj, e).id = obj.id
         /\ Changed(obj, e).stored \subseteq obj.stored \cup {e}
  BY SizeTAssumption DEF Changed, ChangedInit, ChangedConnected, Object, Event,
     Stored, StateId, MAX_CLIENT_NUM

LEMMA SuccessorFacts ==
  ASSUME NEW obj \in Object, NEW e \in Event
  PROVE  /\ Successor(obj, e) \in Object \cup {Nil}
         /\ Successor(obj, e).stored = {}
         /\ Successor(obj, e).id = "Ready" =>
              \/ Changed(obj, e).stored = Stored
              \/ obj.id = "Computed"
         /\ Successor(obj, e).id = "Computed" => obj.id = "Ready" /\ e = "JoinRequest"
  BY SizeTAssumption DEF Successor, AfterInit, AfterConnected, AfterReady,
     AfterComputed, OnDisconnect, Object, Event, Stored, StateId, Nil,
     StateInit, StateConnected, StateReady, StateComputed, MAX_CLIENT_NUM
-----------------------------------------------------------------------------
\* The types of names and data are opaque from here on.
LEMMA FileFacts ==
  /\ Torn \in Data /\ Absent \in Data
  /\ \A o \in Owner, i \in 0 .. MaxNum - 1 : NameOf(o, i) \in FileName
  /\ \A key \in Key, num \in 1 .. MaxNum, o \in Owner, i \in 0 .. MaxNum - 1 :
       Content(key, num, o, i) \in Data
BY DEF Data, Content, FileName

LEMMA InitInv == CloudInit => CloudInv
<1> SUFFICES ASSUME CloudInit PROVE CloudInv
  OBVIOUS
<1>1. StateInit(0) \in Object
  BY SizeTAssumption DEF StateInit, Object, StateId, MAX_CLIENT_NUM
<1>2. heap \in [ObjId -> Object \cup {Nil}] /\ heap[cur] = StateInit(0)
  BY <1>1 DEF CloudInit
<1>3. /\ record \in [Owner -> [init : BOOLEAN, num : 0 .. MaxNum,
                               saved : SUBSET (0 .. MaxNum - 1)]]
      /\ file \in [FileName -> Data]
      /\ calc \in [key : Key \cup {NoKey}, num : 0 .. MaxNum,
                   pos : 0 .. 2 * MaxNum, used : SUBSET Data]
  BY CloudAssumption, FileFacts DEF CloudInit, NoRecord, NoCalc
<1>4. CloudTypeOK
  BY <1>2, <1>3 DEF CloudInit, CloudTypeOK, NoResult, Result
<1>5. ObjectsTrue
  BY DEF CloudInit, ObjectsTrue, StateInit, Nil
<1>6. QuerierThread /\ (\A o \in Owner : OwnerThread(o)) /\ RecordsTrue
  BY DEF CloudInit, QuerierThread, OwnerThread, RecordsTrue, NoRecord, Thread, Owner
<1>7. RefsTrue
  BY <1>1, <1>2 DEF CloudInit, RefsTrue
<1> QED
  BY <1>4, <1>5, <1>6, <1>7 DEF CloudInv

(* What the requests of each port are. *)
LEMMA RequestFacts ==
  /\ \A r \in Request("Q") :
       /\ r.op \in {"connect", "disconnect", "pubkey", "compute", "download"}
       /\ r.op = "pubkey" => r.key \in Key
  /\ \A o \in Owner : \A r \in Request(o) :
       /\ r.op \in {"connect", "disconnect", "data"}
       /\ r.op = "data" => /\ r.key \in Key
                           /\ r.num \in 1 .. MaxNum
                           /\ r.index \in 0 .. MaxNum - 1
  BY CloudAssumption DEF Request, Owner

(* In Ready and Computed everything a computation needs is there. *)
LEMMA ReadyFacts ==
  ASSUME CloudInv, StateOf \in {"Ready", "Computed"}
  PROVE  HasKey /\ HasAllData
  BY DEF CloudInv, CloudTypeOK, ObjectsTrue, StateOf

-----------------------------------------------------------------------------
(* A step that loses nothing that was stored. *)
KeepsData(o) == /\ AllSaved(o) => AllSaved(o)'
                /\ record[o].num > 0 => record'[o].num = record[o].num

Grows == /\ HasKey => HasKey'
         /\ result # NoResult => result' # NoResult
         /\ KeepsData("A")
         /\ KeepsData("B")

(* Under such a step, objects that do not change still tell the truth, and *)
(* so do the threads that do not move.                                     *)
LEMMA DataFrame == Grows /\ HasAllData => HasAllData'
  BY DEF Grows, KeepsData, HasAllData, Owner

LEMMA EventFrame ==
  ASSUME Grows, NEW e, EventTrue(e)
  PROVE  EventTrue(e)'
  BY DEF Grows, KeepsData, EventTrue

LEMMA ObjectFrame ==
  ASSUME ObjectsTrue, Grows, heap' = heap
  PROVE  ObjectsTrue'
<1>1. ASSUME NEW i \in ObjId, NEW e \in heap'[i].stored
      PROVE  EventTrue(e)'
  BY <1>1, EventFrame DEF ObjectsTrue
<1> QED
  BY <1>1, DataFrame DEF ObjectsTrue, Grows

LEMMA QuerierFrame ==
  ASSUME CloudInv, Grows, pc'["Q"] = pc["Q"], req'["Q"] = req["Q"], calc' = calc
  PROVE  QuerierThread'
<1>1. pc["Q"] = "read" => /\ record'["A"].num = record["A"].num
                          /\ record'["B"].num = record["B"].num
  BY DEF CloudInv, QuerierThread, Grows, KeepsData
<1> QED
  BY <1>1, DataFrame DEF CloudInv, QuerierThread, Grows

LEMMA OwnerFrame ==
  ASSUME CloudInv, Grows, NEW o \in Owner, pc'[o] = pc[o], req'[o] = req[o],
         record'[o] = record[o]
  PROVE  OwnerThread(o)'
<1>1. AllSaved(o) => AllSaved(o)'
  BY DEF Grows, KeepsData, Owner
<1> QED
  BY <1>1 DEF CloudInv, OwnerThread

LEMMA RefsFrame ==
  ASSUME CloudInv, UNCHANGED <<heap, cur, ref>>,
         \A t \in Thread : pc'[t] = "apply" => pc[t] = "apply"
  PROVE  RefsTrue'
  BY DEF CloudInv, RefsTrue

(* A request is accepted by an idle thread; compute only from Ready on. *)
LEMMA ReceiveInv ==
  ASSUME CloudInv, NEW t \in Thread, NEW r \in Request(t), Receive(t, r)
  PROVE  CloudInv'
<1> USE DEF CloudInv
<1>1. CloudTypeOK'
  <2>1. Request(t) \subseteq Request("Q") \cup Request("A")
    BY DEF Thread, Owner, Request
  <2> QED
    BY <2>1 DEF Receive, Goto, CloudTypeOK
<1>2. ObjectsTrue'
  BY DEF Receive, ObjectsTrue, EventTrue, HasKey, HasAllData, AllSaved
<1>3. r.op = "compute" => HasKey /\ HasAllData
  <2> SUFFICES ASSUME r.op = "compute" PROVE StateOf \in {"Ready", "Computed"}
    BY ReadyFacts
  <2>1. 2 <= Rank[StateOf]
    BY DEF Receive, Accepts, Need, Rank
  <2>2. StateOf \in StateId
    BY DEF RefsTrue, StateOf, Object
  <2> QED
    BY <2>1, <2>2 DEF Rank, StateId
<1>4. pc' = [pc EXCEPT ![t] = pc'[t]] /\ req' = [req EXCEPT ![t] = r]
      /\ pc'[t] = IF r.op \in {"connect", "disconnect"} THEN "raise" ELSE "run"
  BY DEF Receive, Goto, CloudTypeOK
<1>5. Grows /\ UNCHANGED <<calc, record>>
  BY DEF Receive, Grows, KeepsData, HasKey, AllSaved
<1>6. QuerierThread'
  <2>1. CASE t = "Q"
    BY <2>1, <1>3, <1>4, RequestFacts
    DEF Receive, QuerierThread, CloudTypeOK, HasKey, HasAllData, AllSaved
  <2>2. CASE t # "Q"
    BY <2>2, <1>4, <1>5, QuerierFrame DEF CloudTypeOK, Thread
  <2> QED
    BY <2>1, <2>2
<1>7. ASSUME NEW o \in Owner PROVE OwnerThread(o)'
  <2>1. CASE t = o
    BY <2>1, <1>4, RequestFacts DEF Receive, OwnerThread, CloudTypeOK, AllSaved
  <2>2. CASE t # o
    BY <2>2, <1>4, <1>5, OwnerFrame DEF CloudTypeOK, Thread
  <2> QED
    BY <2>1, <2>2
<1>8. RecordsTrue' /\ RefsTrue'
  BY <1>4, RefsFrame DEF Receive, RecordsTrue, CloudTypeOK
<1> QED
  BY <1>1, <1>2, <1>6, <1>7, <1>8

(* The pubkey callback. *)
LEMMA StorePubkeyInv ==
  ASSUME CloudInv, StorePubkey
  PROVE  CloudInv'
<1>1. "Q" \in Thread
  BY DEF Thread
<1>2. req["Q"].key \in Key
  BY <1>1, RequestFacts DEF CloudInv, CloudTypeOK, StorePubkey, NoRequest
<1>3. CloudTypeOK'
  BY <1>1, <1>2 DEF CloudInv, StorePubkey, Goto, CloudTypeOK
<1>4. HasKey'
  BY <1>2, KeyAssumption DEF StorePubkey, HasKey
<1>5. Grows
  BY <1>4 DEF StorePubkey, Grows, KeepsData, AllSaved
<1>6. ObjectsTrue'
  BY <1>5, ObjectFrame DEF CloudInv, StorePubkey
<1>7. pc'["Q"] = "raise" /\ \A o \in Owner : pc'[o] = pc[o]
  BY <1>1 DEF CloudInv, CloudTypeOK, StorePubkey, Goto, Owner, Thread
<1>8. QuerierThread'
  BY <1>4, <1>7 DEF StorePubkey, QuerierThread
<1>9. \A o \in Owner : OwnerThread(o)'
  BY <1>5, <1>7, OwnerFrame DEF StorePubkey
<1>10. RecordsTrue' /\ RefsTrue'
  BY <1>7, RefsFrame DEF CloudInv, StorePubkey, RecordsTrue, Thread
<1> QED
  BY <1>3, <1>6, <1>8, <1>9, <1>10 DEF CloudInv

(* A manager is sized once, and then only if nothing was saved. *)
LEMMA ManagerFacts ==
  ASSUME CloudInv, NEW o \in Owner, NEW num \in 0 .. MaxNum
  PROVE  /\ Manager(o, num) \in [init : {TRUE}, num : 0 .. MaxNum,
                                saved : SUBSET (0 .. MaxNum - 1)]
         /\ Manager(o, num).saved \subseteq 0 .. Manager(o, num).num - 1
         /\ record[o].num > 0 => Manager(o, num) = record[o]
<1>1. record[o] \in [init : BOOLEAN, num : 0 .. MaxNum,
                     saved : SUBSET (0 .. MaxNum - 1)]
  BY DEF CloudInv, CloudTypeOK
<1>2. CASE record[o].init
  BY <1>1, <1>2 DEF CloudInv, RecordsTrue, Manager
<1>3. CASE ~ record[o].init
  <2>1. record[o].num = 0
    BY <1>3 DEF CloudInv, RecordsTrue
  <2> QED
    BY <1>3, <2>1 DEF Manager
<1> QED
  BY <1>2, <1>3

(* A step of owner o's thread that only opens or ignores a file. *)
LEMMA ManagerStep ==
  ASSUME CloudInv, NEW o \in Owner, pc[o] = "run", req[o].op = "data",
         record' = [record EXCEPT ![o] = Manager(o, req[o].num)]
  PROVE  /\ record' \in [Owner -> [init : BOOLEAN, num : 0 .. MaxNum,
                                   saved : SUBSET (0 .. MaxNum - 1)]]
         /\ RecordsTrue'
         /\ record[o].num > 0 => record'[o] = record[o]
         /\ \A p \in Owner \ {o} : record'[p] = record[p]
         /\ req[o].index \in 0 .. MaxNum - 1
         /\ req[o].key \in Key
         /\ req[o].num \in 1 .. MaxNum
<1>1. /\ req[o].index \in 0 .. MaxNum - 1
      /\ req[o].key \in Key
      /\ req[o].num \in 1 .. MaxNum
  BY RequestFacts DEF CloudInv, CloudTypeOK, NoRequest, Thread
<1>2. req[o].num \in 0 .. MaxNum
  BY <1>1, CloudAssumption
<1>3. /\ Manager(o, req[o].num) \in [init : {TRUE}, num : 0 .. MaxNum,
                                    saved : SUBSET (0 .. MaxNum - 1)]
      /\ Manager(o, req[o].num).saved \subseteq 0 .. Manager(o, req[o].num).num - 1
      /\ record[o].num > 0 => Manager(o, req[o].num) = record[o]
  BY <1>2, ManagerFacts
<1>4. record'[o] = Manager(o, req[o].num) /\ \A p \in Owner \ {o} : record'[p] = record[p]
  BY DEF CloudInv, CloudTypeOK
<1>5. record' \in [Owner -> [init : BOOLEAN, num : 0 .. MaxNum,
                            saved : SUBSET (0 .. MaxNum - 1)]]
  BY <1>3 DEF CloudInv, CloudTypeOK
<1>6. RecordsTrue'
  BY <1>3, <1>4 DEF CloudInv, RecordsTrue
<1> QED
  BY <1>1, <1>3, <1>4, <1>5, <1>6

LEMMA ManagerGrows ==
  ASSUME NEW o \in Owner, record[o].num > 0 => record'[o] = record[o],
         \A p \in Owner \ {o} : record'[p] = record[p], UNCHANGED <<pubkey, result>>
  PROVE  Grows
<1>1. \A p \in Owner : KeepsData(p)
  BY DEF KeepsData, AllSaved
<1> QED
  BY <1>1 DEF Grows, HasKey, Owner

LEMMA OpenDataInv ==
  ASSUME CloudInv, NEW o \in Owner, OpenData(o)
  PROVE  CloudInv'
<1>1. /\ o \in Thread /\ o # "Q"
      /\ pc' = [pc EXCEPT ![o] = "write"] /\ pc'[o] = "write"
  BY DEF CloudInv, CloudTypeOK, OpenData, Goto, Owner, Thread
<1>2. Grows
  BY ManagerStep, ManagerGrows DEF OpenData
<1>3. CloudTypeOK'
  BY <1>1, ManagerStep, FileFacts DEF CloudInv, OpenData, CloudTypeOK
<1>4. QuerierThread' /\ ObjectsTrue' /\ RefsTrue'
  BY <1>1, <1>2, QuerierFrame, ObjectFrame, RefsFrame
  DEF OpenData, CloudInv, CloudTypeOK, Thread
<1>5. ASSUME NEW p \in Owner PROVE OwnerThread(p)'
  <2>1. CASE p = o
    BY <2>1, <1>1 DEF OpenData, OwnerThread
  <2>2. CASE p # o
    BY <2>2, <1>1, <1>2, ManagerStep, OwnerFrame
    DEF OpenData, CloudInv, CloudTypeOK, Thread
  <2> QED
    BY <2>1, <2>2
<1> QED
  BY <1>3, <1>4, <1>5, ManagerStep DEF CloudInv, OpenData

LEMMA IgnoreDataInv ==
  ASSUME CloudInv, NEW o \in Owner, IgnoreData(o)
  PROVE  CloudInv'
<1>1. /\ o \in Thread /\ o # "Q"
      /\ pc' = [pc EXCEPT ![o] = pc'[o]]
      /\ pc'[o] \in {"raise", "reply"}
      /\ pc'[o] = "raise" => AllSaved(o)'
  BY DEF CloudInv, CloudTypeOK, IgnoreData, Goto, Owner, Thread
<1>2. Grows
  BY ManagerStep, ManagerGrows DEF IgnoreData
<1>3. CloudTypeOK'
  <2>1. record' \in [Owner -> [init : BOOLEAN, num : 0 .. MaxNum,
                              saved : SUBSET (0 .. MaxNum - 1)]]
    BY ManagerStep DEF IgnoreData
  <2>2. pc' \in [Thread -> {"idle", "run", "write", "read", "raise",
                           "apply", "reply", "threw", "undefined"}]
    BY <1>1 DEF CloudInv, CloudTypeOK
  <2> QED
    BY <2>1, <2>2 DEF CloudInv, IgnoreData, CloudTypeOK
<1>4. QuerierThread' /\ ObjectsTrue' /\ RefsTrue'
  BY <1>1, <1>2, QuerierFrame, ObjectFrame, RefsFrame
  DEF IgnoreData, CloudInv, CloudTypeOK, Thread
<1>5. ASSUME NEW p \in Owner PROVE OwnerThread(p)'
  <2>1. CASE p = o
    BY <2>1, <1>1 DEF IgnoreData, OwnerThread
  <2>2. CASE p # o
    BY <2>2, <1>1, <1>2, ManagerStep, OwnerFrame
    DEF IgnoreData, CloudInv, CloudTypeOK, Thread
  <2> QED
    BY <2>1, <2>2
<1> QED
  BY <1>3, <1>4, <1>5, ManagerStep DEF CloudInv, IgnoreData

LEMMA WriteDataInv ==
  ASSUME CloudInv, NEW o \in Owner, WriteData(o)
  PROVE  CloudInv'
<1> DEFINE i == req[o].index
<1>1. /\ o \in Thread /\ o # "Q"
      /\ pc' = [pc EXCEPT ![o] = pc'[o]]
      /\ pc'[o] \in {"raise", "reply"}
      /\ pc'[o] = "raise" => AllSaved(o)'
  BY DEF CloudInv, CloudTypeOK, WriteData, Goto, Owner, Thread
<1>2. req[o].op = "data" /\ i < record[o].num
  BY DEF CloudInv, OwnerThread, WriteData
<1>3. i \in 0 .. MaxNum - 1 /\ req[o].key \in Key /\ req[o].num \in 1 .. MaxNum
  BY <1>2, RequestFacts DEF CloudInv, CloudTypeOK, NoRequest, Thread
<1>4. record[o] \in [init : BOOLEAN, num : 0 .. MaxNum,
                     saved : SUBSET (0 .. MaxNum - 1)]
      /\ record[o].saved \subseteq 0 .. record[o].num - 1
  BY DEF CloudInv, CloudTypeOK, RecordsTrue
<1>5. /\ record'[o] = [record[o] EXCEPT !.saved = record[o].saved \cup {i}]
      /\ \A p \in Owner \ {o} : record'[p] = record[p]
  BY DEF CloudInv, CloudTypeOK, WriteData
<1>6. /\ record'[o].init = record[o].init
      /\ record'[o].num = record[o].num
      /\ record'[o].saved = record[o].saved \cup {i}
  BY <1>4, <1>5
<1>7. i \in 0 .. record[o].num - 1
  BY <1>2, <1>3, <1>4, CloudAssumption
<1>8. Grows
  <2>1. KeepsData(o)
    BY <1>6, <1>7 DEF KeepsData, AllSaved
  <2>2. ASSUME NEW p \in Owner \ {o} PROVE KeepsData(p)
    BY <1>5 DEF KeepsData, AllSaved
  <2>3. KeepsData("A") /\ KeepsData("B")
    BY <2>1, <2>2 DEF Owner
  <2> QED
    BY <2>3 DEF WriteData, Grows, HasKey
<1>9. CloudTypeOK'
  <2>1. record' \in [Owner -> [init : BOOLEAN, num : 0 .. MaxNum,
                              saved : SUBSET (0 .. MaxNum - 1)]]
    BY <1>3, <1>4 DEF CloudInv, CloudTypeOK, WriteData
  <2>2. file' \in [FileName -> Data]
    BY <1>3, FileFacts DEF CloudInv, CloudTypeOK, WriteData
  <2> QED
    BY <1>1, <2>1, <2>2 DEF CloudInv, CloudTypeOK, WriteData
<1>10. RecordsTrue'
  BY <1>4, <1>5, <1>6, <1>7 DEF CloudInv, RecordsTrue
<1>11. QuerierThread' /\ ObjectsTrue' /\ RefsTrue'
  BY <1>1, <1>8, QuerierFrame, ObjectFrame, RefsFrame
  DEF WriteData, CloudInv, CloudTypeOK, Thread
<1>12. ASSUME NEW p \in Owner PROVE OwnerThread(p)'
  <2>1. CASE p = o
    BY <2>1, <1>1, <1>2 DEF WriteData, OwnerThread
  <2>2. CASE p # o
    BY <2>2, <1>1, <1>5, <1>8, OwnerFrame DEF WriteData, CloudInv, CloudTypeOK, Thread
  <2> QED
    BY <2>1, <2>2
<1> QED
  BY <1>9, <1>10, <1>11, <1>12 DEF CloudInv

(* The compute callback finds both managers sized, and equal, or throws. *)
LEMMA StartComputeInv ==
  ASSUME CloudInv, StartCompute
  PROVE  CloudInv'
<1>1. HasKey /\ HasAllData
  BY DEF CloudInv, QuerierThread, StartCompute
<1>2. record' = record
  <2>1. \A o \in Owner : record[o].num > 0
    BY <1>1 DEF HasAllData, AllSaved
  <2>2. 0 \in 0 .. MaxNum
    BY CloudAssumption
  <2>3. \A o \in Owner : Manager(o, 0) = record[o]
    BY <2>1, <2>2, ManagerFacts
  <2> QED
    BY <2>3 DEF StartCompute, CloudInv, CloudTypeOK
<1>3. /\ "Q" \in Thread
      /\ pc' = [pc EXCEPT !["Q"] = pc'["Q"]]
      /\ record["A"].num > 0
      /\ pc'["Q"] = IF record["A"].num # record["B"].num THEN "threw" ELSE "read"
      /\ calc' = [key |-> pubkey, num |-> record["A"].num, pos |-> 0, used |-> {}]
  <2>1. record["A"].num > 0 /\ record["A"].num # 0
    BY <1>1 DEF HasAllData, AllSaved, Owner
  <2>2. \A o \in Owner : [p \in Owner |-> record[p].num][o] = record[o].num
    OBVIOUS
  <2> QED
    BY <1>2, <2>1, <2>2 DEF StartCompute, Goto, CloudInv, CloudTypeOK, Thread, Owner
<1>4. Grows
  BY <1>2 DEF StartCompute, Grows, KeepsData, HasKey, AllSaved
<1>5. CloudTypeOK'
  <2>1. record["A"].num \in 0 .. MaxNum
    BY DEF CloudInv, CloudTypeOK, Owner
  <2>2. calc' \in [key : Key \cup {NoKey}, num : 0 .. MaxNum,
                  pos : 0 .. 2 * MaxNum, used : SUBSET Data]
    BY <1>3, <2>1, CloudAssumption DEF CloudInv, CloudTypeOK
  <2>3. pc' \in [Thread -> {"idle", "run", "write", "read", "raise",
                           "apply", "reply", "threw", "undefined"}]
    BY <1>3 DEF CloudInv, CloudTypeOK
  <2> QED
    BY <1>2, <2>2, <2>3 DEF CloudInv, CloudTypeOK, StartCompute
<1>6. QuerierThread'
  BY <1>1, <1>2, <1>3 DEF StartCompute, QuerierThread, HasKey
<1>7. ObjectsTrue' /\ RefsTrue' /\ RecordsTrue'
  BY <1>2, <1>3, <1>4, ObjectFrame, RefsFrame
  DEF StartCompute, CloudInv, CloudTypeOK, RecordsTrue, Thread
<1>8. \A o \in Owner : OwnerThread(o)'
  BY <1>2, <1>3, <1>4, OwnerFrame DEF StartCompute, CloudInv, CloudTypeOK, Owner, Thread
<1> QED
  BY <1>5, <1>6, <1>7, <1>8 DEF CloudInv

(* The querier's thread moves, the stored data and the objects do not. *)
LEMMA QuerierStepInv ==
  ASSUME CloudInv, ReadData \/ RejectData \/ SaveResult \/ SendResult
  PROVE  CloudInv'
<1>1. /\ "Q" \in Thread
      /\ pc' = [pc EXCEPT !["Q"] = pc'["Q"]]
      /\ pc'["Q"] \in {"read", "threw", "raise", "reply"}
      /\ UNCHANGED <<heap, cur, ref, req, pubkey, record, file>>
  BY DEF ReadData, RejectData, SaveResult, SendResult, Goto, CloudInv, CloudTypeOK,
         Thread
<1>2. Grows
  <2>1. result # NoResult => result' # NoResult
    BY KeyAssumption
    DEF ReadData, RejectData, SaveResult, SendResult, CloudInv, QuerierThread, NoResult
  <2> QED
    BY <1>1, <2>1 DEF Grows, KeepsData, HasKey, AllSaved
<1>3. ReadData => /\ calc' = [calc EXCEPT !.pos = calc.pos + 1,
                                          !.used = calc'.used]
                  /\ calc'.used \subseteq Data
                  /\ calc.pos < 2 * calc.num
  <2> SUFFICES ASSUME ReadData
               PROVE  /\ calc' = [calc EXCEPT !.pos = calc.pos + 1,
                                              !.used = calc'.used]
                      /\ calc'.used \subseteq Data
                      /\ calc.pos < 2 * calc.num
    OBVIOUS
  <2> DEFINE data == file[ReadName]
  <2>1. calc \in [key : Key \cup {NoKey}, num : 0 .. MaxNum,
                 pos : 0 .. 2 * MaxNum, used : SUBSET Data]
    BY DEF CloudInv, CloudTypeOK
  <2>2. ReadOwner \in Owner
    BY DEF ReadOwner, Owner
  <2>3. ReadIndex \in 0 .. MaxNum - 1
    <3>1. calc.num \in 1 .. MaxNum /\ calc.pos \in Nat
      BY <2>1, CloudAssumption DEF ReadData, CloudInv, QuerierThread
    <3>2. ReadIndex \in 0 .. calc.num - 1
      BY <3>1, CloudAssumption DEF ReadIndex
    <3> QED
      BY <3>1, <3>2, CloudAssumption
  <2>4. data \in Data
    <3>1. ReadName \in FileName
      BY <2>2, <2>3, FileFacts DEF ReadName
    <3> QED
      BY <3>1 DEF CloudInv, CloudTypeOK
  <2> QED
    BY <2>1, <2>4 DEF ReadData
<1>4. CloudTypeOK'
  <2>1. calc' \in [key : Key \cup {NoKey}, num : 0 .. MaxNum,
                  pos : 0 .. 2 * MaxNum, used : SUBSET Data]
    <3>1. calc \in [key : Key \cup {NoKey}, num : 0 .. MaxNum,
                   pos : 0 .. 2 * MaxNum, used : SUBSET Data]
      BY DEF CloudInv, CloudTypeOK
    <3>2. CASE ReadData
      <4>1. calc.pos + 1 \in 0 .. 2 * MaxNum
        BY <1>3, <3>1, <3>2, CloudAssumption
      <4> QED
        BY <1>3, <3>1, <3>2, <4>1
    <3> QED
      BY <3>1, <3>2 DEF RejectData, SaveResult, SendResult
  <2>2. result' \in Result
    BY DEF ReadData, RejectData, SaveResult, SendResult, CloudInv, CloudTypeOK, Result
  <2>3. pc' \in [Thread -> {"idle", "run", "write", "read", "raise",
                           "apply", "reply", "threw", "undefined"}]
    BY <1>1 DEF CloudInv, CloudTypeOK
  <2> QED
    BY <1>1, <2>1, <2>2, <2>3 DEF CloudInv, CloudTypeOK
<1>5. QuerierThread'
  <2>1. CASE ReadData
    <3>1. calc'.key = calc.key /\ calc'.num = calc.num
      BY <2>1, <1>3 DEF CloudInv, CloudTypeOK
    <3>2. pc'["Q"] = "read" /\ pc["Q"] = "read"
      BY <2>1 DEF ReadData
    <3> QED
      BY <1>1, <3>1, <3>2 DEF QuerierThread, CloudInv
  <2>2. CASE RejectData
    BY <2>2, <1>1 DEF RejectData, Goto, QuerierThread, CloudInv, CloudTypeOK
  <2>3. CASE SaveResult
    <3>1. pc'["Q"] = "raise" /\ req'["Q"].op = "compute" /\ result' # NoResult
      BY <2>3, <1>1, KeyAssumption
      DEF SaveResult, Goto, QuerierThread, CloudInv, CloudTypeOK, NoResult
    <3> QED
      BY <3>1 DEF QuerierThread
  <2>4. CASE SendResult
    BY <2>4, <1>1 DEF SendResult, Goto, QuerierThread, CloudInv, CloudTypeOK
  <2> QED
    BY <2>1, <2>2, <2>3, <2>4
<1>6. ObjectsTrue' /\ RefsTrue' /\ RecordsTrue'
  BY <1>1, <1>2, ObjectFrame, RefsFrame DEF CloudInv, CloudTypeOK, RecordsTrue, Thread
<1>7. \A o \in Owner : OwnerThread(o)'
  BY <1>1, <1>2, OwnerFrame DEF CloudInv, CloudTypeOK, Owner, Thread
<1> QED
  BY <1>4, <1>5, <1>6, <1>7 DEF CloudInv

LEMMA LoadStateInv ==
  ASSUME CloudInv, NEW t \in Thread, LoadState(t)
  PROVE  CloudInv'
<1>1. /\ pc' = [pc EXCEPT ![t] = "apply"] /\ pc[t] = "raise"
      /\ ref' = [ref EXCEPT ![t] = cur]
      /\ UNCHANGED <<heap, cur, req, pubkey, record, file, calc, result>>
  BY DEF LoadState, Goto
<1>2. Grows
  BY <1>1 DEF Grows, KeepsData, HasKey, AllSaved
<1>3. CloudTypeOK'
  BY <1>1 DEF CloudInv, CloudTypeOK
<1>4. ObjectsTrue' /\ RecordsTrue'
  BY <1>1, <1>2, ObjectFrame DEF CloudInv, RecordsTrue
<1>5. RefsTrue'
  BY <1>1 DEF CloudInv, CloudTypeOK, RefsTrue
<1>6. QuerierThread'
  <2>1. CASE t = "Q"
    BY <2>1, <1>1 DEF CloudInv, CloudTypeOK, QuerierThread, HasKey
  <2>2. CASE t # "Q"
    BY <2>2, <1>1, <1>2, QuerierFrame DEF CloudInv, CloudTypeOK, Thread
  <2> QED
    BY <2>1, <2>2
<1>7. ASSUME NEW o \in Owner PROVE OwnerThread(o)'
  <2>1. CASE t = o
    BY <2>1, <1>1 DEF CloudInv, CloudTypeOK, OwnerThread, AllSaved
  <2>2. CASE t # o
    BY <2>2, <1>1, <1>2, OwnerFrame DEF CloudInv, CloudTypeOK, Thread
  <2> QED
    BY <2>1, <2>2
<1> QED
  BY <1>3, <1>4, <1>5, <1>6, <1>7 DEF CloudInv

LEMMA ReplyInv ==
  ASSUME CloudInv, NEW t \in Thread, Reply(t)
  PROVE  CloudInv'
<1>1. /\ pc' = [pc EXCEPT ![t] = "idle"] /\ pc[t] \in {"reply", "threw"}
      /\ req' = [req EXCEPT ![t] = NoRequest]
      /\ calc' = IF t = "Q" THEN NoCalc ELSE calc
      /\ UNCHANGED <<heap, cur, ref, pubkey, record, file, result>>
  BY DEF Reply, Goto
<1>2. Grows
  BY <1>1 DEF Grows, KeepsData, HasKey, AllSaved
<1>3. CloudTypeOK'
  <2>1. NoCalc \in [key : Key \cup {NoKey}, num : 0 .. MaxNum,
                   pos : 0 .. 2 * MaxNum, used : SUBSET Data]
    BY CloudAssumption DEF NoCalc
  <2> QED
    BY <1>1, <2>1 DEF CloudInv, CloudTypeOK
<1>4. ObjectsTrue' /\ RecordsTrue' /\ RefsTrue'
  BY <1>1, <1>2, ObjectFrame, RefsFrame DEF CloudInv, CloudTypeOK, RecordsTrue
<1>5. QuerierThread'
  <2>1. CASE t = "Q"
    BY <2>1, <1>1 DEF CloudInv, CloudTypeOK, QuerierThread
  <2>2. CASE t # "Q"
    BY <2>2, <1>1, <1>2, QuerierFrame DEF CloudInv, CloudTypeOK, Thread
  <2> QED
    BY <2>1, <2>2
<1>6. ASSUME NEW o \in Owner PROVE OwnerThread(o)'
  <2>1. CASE t = o
    BY <2>1, <1>1 DEF CloudInv, CloudTypeOK, OwnerThread
  <2>2. CASE t # o
    BY <2>2, <1>1, <1>2, OwnerFrame DEF CloudInv, CloudTypeOK, Thread
  <2> QED
    BY <2>1, <2>2
<1> QED
  BY <1>3, <1>4, <1>5, <1>6 DEF CloudInv

(* An event reaches a state object, current or replaced: the object and    *)
(* what it installs tell the truth because the event was true when raised. *)
LEMMA ApplyEventInv ==
  ASSUME CloudInv, NEW t \in Thread, ApplyEvent(t)
  PROVE  CloudInv'
<1> DEFINE obj  == heap[ref[t]]
           e    == EventOf(t)
           next == Successor(obj, e)
           h    == [heap EXCEPT ![ref[t]] = Changed(obj, e)]
<1>1. /\ pc[t] = "apply"
      /\ pc' = [pc EXCEPT ![t] = "reply"]
      /\ ref' = [ref EXCEPT ![t] = NoRef]
      /\ UNCHANGED <<req, pubkey, record, file, calc, result>>
  BY DEF ApplyEvent, Goto
<1>2. ref[t] \in ObjId /\ obj \in Object
  BY <1>1 DEF CloudInv, RefsTrue
<1>3. e \in Event /\ EventTrue(e)
  <2>1. CASE t = "Q"
    <3>1. \/ req[t].op \in {"connect", "disconnect"}
          \/ req[t].op = "pubkey" /\ HasKey
          \/ req[t].op = "compute" /\ result # NoResult
      BY <2>1, <1>1 DEF CloudInv, QuerierThread
    <3> QED
      BY <3>1 DEF EventOf, EventName, Event, EventTrue
  <2>2. CASE t \in Owner
    <3>1. \/ req[t].op \in {"connect", "disconnect"}
          \/ req[t].op = "data" /\ AllSaved(t)
      BY <2>2, <1>1 DEF CloudInv, OwnerThread
    <3>2. t = "A" \/ t = "B"
      BY <2>2 DEF Owner
    <3> QED
      BY <3>1, <3>2 DEF EventOf, EventName, Event, EventTrue
  <2> QED
    BY <2>1, <2>2 DEF Thread
<1>4. Changed(obj, e) \in Object /\ next \in Object \cup {Nil}
  BY <1>2, <1>3, ChangedFacts, SuccessorFacts
<1>5. Grows
  BY <1>1 DEF Grows, KeepsData, HasKey, AllSaved
<1>6. /\ HasKey' <=> HasKey
      /\ HasAllData' <=> HasAllData
      /\ (result # NoResult)' <=> result # NoResult
  BY <1>1 DEF HasKey, HasAllData, AllSaved
(* Both objects are true before the step is taken. *)
<1>7. ASSUME NEW f \in Changed(obj, e).stored PROVE EventTrue(f)
  BY <1>2, <1>3, ChangedFacts DEF CloudInv, ObjectsTrue
<1>8. /\ obj.id \in {"Ready", "Computed"} => HasKey /\ HasAllData
      /\ obj.id = "Computed" => result # NoResult
  BY <1>2 DEF CloudInv, ObjectsTrue
<1>9. Changed(obj, e).stored = Stored => HasKey /\ HasAllData
  BY <1>7 DEF Stored, EventTrue, HasAllData, Owner
<1>10. /\ next.id \in {"Ready", "Computed"} => HasKey /\ HasAllData
       /\ next.id = "Computed" => result # NoResult
  BY <1>2, <1>3, <1>8, <1>9, SuccessorFacts DEF EventTrue
<1> DEFINE True(x) == /\ \A f \in x.stored : EventTrue(f)
                      /\ x.id \in {"Ready", "Computed"} => HasKey /\ HasAllData
                      /\ x.id = "Computed" => result # NoResult
<1>11. True(Changed(obj, e)) /\ True(next) /\ True(Nil)
  BY <1>2, <1>3, <1>7, <1>8, <1>10, ChangedFacts, SuccessorFacts DEF Nil
<1>12. \A i \in ObjId : True(h[i])
  BY <1>2, <1>11 DEF CloudInv, CloudTypeOK, ObjectsTrue
<1>13. h \in [ObjId -> Object \cup {Nil}]
  BY <1>2, <1>4 DEF CloudInv, CloudTypeOK
<1>14. h[cur] \in Object /\ \A u \in Thread : pc[u] = "apply" => h[ref[u]] \in Object
  BY <1>2, <1>4 DEF CloudInv, CloudTypeOK, RefsTrue
(* The new heap is what is still referenced of h, with the successor, if   *)
(* there is one, at the new current address.                               *)
<1>15. \/ next = Nil /\ cur' = cur /\ heap' = Live(h, cur, ref')
       \/ /\ next # Nil
          /\ cur' \in ObjId
          /\ \A u \in Thread : ref'[u] # cur'
          /\ heap' = Live([h EXCEPT ![cur'] = next], cur', ref')
  BY DEF ApplyEvent
<1>16. PICK g \in [ObjId -> Object \cup {Nil}] :
          /\ heap' = Live(g, cur', ref')
          /\ cur' \in ObjId
          /\ g[cur'] \in Object
          /\ \A i \in ObjId : True(g[i])
          /\ \A u \in Thread : u # t /\ pc[u] = "apply" => g[ref[u]] \in Object
  <2>1. CASE next = Nil /\ cur' = cur /\ heap' = Live(h, cur, ref')
    <3>1. cur' \in ObjId
      BY <2>1 DEF CloudInv, CloudTypeOK
    <3> HIDE DEF h, next, obj, e, True
    <3> QED
      BY <2>1, <3>1, <1>12, <1>13, <1>14
  <2>2. CASE /\ next # Nil
             /\ cur' \in ObjId
             /\ \A u \in Thread : ref'[u] # cur'
             /\ heap' = Live([h EXCEPT ![cur'] = next], cur', ref')
    <3> DEFINE k == [h EXCEPT ![cur'] = next]
    <3>1. next \in Object
      BY <2>2, <1>4
    <3>2. \A u \in Thread : u # t => ref[u] # cur'
      BY <1>1, <2>2 DEF CloudInv, CloudTypeOK
    <3> HIDE DEF h, next, obj, e, True
    <3>3. k \in [ObjId -> Object \cup {Nil}] /\ k[cur'] = next
          /\ \A i \in ObjId : i # cur' => k[i] = h[i]
      BY <1>13, <2>2, <3>1
    <3>4. \A i \in ObjId : True(k[i])
      BY <1>11, <1>12, <3>3
    <3>5. \A u \in Thread : u # t /\ pc[u] = "apply" => k[ref[u]] \in Object
      BY <1>14, <3>2, <3>3 DEF CloudInv, RefsTrue
    <3> HIDE DEF k
    <3>6. heap' = Live(k, cur', ref')
      BY <2>2 DEF k
    <3> QED
      BY <2>2, <3>1, <3>3, <3>4, <3>5, <3>6
  <2> QED
    BY <1>15, <2>1, <2>2
<1>17. \A i \in ObjId : heap'[i] \in {g[i], Nil}
       /\ (i = cur' \/ (\E u \in Thread : ref'[u] = i) => heap'[i] = g[i])
  BY <1>16 DEF Live
<1>18. CloudTypeOK'
  <2>1. heap' \in [ObjId -> Object \cup {Nil}]
    BY <1>16 DEF Live
  <2> QED
    BY <1>1, <1>16, <2>1 DEF CloudInv, CloudTypeOK
<1>19. ObjectsTrue'
  <2>1. \A i \in ObjId : True(heap'[i])
    BY <1>11, <1>16, <1>17
  <2>2. \A f : EventTrue(f) => EventTrue(f)'
    BY <1>5, EventFrame
  <2> QED
    BY <2>1, <2>2, <1>6 DEF ObjectsTrue
<1>20. RefsTrue'
  <2>1. heap'[cur'] \in Object
    BY <1>16, <1>17
  <2>2. ASSUME NEW u \in Thread, pc'[u] = "apply"
        PROVE  ref'[u] \in ObjId /\ heap'[ref'[u]] \in Object
    <3>1. u # t /\ pc[u] = "apply" /\ ref'[u] = ref[u] /\ ref[u] \in ObjId
      BY <1>1, <2>2 DEF CloudInv, CloudTypeOK, RefsTrue
    <3> QED
      BY <1>16, <1>17, <3>1
  <2> QED
    BY <2>1, <2>2 DEF RefsTrue
<1>21. QuerierThread'
  <2>1. CASE t = "Q"
    BY <2>1, <1>1 DEF CloudInv, CloudTypeOK, QuerierThread
  <2>2. CASE t # "Q"
    BY <2>2, <1>1, <1>5, QuerierFrame DEF CloudInv, CloudTypeOK, Thread
  <2> QED
    BY <2>1, <2>2
<1>22. ASSUME NEW o \in Owner PROVE OwnerThread(o)'
  <2>1. CASE t = o
    BY <2>1, <1>1 DEF CloudInv, CloudTypeOK, OwnerThread
  <2>2. CASE t # o
    BY <2>2, <1>1, <1>5, OwnerFrame DEF CloudInv, CloudTypeOK, Thread
  <2> QED
    BY <2>1, <2>2
<1> QED
  BY <1>1, <1>18, <1>19, <1>20, <1>21, <1>22 DEF CloudInv, RecordsTrue
-----------------------------------------------------------------------------
LEMMA NextInv == CloudInv /\ [CloudNext]_cloudVars => CloudInv'
<1> SUFFICES ASSUME CloudInv, [CloudNext]_cloudVars PROVE CloudInv'
  OBVIOUS
<1>1. CASE UNCHANGED cloudVars
  BY <1>1 DEF cloudVars, CloudInv, CloudTypeOK, ObjectsTrue, EventTrue, HasKey,
     HasAllData, AllSaved, QuerierThread, OwnerThread, RecordsTrue, RefsTrue
<1>2. ASSUME NEW t \in Thread, NEW r \in Request(t), Receive(t, r) PROVE CloudInv'
  BY <1>2, ReceiveInv
<1>3. ASSUME QuerierStep PROVE CloudInv'
  BY <1>3, StorePubkeyInv, StartComputeInv, QuerierStepInv DEF QuerierStep
<1>4. ASSUME NEW o \in Owner, OwnerStep(o) PROVE CloudInv'
  BY <1>4, OpenDataInv, IgnoreDataInv, WriteDataInv DEF OwnerStep
<1>5. ASSUME NEW t \in Thread, LoadState(t) \/ ApplyEvent(t) \/ Reply(t)
      PROVE  CloudInv'
  BY <1>5, LoadStateInv, ApplyEventInv, ReplyInv
<1> QED
  BY <1>1, <1>2, <1>3, <1>4, <1>5 DEF CloudNext, CallbackStep

(* The inductive invariant holds in every state of the cloud. *)
THEOREM CloudInvariant == CloudSpec => []CloudInv
  BY InitInv, NextInv, PTL DEF CloudSpec

(* Every variable of the cloud keeps its type. *)
THEOREM CloudTypeCorrect == CloudSpec => []CloudTypeOK
<1>1. CloudInv => CloudTypeOK
  BY DEF CloudInv
<1> QED
  BY <1>1, CloudInvariant, PTL

(* In Ready and Computed the cloud has a public key and all files of both  *)
(* owners, however late an event reached a state object.                   *)
THEOREM ReadyStored == CloudSpec => []ReadyMeansStored
<1>1. CloudInv => ReadyMeansStored
  BY ReadyFacts DEF ReadyMeansStored
<1> QED
  BY <1>1, CloudInvariant, PTL

(* The cloud is in Computed only once a result was written. *)
THEOREM ComputedHasResult == CloudSpec => []ComputedMeansResult
<1>1. CloudInv => ComputedMeansResult
  BY DEF CloudInv, CloudTypeOK, ObjectsTrue, ComputedMeansResult, StateOf
<1> QED
  BY <1>1, CloudInvariant, PTL

(* A computation never starts on empty or unequal lists of files. *)
THEOREM ComputeFiles == CloudSpec => []ComputeHasFiles
<1>1. CloudInv => ComputeHasFiles
  BY DEF CloudInv, QuerierThread, ComputeHasFiles
<1> QED
  BY <1>1, CloudInvariant, PTL

(* A set of records that is complete is changed by no step of the cloud.   *)
LEMMA SavedKept ==
  ASSUME CloudInv, CloudNext, NEW o \in Owner, AllSaved(o)
  PROVE  record'[o] = record[o]
<1>1. CASE record' = record
  BY <1>1
<1>2. ASSUME NEW p \in Owner, OpenData(p) \/ IgnoreData(p)
      PROVE  record'[o] = record[o]
  <2>1. record[o].num > 0
    BY DEF AllSaved
  <2> QED
    BY <1>2, <2>1, ManagerStep DEF OpenData, IgnoreData
<1>3. ASSUME NEW p \in Owner, WriteData(p)
      PROVE  record'[o] = record[o]
  <2>1. CASE p # o
    BY <1>3, <2>1 DEF WriteData, CloudInv, CloudTypeOK
  <2>2. CASE p = o
    <3>1. record[o] \in [init : BOOLEAN, num : 0 .. MaxNum,
                         saved : SUBSET (0 .. MaxNum - 1)]
      BY DEF CloudInv, CloudTypeOK
    <3>2. req[o].op = "data" /\ req[o].index < record[o].num
      BY <1>3, <2>2 DEF CloudInv, OwnerThread, WriteData
    <3>3. req[o].index \in 0 .. MaxNum - 1
      BY <3>2, RequestFacts DEF CloudInv, CloudTypeOK, NoRequest, Thread
    <3>4. req[o].index \in record[o].saved
      BY <3>1, <3>2, <3>3, CloudAssumption DEF AllSaved
    <3>5. record'[o] = [record[o] EXCEPT !.saved = record[o].saved \cup {req[o].index}]
      BY <1>3, <2>2 DEF WriteData, CloudInv, CloudTypeOK
    <3> QED
      BY <3>1, <3>4, <3>5
  <2> QED
    BY <2>1, <2>2
<1>4. ASSUME StartCompute PROVE record' = record
  <2>1. HasAllData
    BY <1>4 DEF CloudInv, QuerierThread, StartCompute
  <2>2. 0 \in 0 .. MaxNum /\ \A p \in Owner : record[p].num > 0
    BY <2>1, CloudAssumption DEF HasAllData, AllSaved
  <2>3. \A p \in Owner : Manager(p, 0) = record[p]
    BY <2>2, ManagerFacts
  <2> QED
    BY <1>4, <2>3 DEF StartCompute, CloudInv, CloudTypeOK
<1> QED
  BY <1>1, <1>2, <1>3, <1>4
  DEF CloudNext, Receive, CallbackStep, Reply, LoadState, ApplyEvent, QuerierStep,
      OwnerStep, StorePubkey, ReadData, RejectData, SaveResult, SendResult

(* A set of records that is complete is never changed again. *)
THEOREM RecordsNeverReset == CloudSpec => RecordsStick
<1> DEFINE Sticks == \A o \in Owner : AllSaved(o) => record'[o] = record[o]
<1>1. CloudInv /\ [CloudNext]_cloudVars => [Sticks]_cloudVars
  BY SavedKept
<1> QED
  BY <1>1, CloudInvariant, PTL DEF CloudSpec, RecordsStick
=============================================================================

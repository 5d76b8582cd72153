------------------------------- MODULE Cloud --------------------------------
(***************************************************************************)
(* The cloud process: three server threads, one per port (the querier's    *)
(* and one for each data owner), that share the StateContext, the data     *)
(* managers and the files of the working directory.  A callback runs in    *)
(* the thread of its port in several steps, which interleave with those of *)
(* the other two: it tests the current state, does its work, reads the     *)
(* pointer to the current state object and calls that object's set().      *)
(*                                                                         *)
(* The data is abstracted: the public key file holds a key, a data file    *)
(* says which element of which owner it is and the key it was encrypted    *)
(* under, and the result the files it was computed from.                   *)
(***************************************************************************)
EXTENDS Parties, CloudState

CONSTANTS
  MaxNum,      \* bound on the number of files of one upload
  ObjId,       \* addresses of state objects
  OwnerOp,     \* the requests sent to an owner's port
  OpenMayFail, \* may ofstream fail to open in DataManager::save?
  Basename     \* per owner, the name of its input file without the directory

ASSUME CloudAssumption == /\ MaxNum \in Nat
                          /\ OwnerOp \subseteq {"connect", "disconnect", "data"}
                          /\ OpenMayFail \in BOOLEAN
                          /\ DOMAIN Basename = Owner

\* Defect: the index is left out of the name.
enfilenameWithoutIndex(index, basename) == <<basename, 0>>

(* The name of a data file: the index is inserted before the extension,    *)
(* whose four characters stay, so names are equal only if both parts are.  *)
enfilename(index, basename) == <<basename, index>>

\* The name an owner gives its file in its request.
NameOf(o, index) == enfilename(index, Basename[o])
FileName == {NameOf(o, index) : o \in Owner, index \in 0 .. MaxNum - 1}

\* The requests served at each port.
Request(t) ==
  IF t = "Q" THEN [op : {"connect", "disconnect", "compute", "download"}]
                  \cup [op : {"pubkey"}, key : Key]
             ELSE [op : OwnerOp \ {"data"}]
                  \cup [op : OwnerOp \cap {"data"}, key : Key, num : 1 .. MaxNum,
                        index : 0 .. MaxNum - 1]

NoRequest == [op |-> "none"]

\* The content of a data file: complete, being written, or not there.
Content(key, num, o, index) == [key |-> key, num |-> num, owner |-> o, index |-> index]
Torn    == Content(NoKey, 1, "none", 0)
Absent  == Content(NoKey, 0, "none", 0)
Data    == [key : Key, num : 1 .. MaxNum, owner : Owner, index : 0 .. MaxNum - 1]
           \cup {Torn, Absent}

\* A result: the key in use and the data files that were read.
NoResult == [key |-> NoKey, used |-> {}]
Result   == [key : Key \cup {NoKey}, used : SUBSET Data]

VARIABLES
  heap,     \* state object at each address
  cur,      \* address of the context's current object
  ref,      \* per thread, the object its callback is about to call set() on
  pc,       \* per thread, where its callback is
  req,      \* per thread, the request it is serving
  pubkey,   \* the public key file
  record,   \* per owner, the DataManager
  file,     \* per name, the data files in the working directory
  calc,     \* locals of the compute callback
  result    \* the result file

cloudVars == <<heap, cur, ref, pc, req, pubkey, record, file, calc, result>>

NoRecord == [init |-> FALSE, num |-> 0, saved |-> {}]
NoRef    == "null"
NoCalc   == [key |-> NoKey, num |-> 0, pos |-> 0, used |-> {}]

StateOf == heap[cur].id

CloudTypeOK ==
  /\ heap \in [ObjId -> Object \cup {Nil}]
  /\ cur \in ObjId
  /\ ref \in [Thread -> ObjId \cup {NoRef}]
  /\ pc \in [Thread -> {"idle", "run", "write", "read", "raise",
                        "apply", "reply", "threw", "undefined"}]
  /\ req \in [Thread -> Request("Q") \cup Request("A") \cup {NoRequest}]
  /\ \A t \in Thread : req[t] \in Request(t) \cup {NoRequest}
  /\ pubkey \in Key \cup {NoKey}
  /\ record \in [Owner -> [init : BOOLEAN, num : 0 .. MaxNum,
                           saved : SUBSET (0 .. MaxNum - 1)]]
  /\ file \in [FileName -> Data]
  /\ calc \in [key : Key \cup {NoKey}, num : 0 .. MaxNum,
               pos : 0 .. 2 * MaxNum, used : SUBSET Data]
  /\ result \in Result

CloudInit ==
  /\ cur \in ObjId
  /\ heap = [i \in ObjId |-> IF i = cur THEN StateInit(0) ELSE Nil]
  /\ ref = [t \in Thread |-> NoRef]
  /\ pc = [t \in Thread |-> "idle"]
  /\ req = [t \in Thread |-> NoRequest]
  /\ pubkey = NoKey
  /\ record = [o \in Owner |-> NoRecord]
  /\ file = [name \in FileName |-> Absent]
  /\ calc = NoCalc
  /\ result = NoResult
-----------------------------------------------------------------------------
\* Defect: the compute callback tests for one state less.
NeedTooLittle ==
  [connect |-> "Init", disconnect |-> "Init", pubkey |-> "Connected",
   data |-> "Connected", compute |-> "Connected", download |-> "Computed"]

(* The state a request needs; below it the callback throws a warning, the  *)
(* client retries, and the cloud is unchanged.                             *)
Need == [connect |-> "Init", disconnect |-> "Init", pubkey |-> "Connected",
         data |-> "Connected", compute |-> "Ready", download |-> "Computed"]

Accepts(r) == Rank[Need[r.op]] <= Rank[StateOf]

Goto(t, label) == pc' = [pc EXCEPT ![t] = label]

Receive(t, r) ==
  /\ pc[t] = "idle"
  /\ Accepts(r)
  /\ req' = [req EXCEPT ![t] = r]
  /\ Goto(t, IF r.op \in {"connect", "disconnect"} THEN "raise" ELSE "run")
  /\ UNCHANGED <<heap, cur, ref, pubkey, record, file, calc, result>>

\* Defect: a public key file that exists is not overwritten.
StorePubkeyOnce ==
  /\ pc["Q"] = "run" /\ req["Q"].op = "pubkey"
  /\ pubkey' = IF pubkey = NoKey THEN req["Q"].key ELSE pubkey
  /\ Goto("Q", "raise")
  /\ UNCHANGED <<heap, cur, ref, req, record, file, calc, result>>

StorePubkey ==
  /\ pc["Q"] = "run" /\ req["Q"].op = "pubkey"
  /\ pubkey' = req["Q"].key
  /\ Goto("Q", "raise")
  /\ UNCHANGED <<heap, cur, ref, req, record, file, calc, result>>
-----------------------------------------------------------------------------
\* Defect: every call sizes the records anew.
ManagerAnew(o, num) == [init |-> TRUE, num |-> num, saved |-> {}]

(* data_managerA/B(num): a function-static flag lets only the first call   *)
(* of the process size the records, whoever makes it.                      *)
Manager(o, num) == IF record[o].init THEN record[o]
                   ELSE [init |-> TRUE, num |-> num, saved |-> {}]

AllSaved(o) == record[o].num > 0 /\ record[o].saved = 0 .. record[o].num - 1

\* DataManager::save opens the file, which truncates it.
OpenData(o) ==
  /\ pc[o] = "run" /\ req[o].op = "data"
  /\ record' = [record EXCEPT ![o] = Manager(o, req[o].num)]
  /\ req[o].index < record'[o].num
  /\ file' = [file EXCEPT ![NameOf(o, req[o].index)] = Torn]
  /\ Goto(o, "write")
  /\ UNCHANGED <<heap, cur, ref, req, pubkey, calc, result>>

\* An index outside the records, or a file that cannot be opened, is ignored.
IgnoreData(o) ==
  /\ pc[o] = "run" /\ req[o].op = "data"
  /\ record' = [record EXCEPT ![o] = Manager(o, req[o].num)]
  /\ req[o].index >= record'[o].num \/ OpenMayFail
  /\ Goto(o, IF AllSaved(o)' THEN "raise" ELSE "reply")
  /\ UNCHANGED <<heap, cur, ref, req, pubkey, file, calc, result>>

WriteData(o) ==
  /\ pc[o] = "write"
  /\ file' = [file EXCEPT ![NameOf(o, req[o].index)] =
                Content(req[o].key, req[o].num, o, req[o].index)]
  /\ record' = [record EXCEPT ![o].saved = @ \cup {req[o].index}]
  /\ Goto(o, IF AllSaved(o)' THEN "raise" ELSE "reply")
  /\ UNCHANGED <<heap, cur, ref, req, pubkey, calc, result>>
-----------------------------------------------------------------------------
\* Defect: the comparison of the numbers of files is inverted.
StartComputeInverted ==
  /\ pc["Q"] = "run" /\ req["Q"].op = "compute"
  /\ record' = [o \in Owner |-> Manager(o, 0)]
  /\ Goto("Q", IF record'["A"].num = record'["B"].num THEN "threw" ELSE "read")
  /\ calc' = [key |-> pubkey, num |-> record'["A"].num, pos |-> 0, used |-> {}]
  /\ UNCHANGED <<heap, cur, ref, req, pubkey, file, result>>

(* The compute callback: fetch both managers (a first fetch would size     *)
(* them to 0), list their files, and start Psica::calculate, which throws  *)
(* on different numbers of files and reads element 0 of each list.         *)
StartCompute ==
  /\ pc["Q"] = "run" /\ req["Q"].op = "compute"
  /\ record' = [o \in Owner |-> Manager(o, 0)]
  /\ LET num == [o \in Owner |-> record'[o].num]
     IN  /\ Goto("Q", IF num["A"] # num["B"] THEN "threw"
                      ELSE IF num["A"] = 0 THEN "undefined" ELSE "read")
         /\ calc' = [key |-> pubkey, num |-> num["A"], pos |-> 0, used |-> {}]
  /\ UNCHANGED <<heap, cur, ref, req, pubkey, file, result>>

(* The files of A are read in order, then those of B; the header of the    *)
(* first of each must carry the number of files.  A torn or missing file   *)
(* has an arbitrary header.                                                *)
ReadOwner == IF calc.pos < calc.num THEN "A" ELSE "B"
ReadIndex == calc.pos % calc.num
ReadName  == NameOf(ReadOwner, ReadIndex)

ReadData ==
  /\ pc["Q"] = "read"
  /\ calc.pos < 2 * calc.num
  /\ LET data == file[ReadName]
     IN  /\ ReadIndex = 0 /\ data.key # NoKey => data.num = calc.num
         /\ calc' = [calc EXCEPT !.pos = @ + 1, !.used = @ \cup {data}]
  /\ UNCHANGED <<heap, cur, ref, pc, req, pubkey, record, file, result>>

\* Defect: the header is compared with the number of files minus one.
RejectDataOffByOne ==
  /\ pc["Q"] = "read"
  /\ calc.pos < 2 * calc.num
  /\ ReadIndex = 0 /\ file[ReadName].num # calc.num - 1
  /\ Goto("Q", "threw")
  /\ UNCHANGED <<heap, cur, ref, req, pubkey, record, file, calc, result>>

RejectData ==
  /\ pc["Q"] = "read"
  /\ calc.pos < 2 * calc.num
  /\ ReadIndex = 0 /\ (file[ReadName].num # calc.num \/ file[ReadName].key = NoKey)
  /\ Goto("Q", "threw")
  /\ UNCHANGED <<heap, cur, ref, req, pubkey, record, file, calc, result>>

SaveResult ==
  /\ pc["Q"] = "read"
  /\ calc.pos = 2 * calc.num
  /\ result' = [key |-> calc.key, used |-> calc.used]
  /\ Goto("Q", "raise")
  /\ UNCHANGED <<heap, cur, ref, req, pubkey, record, file, calc>>

\* The download callback sends the result file and raises no event.
SendResult ==
  /\ pc["Q"] = "run" /\ req["Q"].op = "download"
  /\ Goto("Q", "reply")
  /\ UNCHANGED <<heap, cur, ref, req, pubkey, record, file, calc, result>>
-----------------------------------------------------------------------------
\* The event each callback raises; a data callback only if all is saved.
EventName == [connect |-> "ConnectSocket", disconnect |-> "DisconnectSocket",
              pubkey |-> "PubKeyStore", compute |-> "JoinRequest"]

EventOf(t) == IF req[t].op = "data"
                THEN IF t = "A" THEN "StoreRequestA" ELSE "StoreRequestB"
                ELSE EventName[req[t].op]

(* state.set(event), first half: the context's current object is looked up *)
(* before its mutex is taken.                                              *)
LoadState(t) ==
  /\ pc[t] = "raise"
  /\ ref' = [ref EXCEPT ![t] = cur]
  /\ Goto(t, "apply")
  /\ UNCHANGED <<heap, cur, req, pubkey, record, file, calc, result>>

\* Objects that some thread or the context still points to; the rest is freed.
Live(h, c, rf) == [i \in ObjId |->
                    IF i = c \/ \E t \in Thread : rf[t] = i THEN h[i] ELSE Nil]

(* state.set(event), second half: the object looked up changes, and may    *)
(* install a successor even if it is no longer the current one.            *)
ApplyEvent(t) ==
  /\ pc[t] = "apply"
  /\ ref' = [ref EXCEPT ![t] = NoRef]
  /\ LET obj  == heap[ref[t]]
         next == Successor(obj, EventOf(t))
         h    == [heap EXCEPT ![ref[t]] = Changed(obj, EventOf(t))]
     IN  \/ /\ next = Nil
            /\ cur' = cur
            /\ heap' = Live(h, cur, ref')
         \/ /\ next # Nil
            /\ \E new \in ObjId :
                 /\ \A u \in Thread : ref'[u] # new
                 /\ cur' = new
                 /\ heap' = Live([h EXCEPT ![new] = next], new, ref')
  /\ Goto(t, "reply")
  /\ UNCHANGED <<req, pubkey, record, file, calc, result>>

Reply(t) ==
  /\ pc[t] \in {"reply", "threw"}
  /\ req' = [req EXCEPT ![t] = NoRequest]
  /\ calc' = IF t = "Q" THEN NoCalc ELSE calc
  /\ Goto(t, "idle")
  /\ UNCHANGED <<heap, cur, ref, pubkey, record, file, result>>
-----------------------------------------------------------------------------
QuerierStep == StorePubkey \/ StartCompute \/ ReadData \/ RejectData
               \/ SaveResult \/ SendResult

OwnerStep(o) == OpenData(o) \/ IgnoreData(o) \/ WriteData(o)

\* A step of a callback that is running, the reply excepted.
CallbackStep(t) == \/ t = "Q" /\ QuerierStep
                   \/ t \in Owner /\ OwnerStep(t)
                   \/ LoadState(t)
                   \/ ApplyEvent(t)

(* The cloud on its own serves every request of every client at any time.  *)
CloudNext == \E t \in Thread : \/ \E r \in Request(t) : Receive(t, r)
                               \/ CallbackStep(t)
                               \/ Reply(t)

CloudSpec == CloudInit /\ [][CloudNext]_cloudVars
-----------------------------------------------------------------------------
HasKey      == pubkey # NoKey
HasAllData  == \A o \in Owner : AllSaved(o)

(* Whatever the order of the requests and however late an event reaches a  *)
(* state object, the cloud is in Ready or Computed only when it has a      *)
(* public key and all files of both owners (state.cpp:102-105 trusts its   *)
(* flags; the callbacks raise the events after their own writes).          *)
ReadyMeansStored == StateOf \in {"Ready", "Computed"} => HasKey /\ HasAllData

(* The cloud is in Computed, where a download is accepted, only once a     *)
(* result file was written, even if the event that made it so was applied  *)
(* to a state object that had been replaced (callback_function.cpp:134).   *)
ComputedMeansResult == StateOf = "Computed" => result # NoResult

(* A compute callback never sizes the data managers itself (to 0, for the  *)
(* whole life of the process: callback_param.cpp:43-53) and never reads    *)
(* element 0 of an empty list of files (psica.cpp:116).                    *)
ComputeHasFiles == pc["Q"] # "undefined"
                   /\ (pc["Q"] = "read" => calc.num = record["A"].num
                                           /\ calc.num = record["B"].num)

(* An owner's records, once they are all saved, stay so: no later upload   *)
(* resets them, whatever its number of files (callback_param.cpp:46).      *)
RecordsStick == [][\A o \in Owner : AllSaved(o) => record'[o] = record[o]]_cloudVars
=============================================================================

----------------------------- MODULE CloudState -----------------------------
(***************************************************************************)
(* The state objects of the cloud (opsica_cloud_state.cpp).  The cloud's   *)
(* StateContext holds one of them; each carries its own fields and mutex,  *)
(* and its set() may change its fields and install a successor.            *)
(* This module has no variables: Changed and Successor say what one call   *)
(* of set() does to the object it is called on.                            *)
(***************************************************************************)
EXTENDS Naturals

CONSTANT SIZE_T          \* number of values of size_t (2^64 in the code)

MAX_CLIENT_NUM == 3

ASSUME SizeTAssumption == SIZE_T \in Nat /\ SIZE_T > MAX_CLIENT_NUM

StateId == {"Init", "Connected", "Ready", "Computed"}

\* The order of the enumerators of the state ids, which the callbacks compare.
Rank == [Init |-> 0, Connected |-> 1, Ready |-> 2, Computed |-> 3]

Event == {"ConnectSocket", "DisconnectSocket", "PubKeyStore",
          "StoreRequestA", "StoreRequestB", "JoinRequest"}

\* What a Connected object remembers to have been stored, per event.
Stored == {"PubKeyStore", "StoreRequestA", "StoreRequestB"}

Object == [id : StateId, count : 0 .. SIZE_T - 1, stored : SUBSET Stored]

StateInit(n)   == [id |-> "Init",      count |-> n, stored |-> {}]
StateConnected == [id |-> "Connected", count |-> 0, stored |-> {}]
StateReady     == [id |-> "Ready",     count |-> 0, stored |-> {}]
StateComputed  == [id |-> "Computed",  count |-> 0, stored |-> {}]

\* No object: what set() installs when it installs nothing.
Nil == [id |-> "Nil", count |-> 0, stored |-> {}]

\* Defect: a signed counter, which goes below zero instead of around.
ChangedInitSigned(obj, event) ==
  IF event = "ConnectSocket" THEN [obj EXCEPT !.count = @ + 1]
  ELSE IF event = "DisconnectSocket" THEN [obj EXCEPT !.count = @ - 1]
  ELSE obj

(***************************************************************************)
(* The object after its set(event): only Init counts and only Connected    *)
(* remembers; size_t wraps around.                                         *)
(***************************************************************************)
ChangedInit(obj, event) ==
  IF event = "ConnectSocket" THEN [obj EXCEPT !.count = (@ + 1) % SIZE_T]
  ELSE IF event = "DisconnectSocket"
    THEN [obj EXCEPT !.count = (@ + (SIZE_T - 1)) % SIZE_T]
    ELSE obj

ChangedConnected(obj, event) ==
  IF event \in Stored THEN [obj EXCEPT !.stored = @ \cup {event}] ELSE obj

Changed(obj, event) ==
  IF obj.id = "Init" THEN ChangedInit(obj, event)
  ELSE IF obj.id = "Connected" THEN ChangedConnected(obj, event)
  ELSE obj

\* Defect: the connection that ended is still counted.
OnDisconnectUncounted(event) ==
  IF event = "DisconnectSocket" THEN StateInit(MAX_CLIENT_NUM) ELSE Nil

\* Defect: back to a state in which the owners count as connected.
OnDisconnectStay(event) ==
  IF event = "DisconnectSocket" THEN StateConnected ELSE Nil

(***************************************************************************)
(* The object set(event) installs in the context, if any, per state of the *)
(* object it is called on.  A Connected object tests its flags after the   *)
(* switch, so on a Disconnect with every flag up the second next_state()   *)
(* wins.                                                                   *)
(***************************************************************************)
OnDisconnect(event) ==
  IF event = "DisconnectSocket" THEN StateInit(MAX_CLIENT_NUM - 1) ELSE Nil

\* Defect: off by one in the comparison of the count.
AfterInitTooSoon(changed, event) ==
  IF event = "ConnectSocket" /\ changed.count > MAX_CLIENT_NUM - 2
    THEN StateConnected ELSE Nil

AfterInit(changed, event) ==
  IF event = "ConnectSocket" /\ changed.count >= MAX_CLIENT_NUM
    THEN StateConnected ELSE Nil

\* Defect: the flag of owner B is not tested.
AfterConnectedWithoutB(changed, event) ==
  IF {"PubKeyStore", "StoreRequestA"} \subseteq changed.stored
    THEN StateReady ELSE OnDisconnect(event)

AfterConnected(changed, event) ==
  IF changed.stored = Stored THEN StateReady ELSE OnDisconnect(event)

\* Defect: the case of a StoreRequest falls through to that of the compute.
AfterReadyFallsThrough(event) ==
  IF event \in {"StoreRequestA", "StoreRequestB", "JoinRequest"}
    THEN StateComputed ELSE OnDisconnect(event)

AfterReady(event) ==
  IF event = "JoinRequest" THEN StateComputed ELSE OnDisconnect(event)

AfterComputed(event) ==
  IF event \in Stored \cup {"JoinRequest"} THEN StateReady ELSE OnDisconnect(event)

Successor(obj, event) ==
  IF obj.id = "Init" THEN AfterInit(Changed(obj, event), event)
  ELSE IF obj.id = "Connected" THEN AfterConnected(Changed(obj, event), event)
  ELSE IF obj.id = "Ready" THEN AfterReady(event)
  ELSE IF obj.id = "Computed" THEN AfterComputed(event)
  ELSE Nil
=============================================================================

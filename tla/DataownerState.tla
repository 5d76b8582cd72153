-------------------------- MODULE DataownerState ----------------------------
(***************************************************************************)
(* The state objects of a data owner (opsica_dataowner_state.cpp).  Only   *)
(* one thread of the process raises events once the querier's port is open *)
(* (main connects to the cloud before it starts the server), so a call of  *)
(* set() and the replacement it makes are one step: DoNext is the object   *)
(* the context holds afterwards.                                           *)
(***************************************************************************)

DoStateId == {"Init", "Connected", "Ready", "Uploaded"}

\* The flags of Init and of Connected, named by the events that raise them.
Links    == {"ConnectSocketFromQuerier", "ConnectSocketToCloud"}
Material == {"PubKeyStore", "FpmaxStore"}

DoEvent == Links \cup Material \cup {"DisconnectSocketFromQuerier", "StoreRequest"}

DoObject == [id : DoStateId, flags : SUBSET (Links \cup Material)]

DoObj(id, flags) == [id |-> id, flags |-> flags]
DoDisconnected   == DoObj("Init", {"ConnectSocketToCloud"})

(* Init and Connected move on when both of their flags are up. *)
DoInitOr(flags)      == IF flags = Links THEN DoObj("Connected", {})
                                         ELSE DoObj("Init", flags)
DoConnectedOr(flags) == IF flags = Material THEN DoObj("Ready", {})
                                            ELSE DoObj("Connected", flags)

DoNextInit(flags, event) ==
  DoInitOr(IF event \in Links THEN flags \cup {event}
           ELSE IF event = "DisconnectSocketFromQuerier"
             THEN flags \ {"ConnectSocketFromQuerier"}
             ELSE flags)

DoNextConnected(flags, event) ==
  IF event = "DisconnectSocketFromQuerier" THEN DoDisconnected
  ELSE DoConnectedOr(IF event \in Material THEN flags \cup {event} ELSE flags)

\* Ready and Uploaded differ in what a StoreRequest leads to.
DoNextStored(id, event) ==
  IF event \in Material THEN DoObj("Connected", Material \ {event})
  ELSE IF event = "StoreRequest"
    THEN DoObj(IF id = "Ready" THEN "Uploaded" ELSE "Ready", {})
  ELSE IF event = "DisconnectSocketFromQuerier" THEN DoDisconnected
  ELSE DoObj(id, {})

DoNext(obj, event) ==
  IF obj.id = "Init" THEN DoNextInit(obj.flags, event)
  ELSE IF obj.id = "Connected" THEN DoNextConnected(obj.flags, event)
  ELSE DoNextStored(obj.id, event)
=============================================================================
